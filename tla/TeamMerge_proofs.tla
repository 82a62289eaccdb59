--------------------------- MODULE TeamMerge_proofs ---------------------------
(***************************************************************************)
(* Proofs about TeamMerge, for any files, contents, similarity of texts    *)
(* and number of workspaces.                                               *)
(***************************************************************************)
EXTENDS TeamMerge, TLAPS

------------------------------------------------------------------------------
(* What the plan for a workspace is.                                       *)

LEMMA RenamingIs ==
    ASSUME NEW w, NEW S \in SUBSET Files, NEW renamed \in Renamings(w, S)
    PROVE  /\ DOMAIN renamed \subseteq DeletedIn(w, S)
           /\ \A old \in DOMAIN renamed : renamed[old] \in AddedIn(w, S)
           /\ \A d, e \in DOMAIN renamed : renamed[d] = renamed[e] => d = e
           /\ Range(renamed) = {renamed[old] : old \in DOMAIN renamed}
<1>1. PICK D \in SUBSET DeletedIn(w, S) : renamed \in [D -> AddedIn(w, S)]
  BY DEF Renamings
<1>2. IsRenaming(w, S, renamed)
  BY DEF Renamings
<1>3. DOMAIN renamed = D /\ D \subseteq Nat
  BY <1>1, TeamMergeAssumption DEF DeletedIn
<1>4. ASSUME NEW d \in D, NEW e \in D, d < e PROVE renamed[d] # renamed[e]
  <2>1. e \in DeletedIn(w, S)
    BY <1>1
  <2> DEFINE free == {new \in AddedIn(w, S) :
                        \A x \in DOMAIN renamed : x < e => renamed[x] # new}
             matches == {new \in free : Score(w, e, new) > 0}
  <2>2. e \in DOMAIN renamed => renamed[e] \in matches
    BY <1>2, <2>1 DEF IsRenaming
  <2>3. renamed[e] \in free
    BY <1>3, <2>2
  <2> QED
    BY <1>3, <1>4, <2>3
<1>5. \A d, e \in D : d < e \/ e < d \/ d = e
  BY <1>3
<1>6. Range(renamed) = {renamed[old] : old \in DOMAIN renamed}
  BY DEF Range
<1> QED
  BY <1>1, <1>3, <1>4, <1>5, <1>6

LEMMA CleanFileIs ==
    ASSUME NEW w, NEW S, NEW renamed, NEW o \in CleanFiles(w, S, renamed)
    PROVE  \/ \E old \in DOMAIN renamed :
                 o = [do |-> "move", file |-> renamed[old], from |-> old]
           \/ \E f \in Others(S, renamed) :
                 /\ ~KeepsMain(w, f)
                 /\ o = [do |-> IF Tree(w)[f] = Absent THEN "remove" ELSE "write",
                         file |-> f]
BY DEF CleanFiles

(* What is planned for the files S of a workspace that differ from main.   *)
Planned(w, S, ops) ==
    /\ ops \subseteq Operations
    /\ \A o \in ops : Touched(o) \subseteq S
    /\ \A o, p \in ops : o = p \/ Touched(o) \cap Touched(p) = {}
    /\ \A o \in ops : \A f \in Touched(o) :
          /\ main[f] \in {base[w][f], Absent} \/ base[w][f] = Absent
          /\ Tree(w)[f] # base[w][f] \/ main[f] = Absent
    /\ \A o \in ops :
          /\ o.do = "remove" <=> Tree(w)[o.file] = Absent
          /\ o.do = "move" => Tree(w)[o.from] = Absent
    /\ \A f \in S : Tree(w)[f] # base[w][f] => \E o \in ops : f \in Touched(o)

LEMMA PlanIs ==
    ASSUME NEW w, NEW S \in SUBSET Files, S \subseteq Diff(w),
           NEW renamed \in Renamings(w, S), ~Conflicting(w, S, renamed)
    PROVE  Planned(w, S, CleanFiles(w, S, renamed))
<1> DEFINE ops == CleanFiles(w, S, renamed)
           rest == Others(S, renamed)
           Move(old) == [do |-> "move", file |-> renamed[old], from |-> old]
           Copy(f) == [do |-> IF Tree(w)[f] = Absent THEN "remove" ELSE "write",
                       file |-> f]
<1>1. /\ DOMAIN renamed \subseteq DeletedIn(w, S)
      /\ \A old \in DOMAIN renamed : renamed[old] \in AddedIn(w, S)
      /\ \A d, e \in DOMAIN renamed : renamed[d] = renamed[e] => d = e
      /\ rest = S \ (DOMAIN renamed \cup {renamed[old] : old \in DOMAIN renamed})
  BY RenamingIs DEF Others
<1>2. ASSUME NEW old \in DOMAIN renamed
      PROVE  /\ old \in S /\ renamed[old] \in S
             /\ Tree(w)[old] = Absent /\ Tree(w)[renamed[old]] # Absent
             /\ base[w][renamed[old]] = Absent
             /\ main[old] = base[w][old] /\ main[renamed[old]] = Absent
             /\ main[old] # Tree(w)[old]
             /\ old # renamed[old]
             /\ Touched(Move(old)) = {old, renamed[old]}
  <2>1. /\ old \in S /\ renamed[old] \in S
        /\ Tree(w)[old] = Absent /\ Tree(w)[renamed[old]] # Absent
        /\ base[w][renamed[old]] = Absent
    BY <1>1, <1>2 DEF AddedIn, DeletedIn
  <2>2. main[old] = base[w][old] /\ main[renamed[old]] = Absent
    BY <1>2 DEF Conflicting
  <2>3. main[old] # Tree(w)[old]
    BY <2>1 DEF Diff
  <2>4. Touched(Move(old)) = {old, renamed[old]}
    BY DEF Touched
  <2> QED
    BY <2>1, <2>2, <2>3, <2>4
<1>3. ASSUME NEW f \in rest
      PROVE  /\ f \in S /\ main[f] # Tree(w)[f] /\ ~Clashes(w, f)
             /\ Touched(Copy(f)) = {f}
  <2>1. f \in S /\ main[f] # Tree(w)[f]
    BY <1>1, <1>3 DEF Diff
  <2>2. ~Clashes(w, f)
    BY <1>3 DEF Conflicting
  <2>3. Touched(Copy(f)) = {f}
    BY DEF Touched
  <2> QED
    BY <2>1, <2>2, <2>3
<1>4. \A o \in ops :
         \/ \E old \in DOMAIN renamed : o = Move(old)
         \/ \E f \in rest : ~KeepsMain(w, f) /\ o = Copy(f)
  BY CleanFileIs
<1>5. /\ \A old \in DOMAIN renamed : Move(old) \in ops
      /\ \A f \in rest : ~KeepsMain(w, f) => Copy(f) \in ops
  BY DEF CleanFiles
<1> HIDE DEF ops, rest
<1>6. ops \subseteq Operations
  <2> SUFFICES ASSUME NEW o \in ops PROVE o \in Operations
    OBVIOUS
  <2>1. ASSUME NEW old \in DOMAIN renamed, o = Move(old) PROVE o \in Operations
    BY <1>2, <2>1 DEF Operations
  <2>2. ASSUME NEW f \in rest, o = Copy(f) PROVE o \in Operations
    BY <1>3, <2>2 DEF Operations
  <2> QED
    BY <1>4, <2>1, <2>2
<1>7. ASSUME NEW o \in ops PROVE Touched(o) \subseteq S
  BY <1>2, <1>3, <1>4
<1>8. ASSUME NEW o \in ops, NEW p \in ops, o # p PROVE Touched(o) \cap Touched(p) = {}
  <2>1. ASSUME NEW d \in DOMAIN renamed, NEW e \in DOMAIN renamed, o = Move(d), p = Move(e)
        PROVE  Touched(o) \cap Touched(p) = {}
    <3>1. d # e
      BY <1>8, <2>1
    <3>2. renamed[d] # renamed[e]
      BY <1>1, <3>1
    <3>3. d # renamed[e] /\ e # renamed[d]
      BY <1>2
    <3>4. Touched(o) = {d, renamed[d]} /\ Touched(p) = {e, renamed[e]}
      BY <1>2, <2>1
    <3> QED
      BY <3>1, <3>2, <3>3, <3>4
  <2>2. ASSUME NEW d \in DOMAIN renamed, NEW f \in rest
        PROVE  Touched(Move(d)) \cap Touched(Copy(f)) = {}
    BY <1>1, <1>2, <1>3
  <2>3. ASSUME NEW f \in rest, NEW g \in rest, o = Copy(f), p = Copy(g)
        PROVE  Touched(o) \cap Touched(p) = {}
    <3>1. f # g
      BY <1>8, <2>3
    <3> QED
      BY <1>3, <2>3, <3>1
  <2> HIDE DEF Move, Copy
  <2> QED
    BY <1>4, <2>1, <2>2, <2>3
<1>9. ASSUME NEW o \in ops, NEW f \in Touched(o)
      PROVE  /\ main[f] \in {base[w][f], Absent} \/ base[w][f] = Absent
             /\ Tree(w)[f] # base[w][f] \/ main[f] = Absent
  <2>1. ASSUME NEW old \in DOMAIN renamed, o = Move(old)
        PROVE  /\ main[f] \in {base[w][f], Absent} \/ base[w][f] = Absent
               /\ Tree(w)[f] # base[w][f] \/ main[f] = Absent
    <3>1. f \in {old, renamed[old]}
      BY <1>2, <1>9, <2>1
    <3> QED
      BY <1>2, <3>1
  <2>2. ASSUME f \in rest, ~KeepsMain(w, f)
        PROVE  /\ main[f] \in {base[w][f], Absent} \/ base[w][f] = Absent
               /\ Tree(w)[f] # base[w][f] \/ main[f] = Absent
    BY <1>3, <2>2 DEF KeepsMain, Clashes
  <2>3. \A g \in rest : o = Copy(g) => f = g
    BY <1>3, <1>9
  <2> HIDE DEF Move, Copy
  <2> QED
    BY <1>4, <1>9, <2>1, <2>2, <2>3
<1>10. ASSUME NEW o \in ops
       PROVE  /\ o.do = "remove" <=> Tree(w)[o.file] = Absent
              /\ o.do = "move" => Tree(w)[o.from] = Absent
  BY <1>2, <1>4
<1>11. ASSUME NEW f \in S, Tree(w)[f] # base[w][f]
       PROVE  \E o \in ops : f \in Touched(o)
  <2>1. CASE f \in DOMAIN renamed
    BY <1>2, <1>5, <2>1
  <2>2. ASSUME NEW old \in DOMAIN renamed, f = renamed[old]
        PROVE  \E o \in ops : f \in Touched(o)
    BY <1>2, <1>5, <2>2
  <2>3. CASE f \in rest
    <3>1. ~KeepsMain(w, f)
      BY <1>3, <1>11, <2>3 DEF KeepsMain, Clashes
    <3>2. Copy(f) \in ops /\ f \in Touched(Copy(f))
      BY <1>3, <1>5, <2>3, <3>1
    <3> QED
      BY <3>2
  <2> QED
    BY <1>1, <2>1, <2>2, <2>3
<1> QED
  BY <1>6, <1>7, <1>8, <1>9, <1>10, <1>11 DEF Planned, ops

------------------------------------------------------------------------------
(* Types.                                                                  *)

LEMMA IdleTyped == Idle \in Jobs /\ Idle.phase = "idle" /\ Idle.todo = {}
<1>1. 1 \in Workspaces
  BY TeamMergeAssumption DEF Workspaces
<1> QED
  BY <1>1 DEF Idle, Jobs

LEMMA TreeTyped ==
    ASSUME TypeOK, NEW w \in Workspaces
    PROVE  Tree(w) \in Trees
BY DEF TypeOK, Tree, Trees, Empty

LEMMA ListedTyped == Listed \subseteq Workspaces
BY DEF Listed

LEMMA DiffTyped == \A w : Diff(w) \subseteq Files
BY DEF Diff

LEMMA SelectedIs ==
    ASSUME NEW w, NEW file, NEW skipped
    PROVE  /\ Selected(w, file, skipped) \subseteq Diff(w)
           /\ file = All => Selected(w, file, skipped) = Diff(w) \ skipped
           /\ file # All => Selected(w, file, skipped) \subseteq {file}
BY DEF Selected

(* What the plan of the next workspace leaves in the job. *)
LEMMA PlanDoes ==
    ASSUME TypeOK, NEW w \in Workspaces, PlanWorkspace(w)
    PROVE  \/ job' = Idle
           \/ \E ops :
                /\ job' = [job EXCEPT !.phase = "writing", !.now = w,
                             !.left = @ \ {w}, !.fresh = TRUE, !.todo = ops]
                /\ Planned(w, Selected(w, job.file, job.skipped), ops)
<1> DEFINE S == Selected(w, job.file, job.skipped)
<1>1. S \in SUBSET Files /\ S \subseteq Diff(w)
  BY SelectedIs, DiffTyped
<1>2. PICK renamed \in Renamings(w, S) :
         job' = IF Conflicting(w, S, renamed) THEN Idle
                ELSE [job EXCEPT !.phase = "writing", !.now = w,
                        !.left = @ \ {w}, !.fresh = TRUE,
                        !.todo = CleanFiles(w, S, renamed)]
  BY DEF PlanWorkspace
<1>3. CASE ~Conflicting(w, S, renamed)
  <2>1. Planned(w, S, CleanFiles(w, S, renamed))
    BY <1>1, <1>3, PlanIs
  <2> QED
    BY <1>2, <1>3, <2>1
<1> QED
  BY <1>2, <1>3

(* What the copying of one file does. *)
LEMMA ApplyDoes ==
    ASSUME TypeOK, NEW o \in job.todo, ApplyFile(o)
    PROVE  /\ job.phase = "writing" /\ o \in Operations /\ job.now \in Workspaces
           /\ \E next \in SUBSET Operations :
                /\ job' = [job EXCEPT !.todo = (@ \ {o}) \cup next]
                /\ \A n \in next :
                      /\ n = [do |-> "remove", file |-> o.from]
                      /\ o.do = "move" /\ Touched(n) = {o.from}
                      /\ Tree(job.now)[o.file] # Absent
                /\ o.do = "move" /\ Tree(job.now)[o.file] # Absent =>
                      \E n \in next : Touched(n) = {o.from}
           /\ main' = [main EXCEPT ![o.file] = main'[o.file]]
           /\ o.do = "remove" => main'[o.file] = Absent
           /\ o.do # "remove" =>
                 main'[o.file] = IF Tree(job.now)[o.file] # Absent
                                 THEN Tree(job.now)[o.file] ELSE main[o.file]
<1> DEFINE content == Tree(job.now)[o.file]
           next == IF o.do = "move" /\ content # Absent
                   THEN {[do |-> "remove", file |-> o.from]} ELSE {}
<1>1. job.phase = "writing" /\ o \in Operations /\ job.now \in Workspaces
  BY DEF ApplyFile, TypeOK, Jobs
<1>2. o.file \in Files /\ (o.do = "move" => o.from \in Files)
  BY <1>1 DEF Operations
<1>3. next \in SUBSET Operations
  BY <1>2 DEF Operations
<1>4. Touched([do |-> "remove", file |-> o.from]) = {o.from}
  BY DEF Touched
<1>5. job' = [job EXCEPT !.todo = (@ \ {o}) \cup next]
  BY DEF ApplyFile
<1>6. /\ o.do = "remove" => main' = [main EXCEPT ![o.file] = Absent]
      /\ o.do # "remove" /\ content # Absent => main' = [main EXCEPT ![o.file] = content]
      /\ o.do # "remove" /\ content = Absent => main' = main
  BY DEF ApplyFile
<1>7. /\ main' = [main EXCEPT ![o.file] = main'[o.file]]
      /\ o.do = "remove" => main'[o.file] = Absent
      /\ o.do # "remove" =>
            main'[o.file] = IF content # Absent THEN content ELSE main[o.file]
  BY <1>2, <1>6 DEF TypeOK
<1> QED
  BY <1>1, <1>3, <1>4, <1>5, <1>7

LEMMA JobTyped ==
    ASSUME TypeOK, Next
    PROVE  job' \in Jobs
<1> USE DEF TypeOK
<1>1. CASE CopyMain \/ TakeSnapshot \/ AgentWorks \/ RunEnds \/ Resolve
  BY <1>1 DEF CopyMain, TakeSnapshot, AgentWorks, RunEnds, Resolve
<1>2. CASE UserEdits \/ Discard \/ Cleanup
  <2>1. \/ job' = Idle
        \/ job' = [job EXCEPT !.steady = FALSE, !.fresh = FALSE]
        \/ job' = [job EXCEPT !.steady = FALSE]
    BY <1>2 DEF UserEdits, Discard, Cleanup, Remove
  <2> QED
    BY <2>1, IdleTyped DEF Jobs
<1>3. CASE Blocked \/ ApplyEnds \/ Crash
  BY <1>3, IdleTyped DEF Blocked, ApplyEnds, Crash
<1>4. CASE Review
  <2>1. PICK file \in Files \cup {All} :
          job' = [Idle EXCEPT !.phase = "reviewed", !.file = file,
                    !.reviewed = IF file = All THEN UNION {Diff(w) : w \in Listed}
                                 ELSE {file}]
    BY <1>4 DEF Review
  <2>2. UNION {Diff(w) : w \in Listed} \in SUBSET Files
    BY DiffTyped
  <2>3. file # All => {file} \in SUBSET Files
    BY <2>1
  <2> QED
    BY <2>1, <2>2, <2>3, IdleTyped DEF Jobs
<1>5. CASE BeginApply
  <2>1. Resolved("skip") \in SUBSET Files
    BY DEF Resolved
  <2> QED
    BY <1>5, <2>1, ListedTyped DEF BeginApply, Jobs
<1>6. ASSUME NEW w \in Workspaces, PlanWorkspace(w) PROVE job' \in Jobs
  <2>1. ASSUME NEW ops,
               job' = [job EXCEPT !.phase = "writing", !.now = w,
                         !.left = @ \ {w}, !.fresh = TRUE, !.todo = ops],
               Planned(w, Selected(w, job.file, job.skipped), ops)
        PROVE  job' \in Jobs
    BY <1>6, <2>1 DEF Jobs, Planned
  <2> QED
    BY <1>6, <2>1, PlanDoes, IdleTyped
<1>7. ASSUME NEW o \in job.todo, ApplyFile(o) PROVE job' \in Jobs
  BY <1>7, ApplyDoes DEF Jobs
<1>8. CASE MarkWorkspace
  BY <1>8 DEF MarkWorkspace, Jobs
<1> QED
  BY <1>1, <1>2, <1>3, <1>4, <1>5, <1>6, <1>7, <1>8 DEF Next

LEMMA TypeKeeps ==
    ASSUME TypeOK, RunIsOver, Next
    PROVE  TypeOK'
<1> DEFINE Rest ==
      /\ main' \in [Files -> Contents \cup {Absent, Torn}]
      /\ turn' \in Workspaces
      /\ stage' \in {"copy", "snapshot", "work", "over"}
      /\ status' \in [Workspaces -> {"none", "active", "applied", "discarded"}]
      /\ base' \in [Workspaces -> Trees]
      /\ tree' \in [Workspaces -> Trees]
      /\ gone' \subseteq Workspaces
      /\ resolution' \in [Files -> {"apply", "skip", "manual"}]
      /\ acts' \in 0..MaxActs
      /\ origin' \in [Workspaces -> Trees]
<1>1. Rest
  <2> USE DEF TypeOK
  <2>1. Act => acts' \in 0..MaxActs
    BY TeamMergeAssumption DEF Act
  <2>2. CASE CopyMain
    BY <2>2 DEF CopyMain, RunIsOver
  <2>3. CASE TakeSnapshot
    BY <2>3 DEF TakeSnapshot, RunIsOver
  <2>4. CASE AgentWorks
    <3>1. turn < Steps => turn + 1 \in Workspaces
      BY TeamMergeAssumption DEF Workspaces
    <3>2. tree' \in [Workspaces -> Trees]
      BY <2>4 DEF AgentWorks
    <3> QED
      BY <2>4, <3>1, <3>2 DEF AgentWorks
  <2>5. CASE RunEnds
    BY <2>5 DEF RunEnds
  <2>6. CASE UserEdits
    BY <2>1, <2>6 DEF UserEdits
  <2>7. CASE Review
    BY <2>1, <2>7 DEF Review
  <2>8. CASE Blocked \/ BeginApply \/ ApplyEnds
    BY <2>8 DEF Blocked, BeginApply, ApplyEnds
  <2>9. ASSUME NEW w \in Workspaces, PlanWorkspace(w) PROVE Rest
    BY <2>9 DEF PlanWorkspace
  <2>10. ASSUME NEW o \in job.todo, ApplyFile(o) PROVE Rest
    <3>1. Tree(job.now) \in Trees /\ o.file \in Files
      BY <2>10, ApplyDoes, TreeTyped DEF Operations
    <3>2. main'[o.file] \in Contents \cup {Absent, Torn}
      BY <2>10, <3>1, ApplyDoes DEF Trees
    <3>3. main' \in [Files -> Contents \cup {Absent, Torn}]
      BY <2>10, <3>1, <3>2, ApplyDoes
    <3> QED
      BY <2>10, <3>3 DEF ApplyFile
  <2>11. CASE MarkWorkspace
    BY <2>11 DEF MarkWorkspace
  <2>12. CASE Crash
    BY <2>12 DEF Crash
  <2>13. CASE Resolve
    BY <2>1, <2>13 DEF Resolve
  <2>14. CASE Discard \/ Cleanup
    BY <2>1, <2>14, ListedTyped DEF Discard, Cleanup, Remove
  <2> QED
    BY <2>2, <2>3, <2>4, <2>5, <2>6, <2>7, <2>8, <2>9, <2>10, <2>11, <2>12, <2>13, <2>14
       DEF Next
<1> QED
  BY <1>1, JobTyped DEF TypeOK

LEMMA RunIsOverKeeps ==
    ASSUME TypeOK, RunIsOver, Next
    PROVE  RunIsOver'
<1> USE DEF RunIsOver
<1>1. CASE CopyMain \/ TakeSnapshot \/ AgentWorks \/ RunEnds
  BY <1>1 DEF CopyMain, TakeSnapshot, AgentWorks, RunEnds
<1>2. CASE UserEdits
  BY <1>2 DEF UserEdits, Trees
<1>3. CASE Review \/ Blocked \/ BeginApply \/ MarkWorkspace \/ ApplyEnds \/ Crash
  BY <1>3, IdleTyped DEF Review, Blocked, BeginApply, MarkWorkspace, ApplyEnds, Crash
<1>4. ASSUME NEW w \in Workspaces, PlanWorkspace(w) PROVE RunIsOver'
  BY <1>4, IdleTyped DEF PlanWorkspace
<1>5. ASSUME NEW o \in job.todo, ApplyFile(o) PROVE RunIsOver'
  BY <1>5, IdleTyped DEF ApplyFile
<1>6. CASE Resolve \/ Discard \/ Cleanup
  BY <1>6 DEF Resolve, Discard, Cleanup, Remove
<1> QED
  BY <1>1, <1>2, <1>3, <1>4, <1>5, <1>6 DEF Next

------------------------------------------------------------------------------
(* The operations that are still to be done.                               *)

TodoInv ==
    TodoApart /\ TodoSelected /\ TodoFound /\ TodoFits /\ TodoCovers /\ AllReviewed

LEMMA NothingToDo ==
    ASSUME job' = Idle
    PROVE  TodoInv'
<1>1. job'.phase = "idle" /\ job'.todo = {}
  BY IdleTyped
<1> QED
  BY <1>1 DEF TodoInv, TodoApart, TodoSelected, TodoFound, TodoFits, TodoCovers, AllReviewed,
     Writing

(* No other step but the two of the merge touches both the plan and what   *)
(* it is about.                                                            *)
LEMMA RunTodo ==
    ASSUME TypeOK, RunIsOver, CopyMain \/ TakeSnapshot \/ AgentWorks \/ RunEnds
    PROVE  TodoInv'
<1>1. job' = job /\ stage # "over"
  BY DEF CopyMain, TakeSnapshot, AgentWorks, RunEnds
<1>2. job = Idle
  BY <1>1 DEF RunIsOver
<1> QED
  BY <1>1, <1>2, NothingToDo

LEMMA UserTodo ==
    ASSUME TypeOK, TodoInv, UserEdits
    PROVE  TodoInv'
<1>1. CASE job = Idle
  BY <1>1, NothingToDo DEF UserEdits
<1>2. CASE job # Idle
  <2>1. job' = [job EXCEPT !.steady = FALSE, !.fresh = FALSE]
    BY <1>2 DEF UserEdits
  <2>2. /\ job'.phase = job.phase /\ job'.file = job.file /\ job'.reviewed = job.reviewed
        /\ job'.left = job.left /\ job'.skipped = job.skipped /\ job'.now = job.now
        /\ job'.todo = job.todo /\ ~job'.steady /\ ~job'.fresh
    BY <2>1 DEF TypeOK, Jobs
  <2>3. gone' = gone /\ tree' = tree /\ status' = status /\ base' = base
    BY DEF UserEdits
  <2>4. TodoApart' /\ TodoSelected' /\ TodoFound' /\ TodoFits' /\ TodoCovers'
    BY <2>2, <2>3 DEF TodoInv, TodoApart, TodoSelected, TodoFound, TodoFits, TodoCovers,
       Writing, Touched
  <2>5. AllReviewed'
    BY <2>2 DEF TodoInv, AllReviewed
  <2> QED
    BY <2>4, <2>5 DEF TodoInv
<1> QED
  BY <1>1, <1>2

LEMMA RemovalTodo ==
    ASSUME TypeOK, TodoInv, Discard \/ Cleanup
    PROVE  TodoInv'
<1>1. CASE job = Idle
  BY <1>1, NothingToDo DEF Discard, Cleanup, Remove
<1>2. CASE job # Idle
  <2>1. job' = [job EXCEPT !.steady = FALSE] /\ gone \subseteq gone'
    BY <1>2 DEF Discard, Cleanup, Remove
  <2>2. /\ job'.phase = job.phase /\ job'.file = job.file /\ job'.reviewed = job.reviewed
        /\ job'.left = job.left /\ job'.skipped = job.skipped /\ job'.now = job.now
        /\ job'.todo = job.todo /\ ~job'.steady /\ job'.fresh = job.fresh
    BY <2>1 DEF TypeOK, Jobs
  <2>3. main' = main /\ tree' = tree /\ base' = base
    BY DEF Discard, Cleanup
  <2>4. TodoApart' /\ TodoSelected'
    BY <2>2 DEF TodoInv, TodoApart, TodoSelected, Writing, Touched
  <2>5. TodoFound'
    BY <2>1, <2>2, <2>3 DEF TodoInv, TodoFound, Writing, Touched
  <2>6. TodoFits'
    BY <2>1, <2>2, <2>3 DEF TodoInv, TodoFits, Writing
  <2>7. TodoCovers'
    BY <2>1, <2>2, <2>3 DEF TodoInv, TodoCovers, Writing, Touched
  <2>8. AllReviewed'
    BY <2>2 DEF TodoInv, AllReviewed
  <2> QED
    BY <2>4, <2>5, <2>6, <2>7, <2>8 DEF TodoInv
<1> QED
  BY <1>1, <1>2

(* The steps of a command before and between the workspaces. *)
LEMMA IdleTodo ==
    ASSUME Blocked \/ ApplyEnds \/ Crash
    PROVE  TodoInv'
BY NothingToDo DEF Blocked, ApplyEnds, Crash

LEMMA ResolveTodo ==
    ASSUME TodoInv, Resolve
    PROVE  TodoInv'
<1>1. UNCHANGED <<main, status, base, tree, gone, job>>
  BY DEF Resolve
<1> QED
  BY <1>1 DEF TodoInv, TodoApart, TodoSelected, TodoFound, TodoFits, TodoCovers, AllReviewed,
     Writing, Listed, Diff, Tree, Touched

LEMMA ReviewTodo ==
    ASSUME TypeOK, Review
    PROVE  TodoInv'
<1>1. PICK file \in Files \cup {All} :
        job' = [Idle EXCEPT !.phase = "reviewed", !.file = file,
                  !.reviewed = IF file = All THEN UNION {Diff(w) : w \in Listed}
                               ELSE {file}]
  BY DEF Review
<1>2. /\ job'.phase = "reviewed" /\ job'.todo = {} /\ job'.file = file
      /\ job'.reviewed = IF file = All THEN UNION {Diff(w) : w \in Listed} ELSE {file}
  BY <1>1 DEF Idle
<1>3. Listed' = Listed /\ \A w : Diff(w)' = Diff(w)
  BY DEF Review, Listed, Diff, Tree
<1>4. AllReviewed'
  BY <1>2, <1>3 DEF AllReviewed, Writing
<1> QED
  BY <1>2, <1>4 DEF TodoInv, TodoApart, TodoSelected, TodoFound, TodoFits, TodoCovers, Writing

LEMMA BetweenTodo ==
    ASSUME TypeOK, TodoInv, BeginApply \/ MarkWorkspace
    PROVE  TodoInv'
<1>1. /\ job'.phase = "planning" /\ job'.todo = job.todo /\ job'.file = job.file
      /\ job'.reviewed = job.reviewed /\ job'.steady = job.steady
      /\ job'.left = IF job.phase = "reviewed" THEN Listed ELSE job.left
      /\ job.phase \in {"reviewed", "writing"}
  BY DEF BeginApply, MarkWorkspace, TypeOK, Jobs
<1>2. \A w : Diff(w)' = Diff(w)
  BY DEF BeginApply, MarkWorkspace, Diff, Tree
<1>3. AllReviewed'
  BY <1>1, <1>2 DEF TodoInv, AllReviewed, Writing
<1> QED
  BY <1>1, <1>3 DEF TodoInv, TodoApart, TodoSelected, TodoFound, TodoFits, TodoCovers, Writing,
     Touched

LEMMA PlanTodo ==
    ASSUME TypeOK, TodoInv, NEW w \in Workspaces, PlanWorkspace(w)
    PROVE  TodoInv'
<1> DEFINE S == Selected(w, job.file, job.skipped)
<1>1. CASE job' = Idle
  BY <1>1, NothingToDo
<1>2. ASSUME NEW ops,
             job' = [job EXCEPT !.phase = "writing", !.now = w,
                       !.left = @ \ {w}, !.fresh = TRUE, !.todo = ops],
             Planned(w, S, ops)
      PROVE  TodoInv'
  <2>1. /\ job'.phase = "writing" /\ job'.now = w /\ job'.left = job.left \ {w}
        /\ job'.todo = ops /\ job'.file = job.file /\ job'.reviewed = job.reviewed
        /\ job'.skipped = job.skipped /\ job'.steady = job.steady
    BY <1>2 DEF TypeOK, Jobs
  <2>2. /\ UNCHANGED <<main, status, base, tree, gone>>
        /\ job.phase = "planning" /\ w \in job.left
    BY DEF PlanWorkspace
  <2>3. w \notin gone => Tree(w) = tree[w]
    BY DEF Tree
  <2>4. /\ S \subseteq Diff(w) /\ (job.file # All => S \subseteq {job.file})
        /\ job.file = All => S = Diff(w) \ job.skipped
    BY SelectedIs
  <2> HIDE DEF S
  <2>5. /\ \A o \in ops : Touched(o) \subseteq S
        /\ \A o, p \in ops : o = p \/ Touched(o) \cap Touched(p) = {}
        /\ \A f \in S : Tree(w)[f] # base[w][f] => \E o \in ops : f \in Touched(o)
    BY <1>2 DEF Planned
  <2>6. TodoApart'
    BY <2>1, <2>5 DEF TodoApart, Touched
  <2>7. TodoSelected'
    BY <2>1, <2>4, <2>5 DEF TodoSelected, Touched
  <2>8. TodoFound'
    <3> SUFFICES ASSUME NEW o \in ops, NEW f \in Touched(o)
                 PROVE  /\ main[f] \in {base[w][f], Absent} \/ base[w][f] = Absent
                        /\ tree[w][f] # base[w][f] \/ main[f] = Absent \/ w \in gone
      BY <2>1, <2>2 DEF TodoFound, Touched
    <3>1. /\ main[f] \in {base[w][f], Absent} \/ base[w][f] = Absent
          /\ Tree(w)[f] # base[w][f] \/ main[f] = Absent
      BY <1>2 DEF Planned
    <3> QED
      BY <2>3, <3>1
  <2>9. TodoFits'
    <3>1. \A o \in ops : /\ o.do = "remove" <=> Tree(w)[o.file] = Absent
                         /\ o.do = "move" => Tree(w)[o.from] = Absent
      BY <1>2 DEF Planned
    <3> QED
      BY <2>1, <2>2, <2>3, <3>1 DEF TodoFits
  <2>10. TodoCovers'
    <3> SUFFICES ASSUME job.file = All, w \notin gone, NEW f \in Files \ job.skipped,
                        tree[w][f] # base[w][f], main[f] # tree[w][f]
                 PROVE  \E o \in ops : f \in Touched(o)
      BY <2>1, <2>2 DEF TodoCovers, Touched
    <3>1. f \in S
      BY <2>3, <2>4 DEF Diff
    <3> QED
      BY <2>3, <2>5, <3>1
  <2>11. AllReviewed'
    <3>1. \A v : Diff(v)' = Diff(v)
      BY <2>2 DEF Diff, Tree
    <3>2. /\ job.file # All => job.reviewed = {job.file}
          /\ job.steady /\ job.file = All =>
                \A v \in job.left : Diff(v) \subseteq job.reviewed
      BY <2>2 DEF TodoInv, AllReviewed
    <3>3. job.steady => S \subseteq job.reviewed
      BY <2>2, <2>4, <3>2
    <3>4. job.steady => \A o \in ops : Touched(o) \subseteq job.reviewed
      BY <2>5, <3>3
    <3> QED
      BY <2>1, <3>1, <3>2, <3>4 DEF AllReviewed, Touched
  <2> QED
    BY <2>6, <2>7, <2>8, <2>9, <2>10, <2>11 DEF TodoInv
<1> QED
  BY <1>1, <1>2, PlanDoes

LEMMA ApplyTodo ==
    ASSUME TypeOK, TodoInv, NEW o \in job.todo, ApplyFile(o)
    PROVE  TodoInv'
<1> DEFINE w == job.now
<1>1. /\ job.phase = "writing" /\ o \in Operations /\ w \in Workspaces
      /\ main' = [main EXCEPT ![o.file] = main'[o.file]]
      /\ o.do = "remove" => main'[o.file] = Absent
      /\ o.do # "remove" =>
            main'[o.file] = IF Tree(w)[o.file] # Absent THEN Tree(w)[o.file] ELSE main[o.file]
  BY ApplyDoes
<1>2. PICK next :
        /\ job' = [job EXCEPT !.todo = (@ \ {o}) \cup next]
        /\ \A n \in next :
              /\ n = [do |-> "remove", file |-> o.from]
              /\ o.do = "move" /\ Touched(n) = {o.from}
              /\ Tree(w)[o.file] # Absent
        /\ o.do = "move" /\ Tree(w)[o.file] # Absent => \E n \in next : Touched(n) = {o.from}
  BY ApplyDoes
<1>3. /\ job'.phase = "writing" /\ job'.now = w /\ job'.left = job.left
      /\ job'.todo = (job.todo \ {o}) \cup next /\ job'.file = job.file
      /\ job'.reviewed = job.reviewed /\ job'.skipped = job.skipped
      /\ job'.steady = job.steady /\ job'.fresh = job.fresh
  BY <1>1, <1>2 DEF TypeOK, Jobs
<1>4. UNCHANGED <<status, base, tree, gone>>
  BY DEF ApplyFile
<1>5. /\ o.file \in Touched(o) /\ (o.do = "move" => Touched(o) = {o.file, o.from})
      /\ o.do # "move" => Touched(o) = {o.file}
      /\ o.file \in Files
  BY <1>1 DEF Touched, Operations
<1>6. w \notin gone => Tree(w) = tree[w]
  BY DEF Tree
<1>7. \A f : f # o.file /\ f \in Files => main'[f] = main[f]
  BY <1>1 DEF TypeOK
<1>8. \A n \in next : Touched(n) \subseteq Touched(o) /\ o.file \notin Touched(n)
  <2> SUFFICES ASSUME NEW n \in next PROVE Touched(n) \subseteq Touched(o) /\ o.file \notin Touched(n)
    OBVIOUS
  <2>1. o.do = "move" /\ Touched(n) = {o.from} /\ Tree(w)[o.file] # Absent
    BY <1>2
  <2>2. w \notin gone
    BY <1>5, <2>1 DEF Tree, Empty
  <2>3. tree[w][o.file] # Absent /\ tree[w][o.from] = Absent
    BY <1>1, <1>6, <2>1, <2>2 DEF TodoInv, TodoFits, Writing
  <2> QED
    BY <1>5, <2>1, <2>3
<1>9. \A p \in job.todo \ {o} : Touched(p) \cap Touched(o) = {}
  BY DEF TodoInv, TodoApart
<1>10. \A p \in job'.todo : \A f \in Touched(p) :
          /\ f \in Files /\ f # o.file
          /\ \E q \in job.todo : f \in Touched(q)
  <2> SUFFICES ASSUME NEW p \in job'.todo, NEW f \in Touched(p)
               PROVE  /\ f \in Files /\ f # o.file
                      /\ \E q \in job.todo : f \in Touched(q)
    OBVIOUS
  <2>1. \A q \in job.todo : Touched(q) \subseteq Files
    BY DEF TypeOK, Jobs, Operations, Touched
  <2>2. CASE p \in job.todo \ {o}
    BY <1>5, <1>9, <2>1, <2>2
  <2>3. CASE p \in next
    BY <1>8, <2>1, <2>3
  <2> QED
    BY <1>3, <2>2, <2>3
<1>11. TodoApart'
  <2> SUFFICES ASSUME NEW p \in job'.todo, NEW q \in job'.todo, p # q
               PROVE  Touched(p) \cap Touched(q) = {}
    BY DEF TodoApart, Touched
  <2>1. p \in next /\ q \in next => p = q
    BY <1>2
  <2>2. p \in job.todo \ {o} /\ q \in job.todo \ {o} => Touched(p) \cap Touched(q) = {}
    BY DEF TodoInv, TodoApart
  <2> QED
    BY <1>3, <1>8, <1>9, <2>1, <2>2
<1>12. TodoSelected'
  <2>1. job.file = All => \A p \in job.todo : Touched(p) \cap job.skipped = {}
    BY <1>1 DEF TodoInv, TodoSelected, Writing
  <2> QED
    BY <1>3, <1>10, <2>1 DEF TodoSelected, Touched
<1>13. TodoFound'
  <2> SUFFICES ASSUME job.fresh, NEW p \in job'.todo, NEW f \in Touched(p)
               PROVE  /\ main'[f] \in {base[w][f], Absent} \/ base[w][f] = Absent
                      /\ tree[w][f] # base[w][f] \/ main'[f] = Absent \/ w \in gone
    BY <1>3, <1>4 DEF TodoFound, Touched
  <2>1. main'[f] = main[f]
    BY <1>7, <1>10
  <2>2. PICK q \in job.todo : f \in Touched(q)
    BY <1>10
  <2> QED
    BY <1>1, <2>1, <2>2 DEF TodoInv, TodoFound, Writing
<1>14. TodoFits'
  <2> SUFFICES ASSUME w \notin gone, NEW p \in job'.todo
               PROVE  /\ p.do = "remove" <=> tree[w][p.file] = Absent
                      /\ p.do = "move" => tree[w][p.from] = Absent
    BY <1>3, <1>4 DEF TodoFits
  <2>1. \A q \in job.todo : /\ q.do = "remove" <=> tree[w][q.file] = Absent
                            /\ q.do = "move" => tree[w][q.from] = Absent
    BY <1>1 DEF TodoInv, TodoFits, Writing
  <2>2. CASE p \in next
    <3>1. p = [do |-> "remove", file |-> o.from] /\ o.do = "move"
      BY <1>2, <2>2
    <3>2. tree[w][o.from] = Absent
      BY <2>1, <3>1
    <3> QED
      BY <3>1, <3>2
  <2> QED
    BY <1>3, <2>1, <2>2
<1>15. TodoCovers'
  <2> SUFFICES ASSUME job.fresh, job.file = All, w \notin gone, NEW f \in Files \ job.skipped,
                      tree[w][f] # base[w][f]
               PROVE  \/ main'[f] = tree[w][f]
                      \/ \E p \in job'.todo : f \in Touched(p)
    BY <1>3, <1>4 DEF TodoCovers, Touched
  <2>1. main[f] = tree[w][f] \/ \E p \in job.todo : f \in Touched(p)
    BY <1>1 DEF TodoInv, TodoCovers, Writing
  <2>2. /\ o.do = "remove" <=> tree[w][o.file] = Absent
        /\ o.do = "move" => tree[w][o.from] = Absent
    BY <1>1 DEF TodoInv, TodoFits, Writing
  <2>3. main'[o.file] = tree[w][o.file]
    BY <1>1, <1>6, <2>2
  <2>4. CASE f = o.file
    BY <2>3, <2>4
  <2>5. CASE f # o.file /\ f \in Touched(o)
    <3>1. o.do = "move" /\ f = o.from
      BY <1>5, <2>5
    <3>2. Tree(w)[o.file] # Absent
      BY <1>6, <2>2, <3>1
    <3> QED
      BY <1>2, <1>3, <3>1, <3>2
  <2>6. CASE f # o.file /\ f \notin Touched(o)
    BY <1>3, <1>7, <2>1, <2>6
  <2> QED
    BY <2>4, <2>5, <2>6
<1>16. AllReviewed'
  <2>1. /\ job.file # All => job.reviewed = {job.file}
        /\ job.steady => \A p \in job.todo : Touched(p) \subseteq job.reviewed
        /\ job.steady /\ job.file = All => \A v \in job.left : Diff(v) \subseteq job.reviewed
    BY <1>1 DEF TodoInv, AllReviewed, Writing
  <2>2. \A v : Diff(v)' \subseteq Diff(v) \cup {o.file}
    BY <1>4, <1>7 DEF Diff, Tree
  <2>3. job.steady => o.file \in job.reviewed
    BY <1>5, <2>1
  <2>4. job.steady => \A p \in job'.todo : Touched(p) \subseteq job.reviewed
    BY <1>10, <2>1
  <2>5. job.steady /\ job.file = All => \A v \in job.left : Diff(v)' \subseteq job.reviewed
    BY <2>1, <2>2, <2>3
  <2> QED
    BY <1>3, <2>1, <2>4, <2>5 DEF AllReviewed, Touched
<1> QED
  BY <1>11, <1>12, <1>13, <1>14, <1>15, <1>16 DEF TodoInv

LEMMA TodoKeeps ==
    ASSUME TypeOK, RunIsOver, TodoInv, Next
    PROVE  TodoInv'
BY RunTodo, UserTodo, RemovalTodo, IdleTodo, ResolveTodo, ReviewTodo, BetweenTodo, PlanTodo,
   ApplyTodo DEF Next

------------------------------------------------------------------------------
(* The invariant, and what may happen to main.                             *)

LEMMA IInvIs == IInv <=> TypeOK /\ RunIsOver /\ TodoInv
BY DEF IInv, TodoInv

LEMMA InitIInv == Init => IInv
<1> SUFFICES ASSUME Init PROVE IInv
  OBVIOUS
<1>1. 1 \in Workspaces /\ Empty \in Trees /\ 0 \in 0..MaxActs
  BY TeamMergeAssumption DEF Workspaces, Empty, Trees
<1>2. main \in Trees
  BY TeamMergeAssumption DEF Init, Trees
<1>3. TypeOK
  BY <1>1, <1>2, IdleTyped DEF Init, TypeOK, Trees
<1>4. RunIsOver
  BY <1>2 DEF Init, RunIsOver
<1>5. TodoInv
  BY IdleTyped DEF Init, TodoInv, TodoApart, TodoSelected, TodoFound, TodoFits, TodoCovers,
     AllReviewed, Writing
<1> QED
  BY <1>3, <1>4, <1>5, IInvIs

(* Every step keeps the invariant. *)
LEMMA NextIInv == IInv /\ [Next]_vars => IInv'
<1>1. ASSUME IInv, Next PROVE IInv'
  <2>1. TypeOK /\ RunIsOver /\ TodoInv
    BY <1>1, IInvIs
  <2>2. TypeOK' /\ RunIsOver' /\ TodoInv'
    BY <1>1, <2>1, TypeKeeps, RunIsOverKeeps, TodoKeeps
  <2> QED
    BY <2>2 DEF IInv, TodoInv
<1>2. ASSUME IInv, UNCHANGED vars PROVE IInv'
  BY <1>2 DEF vars, IInv, TypeOK, RunIsOver, TodoApart, TodoSelected, TodoFound, TodoFits,
     TodoCovers, AllReviewed, Writing, Listed, Diff, Tree, Touched
<1> QED
  BY <1>1, <1>2

(* A file that changes in main while a workspace is being written, other   *)
(* than by the user, is one of an operation that was still to be done.     *)
LEMMA ChangedIsTodo ==
    ASSUME TypeOK, [Next]_vars, job.phase = "writing", acts' = acts,
           NEW f \in Files, main'[f] # main[f]
    PROVE  \E o \in job.todo : f \in Touched(o)
<1>1. CASE UNCHANGED main
  BY <1>1
<1>2. CASE UserEdits
  BY <1>2 DEF UserEdits, Act, TypeOK
<1>3. ASSUME NEW o \in job.todo, ApplyFile(o)
      PROVE  \E p \in job.todo : f \in Touched(p)
  <2>1. f = o.file
    BY <1>3, ApplyDoes DEF TypeOK
  <2> QED
    BY <2>1 DEF Touched
<1>4. CASE Crash
  <2>1. PICK o \in job.todo : main' = [main EXCEPT ![o.file] = Torn]
    BY <1>4 DEF Crash
  <2>2. f = o.file
    BY <2>1 DEF TypeOK
  <2> QED
    BY <2>2 DEF Touched
<1> QED
  BY <1>1, <1>2, <1>3, <1>4 DEF Next, vars, CopyMain, TakeSnapshot, AgentWorks, RunEnds, Review,
     Blocked, BeginApply, PlanWorkspace, MarkWorkspace, ApplyEnds, Resolve, Discard, Cleanup

(* The inductive invariant of a merge: the operations that are left touch  *)
(* different files, none of them skipped or not reviewed; each file is in  *)
(* main as it was when the workspace was compared; and what the subagent   *)
(* has done is in main or is still to be done.                             *)
THEOREM InductiveInvariant == Spec => []IInv
BY InitIInv, NextIInv, PTL DEF Spec

(* A full apply of a workspace brings all of the subagent's work into main *)
(* but for the skipped files.                                              *)
THEOREM AllWorkArrives == Spec => []WorkArrives
<1>1. IInv => WorkArrives
  BY DEF IInv, WorkArrives, TodoCovers, Writing
<1> QED
  BY <1>1, InductiveInvariant, PTL

(* The merge overwrites or removes no edit that was made in main since the *)
(* workspace was isolated, to a file that was there then.                  *)
THEOREM EditsAreKept == Spec => EditsSurvive
<1> DEFINE P == \A f \in Files : Applied(f) /\ origin[job.now][f] # Absent =>
                   main[f] \in {origin[job.now][f], Absent}
<1>1. IInv /\ [Next]_vars => P
  <2> SUFFICES ASSUME IInv, [Next]_vars, NEW f \in Files, Applied(f),
                      origin[job.now][f] # Absent
               PROVE  main[f] \in {origin[job.now][f], Absent}
    OBVIOUS
  <2>1. PICK o \in job.todo : f \in Touched(o)
    BY ChangedIsTodo DEF IInv, Applied
  <2> QED
    BY <2>1 DEF IInv, TodoFound, Writing, Applied
<1> HIDE DEF P
<1>2. Spec => [][P]_vars
  BY <1>1, InductiveInvariant, PTL DEF Spec
<1> QED
  BY <1>2 DEF EditsSurvive, P

(* The merge changes only what the subagent has changed, what main has     *)
(* lost, or what a removed workspace would bring.                          *)
THEOREM OnlyAgentsWork == Spec => OnlyAgentsChanges
<1> DEFINE P == \A f \in Files : Applied(f) =>
                   \/ tree[job.now][f] # origin[job.now][f]
                   \/ main[f] = Absent
                   \/ job.now \in gone
<1>1. IInv /\ [Next]_vars => P
  <2> SUFFICES ASSUME IInv, [Next]_vars, NEW f \in Files, Applied(f)
               PROVE  \/ tree[job.now][f] # origin[job.now][f]
                      \/ main[f] = Absent
                      \/ job.now \in gone
    OBVIOUS
  <2>1. PICK o \in job.todo : f \in Touched(o)
    BY ChangedIsTodo DEF IInv, Applied
  <2> QED
    BY <2>1 DEF IInv, TodoFound, Writing, Applied
<1> HIDE DEF P
<1>2. Spec => [][P]_vars
  BY <1>1, InductiveInvariant, PTL DEF Spec
<1> QED
  BY <1>2 DEF OnlyAgentsChanges, P

(* A full apply leaves a skipped file alone. *)
THEOREM SkippedIsKept == Spec => SkippedKept
<1> DEFINE P == job.phase = "writing" /\ job.file = All /\ acts' = acts =>
                   \A f \in job.skipped : main'[f] = main[f]
<1>1. IInv /\ [Next]_vars => P
  <2> SUFFICES ASSUME IInv, [Next]_vars, job.phase = "writing", job.file = All, acts' = acts,
                      NEW f \in job.skipped, main'[f] # main[f]
               PROVE  FALSE
    OBVIOUS
  <2>1. f \in Files
    BY DEF IInv, TypeOK, Jobs
  <2>2. PICK o \in job.todo : f \in Touched(o)
    BY <2>1, ChangedIsTodo DEF IInv
  <2> QED
    BY <2>2 DEF IInv, TodoSelected, Writing
<1> HIDE DEF P
<1>2. Spec => [][P]_vars
  BY <1>1, InductiveInvariant, PTL DEF Spec
<1> QED
  BY <1>2 DEF SkippedKept, P

(* The merge changes no file that the review did not list, unless main was *)
(* edited or a workspace removed meanwhile.                                *)
THEOREM ReviewedIsMerged == Spec => OnlyReviewedFiles
<1> DEFINE P == job.phase = "writing" /\ job.steady /\ acts' = acts =>
                   \A f \in Files \ job.reviewed : main'[f] = main[f]
<1>1. IInv /\ [Next]_vars => P
  <2> SUFFICES ASSUME IInv, [Next]_vars, job.phase = "writing", job.steady, acts' = acts,
                      NEW f \in Files \ job.reviewed, main'[f] # main[f]
               PROVE  FALSE
    OBVIOUS
  <2>1. PICK o \in job.todo : f \in Touched(o)
    BY ChangedIsTodo DEF IInv
  <2> QED
    BY <2>1 DEF IInv, AllReviewed, Writing
<1> HIDE DEF P
<1>2. Spec => [][P]_vars
  BY <1>1, InductiveInvariant, PTL DEF Spec
<1> QED
  BY <1>2 DEF OnlyReviewedFiles, P
===============================================================================
