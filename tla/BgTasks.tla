------------------------------- MODULE BgTasks -------------------------------
(***************************************************************************)
(* The life of one background task: its record                             *)
(* (.apeironcode-agent/bg-tasks/<id>.json), the process that created it,   *)
(* and the processes that stop and resume it.  Sources:                    *)
(* src/src/tasks/bgTaskStore.ts, bgTaskRunner.ts, bgTask.ts, taskResume.ts *)
(* and src/src/cli/setup/bgTaskHandlers.ts.                                *)
(*                                                                         *)
(* A handler is the list of store calls it still has to make.  A call that *)
(* sets the status or appends a log line loads the whole record, changes   *)
(* the copy and saves all of it; a save first truncates the file, and an   *)
(* unreadable file reads as null, "Task not found".  The process that runs *)
(* a task never looks at its status again: stop only writes the record.    *)
(***************************************************************************)
EXTENDS Naturals, Sequences, FiniteSets, Functions

CONSTANTS
    Creator,   \* the process of task create
    Commands,  \* processes that each run one later stop or resume
    Null       \* what getTask returns for an unreadable record

ASSUME BgTasksAssumption ==
    /\ Creator \notin Commands
    /\ IsFiniteSet(Commands)

Procs == {Creator} \cup Commands

VARIABLES
    kind,     \* the kind of the task
    disk,     \* the record a reader gets, or Null
    todo,     \* the store calls each process still has to make
    pc,       \* where each process is within the first of them
    copy,     \* the changed record a process is about to save
    decided,  \* processes between their look at the status and the status
              \*   they then save
    last,     \* history: the status saved by the last status call
    logged,   \* history: log lines each process has saved
    stops,    \* history: how often "stopped" has been saved
    calm,     \* history: no store call has been disturbed
    stale,    \* history: a status was saved while another process had
              \*   decided, but not yet saved, its own
    crashed   \* history: a process died

vars == <<kind, disk, todo, pc, copy, decided, last, logged, stops,
          calm, stale, crashed>>

Kinds == {"agent", "shell", "workflow"}
Statuses == {"queued", "running", "succeeded", "failed", "stopped"}
Terminal == {"succeeded", "failed"}
Resumable == {"stopped", "failed"}  \* nothing ever sets "paused"

Records == [status : Statuses, completed : BOOLEAN, error : BOOLEAN,
            logs : [Procs -> Nat]]

ASSUME NullAssumption == Null \notin Records

Calls == Statuses \cup {"start?", "log", "agent"}

TypeOK ==
    /\ kind \in Kinds
    /\ disk \in Records \cup {Null}
    /\ todo \in [Procs -> Seq(Calls)]
    /\ pc \in [Procs -> {"fresh", "ready", "saving", "writing"}]
    /\ copy \in [Procs -> Records \cup {Null}]
    /\ decided \subseteq Procs
    /\ last \in Statuses
    /\ logged \in [Procs -> Nat]
    /\ stops \in Nat
    /\ calm \in BOOLEAN /\ stale \in BOOLEAN /\ crashed \in BOOLEAN

(* createTask, which no other process knows of yet; --start goes on. *)
Init ==
    /\ kind \in Kinds
    /\ disk = [status |-> "queued", completed |-> FALSE, error |-> FALSE,
               logs |-> [p \in Procs |-> 0]]
    /\ \E start \in BOOLEAN :
          todo = [p \in Procs |->
                    IF p = Creator /\ start THEN <<"start?">> ELSE <<>>]
    /\ pc = [p \in Procs |-> IF p = Creator THEN "ready" ELSE "fresh"]
    /\ copy = [p \in Procs |-> Null]
    /\ decided = {}
    /\ last = "queued"
    /\ logged = [p \in Procs |-> 0]
    /\ stops = 0
    /\ calm = TRUE /\ stale = FALSE /\ crashed = FALSE

------------------------------------------------------------------------------
Call(p) == Head(todo[p])
AtCall(p, calls) == pc[p] = "ready" /\ todo[p] # <<>> /\ Call(p) \in calls

InWindow(p) == pc[p] \in {"saving", "writing"}
Overlapped(p) == \E q \in Procs \ {p} : InWindow(q)

Goto(p, calls) == todo' = [todo EXCEPT ![p] = calls]

(* Mutant of Changed: appendTaskLog saves the log line alone. *)
ChangedLogsAnew(p, rec) ==
    IF Call(p) = "log"
    THEN [rec EXCEPT !.logs = [[q \in Procs |-> 0] EXCEPT ![p] = rec.logs[p] + 1]]
    ELSE [rec EXCEPT !.status = Call(p),
                     !.completed = @ \/ Call(p) \in Terminal \cup {"stopped"},
                     !.error = @ \/ Call(p) = "failed"]

(* Mutant of Changed: a failed task is saved without its status. *)
ChangedNoFailure(p, rec) ==
    CASE Call(p) = "log"    -> [rec EXCEPT !.logs[p] = @ + 1]
      [] Call(p) = "failed" -> [rec EXCEPT !.error = TRUE]
      [] OTHER -> [rec EXCEPT !.status = Call(p),
                              !.completed = @ \/ Call(p) \in Terminal \cup {"stopped"}]

(* Mutant of Changed: a status that is none of the statuses. *)
ChangedToDone(p, rec) ==
    CASE Call(p) = "log"       -> [rec EXCEPT !.logs[p] = @ + 1]
      [] Call(p) = "succeeded" -> [rec EXCEPT !.status = "done", !.completed = TRUE]
      [] OTHER -> [rec EXCEPT !.status = Call(p)]

(* What updateStatus and appendTaskLog change in the record they loaded.   *)
(* Neither asks what the status was; completedAt and errorSummary are set  *)
(* and never cleared.                                                      *)
Changed(p, rec) ==
    IF Call(p) = "log"
    THEN [rec EXCEPT !.logs[p] = @ + 1]
    ELSE [rec EXCEPT !.status = Call(p),
                     !.completed = @ \/ Call(p) \in Terminal \cup {"stopped"},
                     !.error = @ \/ Call(p) = "failed"]

(* resumeTask and runTaskOnce give up if their task is gone. *)
WithoutRecord(p) ==
    IF Call(p) \in {"queued", "running"} THEN <<>> ELSE Tail(todo[p])

(* updateTask and appendTaskLog, up to save. *)
LoadAndChange(p) ==
    /\ AtCall(p, Statuses \cup {"log"})
    /\ IF disk = Null
       THEN /\ Goto(p, WithoutRecord(p))
            /\ decided' = IF Call(p) = "log" THEN decided ELSE decided \ {p}
            /\ UNCHANGED <<copy, pc>>
       ELSE /\ copy' = [copy EXCEPT ![p] = Changed(p, disk)]
            /\ pc' = [pc EXCEPT ![p] = "saving"]
            /\ UNCHANGED <<todo, decided>>
    /\ calm' = (calm /\ ~Overlapped(p))
    /\ UNCHANGED <<kind, disk, last, logged, stops, stale, crashed>>

BeginWrite(p) ==
    /\ pc[p] = "saving"
    /\ pc' = [pc EXCEPT ![p] = "writing"]
    /\ disk' = Null
    /\ UNCHANGED <<kind, todo, copy, decided, last, logged, stops,
                   calm, stale, crashed>>

(* Over the longer text of a save that landed in between, the file becomes *)
(* unreadable.                                                             *)
EndWrite(p) ==
    /\ pc[p] = "writing"
    /\ disk' \in {copy[p]} \cup (IF disk = Null THEN {} ELSE {Null})
    /\ pc' = [pc EXCEPT ![p] = "ready"]
    /\ copy' = [copy EXCEPT ![p] = Null]
    /\ Goto(p, Tail(todo[p]))
    /\ IF Call(p) = "log"
       THEN /\ logged' = [logged EXCEPT ![p] = @ + 1]
            /\ UNCHANGED <<decided, last, stops, stale>>
       ELSE /\ last' = Call(p)
            /\ stops' = IF Call(p) = "stopped" THEN stops + 1 ELSE stops
            /\ decided' = decided \ {p}
            /\ stale' = (stale \/ decided \ {p} # {})
            /\ UNCHANGED logged
    /\ UNCHANGED <<kind, calm, crashed>>

------------------------------------------------------------------------------
(* runTaskOnce.  A shell task made by task create has no command, and      *)
(* fails.                                                                  *)
RunCalls ==
    <<"running", "log">> \o
        CASE kind = "shell"    -> <<"failed">>
          [] kind = "workflow" -> <<"log", "succeeded">>
          [] kind = "agent"    -> <<"log", "agent">>

(* The handler p looks at the record and goes on with the given calls, or *)
(* with a warning in the log.                                             *)
Decide(p, proceeds, calls, refusal) ==
    /\ pc' = [pc EXCEPT ![p] = "ready"]
    /\ \/ /\ disk = Null
          /\ Goto(p, <<>>)
          /\ UNCHANGED decided
       \/ /\ disk # Null
          /\ proceeds
          /\ Goto(p, calls)
          /\ decided' = decided \cup {p}
       \/ /\ disk # Null
          /\ ~proceeds
          /\ Goto(p, refusal)
          /\ UNCHANGED decided
    /\ calm' = (calm /\ ~Overlapped(p))
    /\ UNCHANGED <<kind, disk, copy, last, logged, stops, stale, crashed>>

(* startTask, called by task create --start. *)
StartTask ==
    /\ AtCall(Creator, {"start?"})
    /\ Decide(Creator, disk # Null /\ disk.status = "queued", RunCalls, <<"log">>)

(* stopTask: any task that is not over, a queued or a stopped one too. *)
StopTask(c) ==
    /\ pc[c] = "fresh"
    /\ Decide(c, disk # Null /\ disk.status \notin Terminal,
              <<"log", "stopped">>, <<>>)

(* Mutant of MayResume: a running task may be resumed. *)
MayResumeRunning(status) == status \in Resumable \cup {"running"}

(* canResumeTask: isResumableStatus, or failed. *)
MayResume(status) == status \in Resumable

(* resumeTask: a fresh rerun in this process.  No command sets the         *)
(* session, checkpoint or worktree that the other strategies need, and     *)
(* their calls are the same.                                               *)
ResumeTask(c) ==
    /\ pc[c] = "fresh"
    /\ Decide(c, disk # Null /\ MayResume(disk.status),
              <<"log", "queued">> \o RunCalls, <<"log">>)

(* runAgentTask: the agent's result, or its exception, becomes a log line; *)
(* Project Brain may add a hint; the task succeeds or fails.               *)
AgentEnds(p) ==
    /\ AtCall(p, {"agent"})
    /\ \E hint \in {<<>>, <<"log">>}, outcome \in Terminal :
          Goto(p, <<"log">> \o hint \o <<outcome>>)
    /\ UNCHANGED <<kind, disk, pc, copy, decided, last, logged, stops,
                   calm, stale, crashed>>

(* A process dies; in the middle of a write it leaves the file truncated. *)
Crash(p) ==
    /\ todo[p] # <<>>
    /\ Goto(p, <<>>)
    /\ pc' = [pc EXCEPT ![p] = "ready"]
    /\ copy' = [copy EXCEPT ![p] = Null]
    /\ decided' = decided \ {p}
    /\ calm' = (calm /\ pc[p] # "writing")
    /\ crashed' = TRUE
    /\ UNCHANGED <<kind, disk, last, logged, stops, stale>>

------------------------------------------------------------------------------
(* What a process does by itself once its command has begun. *)
Proceed(p) ==
    \/ LoadAndChange(p)
    \/ BeginWrite(p)
    \/ EndWrite(p)
    \/ AgentEnds(p)

Next ==
    \/ StartTask
    \/ \E c \in Commands : StopTask(c) \/ ResumeTask(c)
    \/ \E p \in Procs : Proceed(p) \/ Crash(p)

(* A process that does not die goes on, and every agent run ends (its     *)
(* iterations are bounded).  Nobody has to stop or resume a task.         *)
Fairness ==
    /\ WF_vars(StartTask)
    /\ \A p \in Procs : WF_vars(Proceed(p))

Spec == Init /\ [][Next]_vars /\ Fairness

------------------------------------------------------------------------------
(* As long as no store call was disturbed, the record has the status of    *)
(* the last status call and every log line: appendTaskLog, which saves the *)
(* whole record, brings back no earlier status, and updateStatus drops no  *)
(* log line of another process.                                            *)
CalmKeepsUpdates ==
    calm /\ disk # Null => disk.status = last /\ disk.logs = logged

(* The processes that run the task's work now. *)
Executing ==
    {p \in Procs : /\ Range(todo[p]) \cap (Terminal \cup {"agent"}) # {}
                   /\ "running" \notin Range(todo[p])}

(* stop does not end a run, so every stop can lead to one more run beside  *)
(* those that go on, but nothing else can: a resume of a failed task takes *)
(* the place of the run that failed.  Undisturbed and with each decision   *)
(* still true when it is saved, at most one run more than there were stops *)
(* goes on (the guards of startTask and canResumeTask).                    *)
OneMoreRunPerStop ==
    calm /\ ~stale => Cardinality(Executing) <= 1 + stops

(* A task shown as running comes to an end, unless its process died or a   *)
(* store call was disturbed (then the status may never change again).      *)
RunningEnds ==
    (disk # Null /\ disk.status = "running")
        ~> (disk = Null \/ disk.status # "running" \/ ~calm \/ crashed)

------------------------------------------------------------------------------
(* The inductive invariant from which the first two follow.                *)

(* A call in its window is one that saves. *)
WindowsSave ==
    \A p \in Procs : InWindow(p) =>
        /\ todo[p] # <<>> /\ Call(p) \in Statuses \cup {"log"}
        /\ copy[p] # Null

(* A command that has not begun has no calls to make. *)
FreshAreIdle == \A p \in Procs : pc[p] = "fresh" => todo[p] = <<>>

(* Undisturbed, one process is in its window, the record is away only      *)
(* while it writes, and its copy is the record with its change.            *)
OneInWindow == \A p, q \in Procs : InWindow(p) /\ InWindow(q) => p = q

GoneWhileWritten == disk = Null <=> \E p \in Procs : pc[p] = "writing"

CopyFollows ==
    \A p \in Procs : InWindow(p) =>
        /\ copy[p].status = IF Call(p) = "log" THEN last ELSE Call(p)
        /\ copy[p].logs = IF Call(p) = "log" THEN [logged EXCEPT ![p] = @ + 1]
                                             ELSE logged

(* A process that has decided is still before its first status call. *)
Stopping(p) == todo[p] \in {<<"log", "stopped">>, <<"stopped">>}
Resuming(p) == todo[p] \in {<<"log", "queued">> \o RunCalls, <<"queued">> \o RunCalls}

DecidedAreEarly ==
    \A p \in decided :
        IF p = Creator THEN todo[p] = RunCalls ELSE Stopping(p) \/ Resuming(p)

(* The status that ends a run is its last call. *)
RunsEndLast ==
    \A p \in Procs : \A i \in DOMAIN todo[p] :
        todo[p][i] \in Terminal \cup {"agent"} => i = Len(todo[p])

(* With each decision still true when it is saved, a resumption follows a  *)
(* stop or a failure of its own.                                           *)
ResumesResumable ==
    \A c \in decided \ {Creator} : Resuming(c) => last \in Resumable

(* The runs to come or going on: a resumption counts from its first status *)
(* call, the creator's run from the start.  A task that may be resumed has *)
(* room for one more.                                                      *)
Runs ==
    {p \in Procs : /\ p \notin decided \ {Creator}
                   /\ Range(todo[p]) \cap (Terminal \cup {"agent", "start?"}) # {}}

RoomForResume ==
    Cardinality(Runs) + (IF last \in Resumable THEN 1 ELSE 0) <= 1 + stops

IInv ==
    /\ TypeOK
    /\ WindowsSave /\ FreshAreIdle
    /\ DecidedAreEarly /\ RunsEndLast
    /\ CalmKeepsUpdates
    /\ calm => OneInWindow /\ GoneWhileWritten /\ CopyFollows
    /\ calm /\ ~stale => ResumesResumable /\ RoomForResume
==============================================================================
