---------------------------- MODULE AgentSessions ----------------------------
(***************************************************************************)
(* The life of one agent session: its record                               *)
(* (.apeironcode-agent/sessions/agents/<id>.json), the process that runs   *)
(* the agent for it, and the CLI commands other processes run on it.       *)
(* Sources: src/src/multisession/store.ts and manager.ts,                  *)
(* src/src/agent/multiAgentLifecycle.ts, src/src/tools/executor.ts and     *)
(* src/src/cli/setup/sessionsHandlers.ts.                                  *)
(*                                                                         *)
(* A handler is the list of store calls it still has to make.  setStatus   *)
(* and update load the record, change the copy and save it, and the other  *)
(* processes run in between; updateSession loads it twice.  A save first   *)
(* truncates the file, and an unreadable file reads as null, which the     *)
(* callers take for "no such session".  The lock table is one Boolean,     *)
(* changed atomically: FileLocks is about how it is changed.               *)
(***************************************************************************)
EXTENDS Naturals, Sequences

CONSTANTS
    Parent,      \* the process of session start
    Runner,      \* the process it runs the agent in, its worker if detached
    Commands,    \* processes that each run one later session command
    MaxTools,    \* bound: file-modifying tool calls of one agent run
    Null         \* what load returns for a missing or unreadable record

ASSUME AgentSessionsAssumption ==
    /\ Parent # Runner
    /\ Commands \cap {Parent, Runner} = {}
    /\ MaxTools \in Nat

Agents == {Runner} \cup Commands
Procs == {Parent} \cup Agents

VARIABLES
    disk,       \* the record a reader gets, or Null
    holds,      \* the session has entries in the lock table
    background, \* the session was started with --background
    todo,       \* the store calls each process still has to make
    pc,         \* where each process is within the first of them
    copy,       \* the changed record a process is about to save
    merged,     \* the work list updateSession merged after its first load
    tools,      \* tool calls made by each agent run
    calm,       \* history: no store call has been disturbed
    crashed,    \* history: a process died other than by session stop
    deleted,    \* history: session delete has removed the record
    saved,      \* history: what processes have saved into the record
    left        \* history: a foreground agent that used tools has returned
                \*   early, and no lock was released since

vars == <<disk, holds, background, todo, pc, copy, merged, tools,
          calm, crashed, deleted, saved, left>>

Statuses == {"queued", "running", "paused", "completed", "failed", "stopped"}
Terminal == {"completed", "failed", "stopped"}

WorkItems == Agents \X (1..MaxTools)

(* pid: workerPid is set; error: error is set; work: filesChanged and the *)
(* other lists that updateSession extends.                                *)
Records == [status : Statuses, pid : BOOLEAN, error : BOOLEAN,
            work : SUBSET WorkItems]

ASSUME NullAssumption == Null \notin Records

(* setStatus and update calls, and the other calls of the handlers. *)
Writes == {"start", "pause", "stop", "complete", "fail", "metadata"}
Merges == {"record", "summary"}
Calls == Writes \cup Merges
           \cup {"look", "maybeStart", "agent", "release", "remove", "kill"}

TypeOK ==
    /\ disk \in Records \cup {Null}
    /\ holds \in BOOLEAN /\ background \in BOOLEAN
    /\ todo \in [Procs -> Seq(Calls)]
    /\ pc \in [Procs -> {"ready", "merged", "saving", "writing"}]
    /\ copy \in [Procs -> Records \cup {Null}]
    /\ merged \in [Procs -> SUBSET WorkItems]
    /\ tools \in [Agents -> 0..MaxTools]
    /\ calm \in BOOLEAN /\ crashed \in BOOLEAN /\ deleted \in BOOLEAN
    /\ saved \in [pid : BOOLEAN, error : BOOLEAN, work : SUBSET WorkItems]
    /\ left \in BOOLEAN

NewRecord == [status |-> "queued", pid |-> FALSE, error |-> FALSE, work |-> {}]

(* createSession has saved the queued record, which no other process knows *)
(* of yet, and the start command goes one of three ways: --background      *)
(* spawns the worker and stores its pid, the default runs the agent, and   *)
(* --no-run leaves the session queued.                                     *)
Init ==
    /\ disk = NewRecord
    /\ holds = FALSE
    /\ background \in BOOLEAN
    /\ \E run \in BOOLEAN :
          todo = [q \in Procs |->
                    CASE q = Parent /\ background -> <<"metadata">>
                      [] q = Runner /\ background -> <<"look">>
                      [] q = Runner /\ run -> <<"maybeStart", "agent">>
                      [] OTHER -> <<>>]
    /\ pc = [q \in Procs |-> "ready"]
    /\ copy = [q \in Procs |-> Null]
    /\ merged = [q \in Procs |-> {}]
    /\ tools = [r \in Agents |-> 0]
    /\ calm = TRUE /\ crashed = FALSE /\ deleted = FALSE
    /\ saved = [pid |-> FALSE, error |-> FALSE, work |-> {}]
    /\ left = FALSE

------------------------------------------------------------------------------
Call(q) == Head(todo[q])
AtCall(q, calls) == pc[q] = "ready" /\ todo[q] # <<>> /\ Call(q) \in calls

(* A store call between its first load and the end of its save. *)
InWindow(q) == pc[q] # "ready"
Overlapped(q) == \E r \in Procs \ {q} : InWindow(r)

Goto(q, calls) == todo' = [todo EXCEPT ![q] = calls]
Step(q, where) == pc' = [pc EXCEPT ![q] = where]

(* Mutant of Load: a missing record is made anew. *)
LoadOrCreate == IF disk = Null THEN NewRecord ELSE disk

(* store.load. *)
Load == disk

(* Mutant of Changed: start writes a record of its own. *)
ChangedAnew(call, rec) ==
    CASE call = "start"    -> [NewRecord EXCEPT !.status = "running"]
      [] call = "pause"    -> [rec EXCEPT !.status = "paused"]
      [] call = "stop"     -> [rec EXCEPT !.status = "stopped"]
      [] call = "complete" -> [rec EXCEPT !.status = "completed"]
      [] call = "fail"     -> [rec EXCEPT !.status = "failed", !.error = TRUE]
      [] call = "metadata" -> [rec EXCEPT !.pid = TRUE]

(* Mutant of Changed: a status that is none of the statuses. *)
ChangedToDone(call, rec) ==
    CASE call = "start"    -> [rec EXCEPT !.status = "running"]
      [] call = "pause"    -> [rec EXCEPT !.status = "paused"]
      [] call = "stop"     -> [rec EXCEPT !.status = "stopped"]
      [] call = "complete" -> [rec EXCEPT !.status = "done"]
      [] call = "fail"     -> [rec EXCEPT !.status = "failed", !.error = TRUE]
      [] call = "metadata" -> [rec EXCEPT !.pid = TRUE]

(* The change setStatus or update makes to the record it loaded.  No call  *)
(* asks what the status was.                                               *)
Changed(call, rec) ==
    CASE call = "start"    -> [rec EXCEPT !.status = "running"]
      [] call = "pause"    -> [rec EXCEPT !.status = "paused"]
      [] call = "stop"     -> [rec EXCEPT !.status = "stopped"]
      [] call = "complete" -> [rec EXCEPT !.status = "completed"]
      [] call = "fail"     -> [rec EXCEPT !.status = "failed", !.error = TRUE]
      [] call = "metadata" -> [rec EXCEPT !.pid = TRUE]

(* Mutant of Releases: a failed session keeps its locks. *)
ReleasesUnlessFailed(call) == call \in {"stop", "complete"}

(* completeSession, failSession and stopSession release the session's      *)
(* locks after the record was found and saved.                             *)
Releases(call) == call \in {"stop", "complete", "fail"}

(* What the tool executor, or the end of the run, adds to the lists. *)
NewWork(q) ==
    IF Call(q) = "record" THEN {<<q, tools[q]>>}
                           ELSE {<<q, i>> : i \in 1..tools[q]}

------------------------------------------------------------------------------
(* The store calls.                                                        *)

(* AgentSessionStore.setStatus and update, up to save.  session stop is   *)
(* over if its session is gone; the other handlers go on.                  *)
LoadAndChange(q) ==
    /\ AtCall(q, Writes)
    /\ IF Load = Null
       THEN /\ Goto(q, IF Call(q) = "stop" THEN <<>> ELSE Tail(todo[q]))
            /\ UNCHANGED <<copy, pc>>
       ELSE /\ copy' = [copy EXCEPT ![q] = Changed(Call(q), Load)]
            /\ Step(q, "saving")
            /\ UNCHANGED todo
    /\ calm' = (calm /\ ~Overlapped(q))
    /\ UNCHANGED <<disk, holds, background, merged, tools, crashed, deleted, saved, left>>

(* updateSession loads the record and merges the lists ... *)
LoadAndMerge(q) ==
    /\ AtCall(q, Merges)
    /\ IF Load = Null
       THEN /\ Goto(q, Tail(todo[q]))
            /\ UNCHANGED <<merged, pc>>
       ELSE /\ merged' = [merged EXCEPT ![q] = Load.work \cup NewWork(q)]
            /\ Step(q, "merged")
            /\ UNCHANGED todo
    /\ calm' = (calm /\ ~Overlapped(q))
    /\ UNCHANGED <<disk, holds, background, copy, tools, crashed, deleted, saved, left>>

(* ... and store.update loads it again and spreads the merged lists over   *)
(* it.                                                                     *)
LoadAgain(q) ==
    /\ pc[q] = "merged"
    /\ IF Load = Null
       THEN /\ Goto(q, Tail(todo[q]))
            /\ Step(q, "ready")
            /\ UNCHANGED copy
       ELSE /\ copy' = [copy EXCEPT ![q] = [Load EXCEPT !.work = merged[q]]]
            /\ Step(q, "saving")
            /\ UNCHANGED todo
    /\ merged' = [merged EXCEPT ![q] = {}]
    /\ calm' = (calm /\ ~Overlapped(q))
    /\ UNCHANGED <<disk, holds, background, tools, crashed, deleted, saved, left>>

BeginWrite(q) ==
    /\ pc[q] = "saving"
    /\ Step(q, "writing")
    /\ disk' = Null
    /\ UNCHANGED <<holds, background, todo, copy, merged, tools,
                   calm, crashed, deleted, saved, left>>

(* Over the longer text of a save that landed in between, the file becomes *)
(* unreadable.                                                             *)
EndWrite(q) ==
    /\ pc[q] = "writing"
    /\ disk' \in {copy[q]} \cup (IF disk = Null THEN {} ELSE {Null})
    /\ Step(q, "ready")
    /\ Goto(q, (IF Releases(Call(q)) THEN <<"release">> ELSE <<>>) \o Tail(todo[q]))
    /\ saved' = [pid |-> saved.pid \/ Call(q) = "metadata",
                 error |-> saved.error \/ Call(q) = "fail",
                 work |-> IF Call(q) \in Merges THEN saved.work \cup NewWork(q)
                                                 ELSE saved.work]
    /\ copy' = [copy EXCEPT ![q] = Null]
    /\ UNCHANGED <<holds, background, merged, tools, calm, crashed, deleted, left>>

(* releaseSessionLocks, and the release inside the ending calls. *)
Release(q) ==
    /\ AtCall(q, {"release"})
    /\ holds' = FALSE
    /\ left' = FALSE
    /\ Goto(q, Tail(todo[q]))
    /\ UNCHANGED <<disk, background, pc, copy, merged, tools,
                   calm, crashed, deleted, saved>>

(* store.delete: fs.rm.  An rm while a save has the file open leaves no    *)
(* file, as one after that save does.                                      *)
Remove(q) ==
    /\ AtCall(q, {"remove"})
    /\ \A r \in Procs : pc[r] # "writing"
    /\ disk' = Null
    /\ deleted' = TRUE
    /\ calm' = (calm /\ ~Overlapped(q))
    /\ Goto(q, Tail(todo[q]))
    /\ UNCHANGED <<holds, background, pc, copy, merged, tools, crashed, saved, left>>

------------------------------------------------------------------------------
(* The process that runs the agent.                                        *)

(* sessionRunWorker: look the session up and start it if it is queued. *)
WorkerLooks ==
    /\ AtCall(Runner, {"look"})
    /\ Goto(Runner,
            IF disk = Null THEN <<>>
            ELSE (IF disk.status = "queued" THEN <<"start">> ELSE <<>>)
                    \o <<"maybeStart", "agent">>)
    /\ calm' = (calm /\ ~Overlapped(Runner))
    /\ UNCHANGED <<disk, holds, background, pc, copy, merged, tools,
                   crashed, deleted, saved, left>>

(* startMultiAgentSessionIfNeeded, at the start of Agent.run. *)
MaybeStart(r) ==
    /\ AtCall(r, {"maybeStart"})
    /\ Goto(r, (IF disk # Null /\ disk.status = "queued" THEN <<"start">> ELSE <<>>)
                  \o Tail(todo[r]))
    /\ calm' = (calm /\ ~Overlapped(r))
    /\ UNCHANGED <<disk, holds, background, pc, copy, merged, tools,
                   crashed, deleted, saved, left>>

(* A tool call: it takes its file's lock, runs, and the executor records   *)
(* it in the session.  Nothing asks whether the session is still to run.   *)
AgentTool(r) ==
    /\ AtCall(r, {"agent"})
    /\ tools[r] < MaxTools
    /\ tools' = [tools EXCEPT ![r] = @ + 1]
    /\ holds' = TRUE
    /\ Goto(r, <<"record">> \o todo[r])
    /\ UNCHANGED <<disk, background, pc, copy, merged,
                   calm, crashed, deleted, saved, left>>

IsWorker(r) == r = Runner /\ background

(* completeMultiAgentSessionIfNeeded, when runAgentLoop returned: the      *)
(* session fails if the task state has errors.  A worker then completes it *)
(* and releases its locks, whichever it was.                               *)
AfterLoop(r, errors) ==
    <<"summary", IF errors THEN "fail" ELSE "complete">>
        \o (IF IsWorker(r) THEN <<"complete", "release">> ELSE <<>>)

(* failMultiAgentSessionIfNeeded, when Agent.run throws, and the worker's  *)
(* own failSession.                                                        *)
AfterThrow(r) == <<"fail">> \o (IF IsWorker(r) THEN <<"fail", "release">> ELSE <<>>)

(* Agent.run has returned without either: an answered question, a request  *)
(* that a route handled with tool calls of its own, a plan to be approved. *)
(* The handlers of start and resume do nothing more, and the worker        *)
(* completes its session.                                                  *)
AfterEarlyReturn(r) == IF IsWorker(r) THEN <<"complete", "release">> ELSE <<>>

AgentEnds(r) ==
    /\ AtCall(r, {"agent"})
    /\ \/ /\ \/ \E errors \in BOOLEAN : Goto(r, AfterLoop(r, errors))
             \/ Goto(r, AfterThrow(r))
          /\ UNCHANGED left
       \/ /\ Goto(r, AfterEarlyReturn(r))
          /\ left' = (left \/ (~IsWorker(r) /\ tools[r] > 0))
    /\ UNCHANGED <<disk, holds, background, pc, copy, merged, tools,
                   calm, crashed, deleted, saved>>

(* Agent.run throws before its try block: external tools, the choice of a  *)
(* provider.  Only a worker fails its session then.                        *)
AgentRejects(r) ==
    /\ AtCall(r, {"maybeStart", "agent"})
    /\ tools[r] = 0
    /\ Goto(r, IF IsWorker(r) THEN <<"fail", "release">> ELSE <<>>)
    /\ UNCHANGED <<disk, holds, background, pc, copy, merged, tools,
                   calm, crashed, deleted, saved, left>>

------------------------------------------------------------------------------
(* Commands of other processes.                                            *)

Fresh(c) == todo[c] = <<>> /\ tools[c] = 0 /\ pc[c] = "ready"

(* sessionPause: setStatus, and nothing tells the agent. *)
PauseCommand(c) ==
    /\ Fresh(c)
    /\ Goto(c, <<"pause">>)
    /\ UNCHANGED <<disk, holds, background, pc, copy, merged, tools,
                   calm, crashed, deleted, saved, left>>

(* sessionResume: refuses a terminal and a running session, and runs the   *)
(* agent in this process for any other.                                    *)
ResumeCommand(c) ==
    /\ Fresh(c)
    /\ disk # Null
    /\ disk.status \notin Terminal \cup {"running"}
    /\ Goto(c, <<"maybeStart", "agent">>)
    /\ calm' = (calm /\ ~Overlapped(c))
    /\ UNCHANGED <<disk, holds, background, pc, copy, merged, tools,
                   crashed, deleted, saved, left>>

(* sessionStop: signals the worker of a running session, stops the session *)
(* and, if the record it read lists locks, releases them once more.        *)
StopCommand(c) ==
    /\ Fresh(c)
    /\ disk # Null
    /\ Goto(c, (IF disk.pid /\ disk.status = "running" THEN <<"kill">> ELSE <<>>)
                  \o <<"stop">>
                  \o (IF disk.work # {} THEN <<"release">> ELSE <<>>))
    /\ calm' = (calm /\ ~Overlapped(c))
    /\ UNCHANGED <<disk, holds, background, pc, copy, merged, tools,
                   crashed, deleted, saved, left>>

(* sessionDelete: releases the locks, then removes the record. *)
DeleteCommand(c) ==
    /\ Fresh(c)
    /\ Goto(c, <<"release", "remove">>)
    /\ UNCHANGED <<disk, holds, background, pc, copy, merged, tools,
                   calm, crashed, deleted, saved, left>>

Dies(q) ==
    /\ pc' = [pc EXCEPT ![q] = "ready"]
    /\ copy' = [copy EXCEPT ![q] = Null]
    /\ merged' = [merged EXCEPT ![q] = {}]

(* SIGTERM, which the CLI does not catch.  In the middle of a write it     *)
(* leaves the record truncated.                                            *)
KillWorker(c) ==
    /\ AtCall(c, {"kill"})
    /\ todo' = [todo EXCEPT ![c] = Tail(@), ![Runner] = <<>>]
    /\ Dies(Runner)
    /\ calm' = (calm /\ pc[Runner] # "writing")
    /\ UNCHANGED <<disk, holds, background, tools, crashed, deleted, saved, left>>

(* A process dies by itself. *)
Crash(q) ==
    /\ todo[q] # <<>>
    /\ Goto(q, <<>>)
    /\ Dies(q)
    /\ crashed' = TRUE
    /\ calm' = (calm /\ pc[q] # "writing")
    /\ UNCHANGED <<disk, holds, background, tools, deleted, saved, left>>

------------------------------------------------------------------------------
StoreCall(q) ==
    LoadAndChange(q) \/ LoadAndMerge(q) \/ LoadAgain(q) \/ BeginWrite(q)
        \/ EndWrite(q) \/ Release(q) \/ Remove(q)

AgentRun(r) == MaybeStart(r) \/ AgentTool(r) \/ AgentEnds(r) \/ AgentRejects(r)

Command(c) == PauseCommand(c) \/ ResumeCommand(c) \/ StopCommand(c)
                 \/ DeleteCommand(c) \/ KillWorker(c)

Next ==
    \/ \E q \in Procs : StoreCall(q) \/ Crash(q)
    \/ WorkerLooks
    \/ \E r \in Agents : AgentRun(r)
    \/ \E c \in Commands : Command(c)

Spec == Init /\ [][Next]_vars

------------------------------------------------------------------------------
(* As long as no store call was disturbed, what a process has saved into   *)
(* the record is still there: the worker's pid, which session stop needs,  *)
(* the error, and every recorded tool call, however calls of several       *)
(* processes follow each other (store.update and manager.updateSession).   *)
CalmKeepsUpdates ==
    calm /\ disk # Null =>
        /\ saved.pid => disk.pid
        /\ saved.error => disk.error
        /\ saved.work \subseteq disk.work

(* As long as no store call was disturbed, a deleted session stays         *)
(* deleted: agents and commands that go on find no record and do not write *)
(* one.                                                                    *)
CalmDelete == calm /\ deleted => disk = Null

Quiet == \A q \in Procs : todo[q] = <<>>

(* When every process of an undisturbed session has come to its end, by    *)
(* itself or by session stop, the session holds no lock: whichever mixture *)
(* of stops, pauses, resumes and failures got it there.  (Not so for a     *)
(* deleted session: a foreground agent that is still running takes locks   *)
(* again, and completeSession releases nothing for a record it cannot      *)
(* find.  Nor after an early return of a foreground agent: the session     *)
(* stays running and keeps its locks until some other call releases them.) *)
QuietReleases == calm /\ ~deleted /\ ~crashed /\ ~left /\ Quiet => ~holds

------------------------------------------------------------------------------
(* The inductive invariant from which the above follow.                    *)

(* What a handler has still to do is in order: the start command only      *)
(* stores the pid, a tool call is recorded after it was made, a worker is  *)
(* signalled by a command that then stops its session, and an agent runs   *)
(* last.                                                                   *)
TodoInOrder ==
    /\ \A i \in DOMAIN todo[Parent] : todo[Parent][i] = "metadata"
    /\ \A q \in Procs : \A i \in DOMAIN todo[q] :
          /\ todo[q][i] = "record" => tools[q] > 0
          /\ todo[q][i] = "kill" => i < Len(todo[q]) /\ todo[q][i + 1] = "stop"
          /\ todo[q][i] \in {"agent", "look"} => i = Len(todo[q])
          /\ todo[q][i] = "maybeStart" => i < Len(todo[q]) /\ todo[q][i + 1] = "agent"

(* A call in its window is one that saves. *)
WindowsSave ==
    \A q \in Procs :
        /\ pc[q] = "merged" => todo[q] # <<>> /\ Call(q) \in Merges
        /\ pc[q] \in {"saving", "writing"} =>
              todo[q] # <<>> /\ Call(q) \in Writes \cup Merges /\ copy[q] # Null

(* Undisturbed, one process is in its window; the record is there until it *)
(* writes; and what it has of the record has what was saved, with its own. *)
OneInWindow == \A q, r \in Procs : InWindow(q) /\ InWindow(r) => q = r

WindowsFollow ==
    \A q \in Procs :
        /\ InWindow(q) => ~deleted /\ (disk = Null <=> pc[q] = "writing")
        /\ pc[q] = "merged" => saved.work \cup NewWork(q) \subseteq merged[q]
        /\ pc[q] \in {"saving", "writing"} =>
              /\ saved.pid \/ Call(q) = "metadata" => copy[q].pid
              /\ saved.error \/ Call(q) = "fail" => copy[q].error
              /\ saved.work \subseteq copy[q].work
              /\ Call(q) \in Merges => NewWork(q) \subseteq copy[q].work

GoneWhileWritten ==
    disk = Null => deleted \/ \E q \in Procs : pc[q] = "writing"

(* A lock that is held will be released: by a call that is still to be     *)
(* made, or that an agent that uses tools will make at its end.            *)
Frees == {"agent", "release", "complete", "fail", "stop"}

HeldIsFreed ==
    holds => \E q \in Procs : \E i \in DOMAIN todo[q] :
                /\ todo[q][i] \in Frees
                /\ todo[q][i] = "agent" => tools[q] > 0

IInv ==
    /\ TypeOK
    /\ TodoInOrder
    /\ WindowsSave
    /\ CalmKeepsUpdates /\ CalmDelete
    /\ calm => OneInWindow /\ WindowsFollow /\ GoneWhileWritten
    /\ calm /\ ~deleted /\ ~crashed /\ ~left => HeldIsFreed
==============================================================================
