# A formal model of ApeironCode's shared state

ApeironCode Agent is a coding agent for the terminal: a CLI and TUI around an
agent loop that calls model providers and runs tools on the working tree. Most
of it is sequential. What is hard to test are the places where several agents,
processes, clients or the user share state. This directory has TLA+ modules of
those places, TLC configurations that check them on small instances, and proofs
that TLAPS checks for instances of any size.

Paths below are relative to the repository's `src/`.

## The system

| component | state it keeps | operations | interacts through | module |
|---|---|---|---|---|
| File locks (`multisession/locks.ts`, `toolLocks.ts`, `tools/executor.ts`) | `locks.json`: file, session, time | acquire before a modifying tool, release when a session ends, list, stale cleanup | one JSON file, loaded and saved whole by every process | `LockTable`, `FileLocks` |
| Agent sessions (`multisession/manager.ts`, `store.ts`, `cli/setup/sessionsHandlers.ts`, `agent/multiAgentLifecycle.ts`) | one JSON record per session | start, run, record work, complete, fail, pause, resume, stop, delete | the record, the lock table, SIGTERM to a detached worker | `AgentSessions` |
| IDE bridge sessions (`bridge/agentSessionRunner.ts`, `server.ts`) | in memory: sessions, the session of each connection | start, send prompt, stop, close | WebSocket messages and events; one event loop | `BridgeSessions` |
| Background tasks (`tasks/bgTask*.ts`, `taskResume.ts`, `agentTaskRunner.ts`) | one JSON record per task | create, run, stop, resume, log | the record; every command is a process | `BgTasks` |
| Agent loop (`agent/loop.ts`, `toolCallOrchestrator.ts`, `toolExecutionRuntime.ts`, `runtimeController.ts`, `runtimeState.ts`, `checkpoints.ts`) | the iteration, the calls of a reply, errors in a row, phase, latest checkpoint | ask the model, run its tool calls, checkpoint, roll back, give up | provider, executor, approvals of the user | `AgentLoop` |
| Approvals (`safety/approvals.ts`, `ui/App.tsx`) | one resolver in the UI | ask, answer | the tool that waits | `AgentLoop` |
| Team workspaces and merges (`agents/teamRunner.ts`, `agents/workspace/`, `cli/setup/agentsHandlers.ts`) | a copy of the tree per step, base snapshots, `workspaces.json`, resolutions | run, review, apply, resolve, discard, clean up | the main workspace, which the user edits | `TeamMerge` |
| Edit tools and history (`tools/patch/`, `tools/editFile.ts`, ...) | `edit-history.jsonl`, backups | edit, revert | the working tree, the history file, approvals | `EditHistory` |
| LSP queries (`lsp/symbols.ts`, `diagnostics.ts`, `definitions.ts`, `manager.ts`, `client.ts`, `transport.ts`) | the detection cache; a language server per query | symbols, diagnostics, definition, references | JSON-RPC over the pipes of a child process, timers, signals | `LspQueries` |
| LSP sessions, MCP, GitHub automation, context, memory, Project Brain, providers, connectors, hooks, plugins, sandbox, TUI, evaluations | caches, documents, settings | mostly pure or one-shot | files, HTTP, child processes | none, see the end |

What makes each correct:

* **File locks** - no two sessions modify a file at once; a lock lasts as long
  as its holder works and no longer; the table has one owner per file.
* **Agent sessions** - no saved update is lost; a deleted session stays deleted;
  a session that came to its end holds no locks; the final status tells what
  happened.
* **Bridge sessions** - "busy" ends and is told only while something runs; runs
  of one session do not overlap; every prompt is answered.
* **Background tasks** - no status and no log line is lost; a task does not run
  twice at once unless somebody stopped it; "running" ends.
* **Agent loop** - what changes something runs alone; a rollback takes back one
  edit; limits on errors and progress hold before the model is asked again;
  every run ends, in a phase that tells how.
* **Team merge** - nothing the user or another workspace did to main is lost;
  only the subagents' changes are brought, and all of them; skip and review mean
  what they say.
* **Edit history** - a tool overwrites what the user saw in the preview; a revert
  gives back what was there; the history keeps every edit.
* **LSP queries** - a query returns whatever its server does, and leaves no server
  behind.

The hard behaviours are the same all over: a load and a save with other steps
in between (no JSON store has file locking or compare-and-swap), a check whose
answer is stale when it is used, awaits between the parts of a handler, a process
that dies in the middle of a write, a stop that marks a record while the work
goes on, and one of several steps that fails. `PROJECT.json` lists them under
`hazards`, each at its line.

## The modules

The modules have a common form. What a reader of a JSON file gets is one
variable. A store call is a load with the change in memory, the truncation that
starts `fs.writeFile` and the end of the write; all processes interleave between
those steps, and a truncated or garbled file reads as what `readJsonFile` makes
of it. Such code gives its guarantees only while nothing interferes, so the
history variable `calm` is TRUE until something disturbs an operation, and the
properties say what holds till then; each disturbance is an action of the module.
Definitions with "Mutant of" above them belong to no behaviour: they are the
plausible mistakes that show that a property can fail.

### LockTable and FileLocks

`LockTable` is the promise: a table of who owns which file, changed one whole
operation at a time; a session that runs a modifying tool on a file owns it and
nobody else does. The locks are advisory: `kept` is TRUE until something disturbs
an operation, and what comes after that is outside the promise for good.

`FileLocks` is the code. Every operation of `locks.ts` is a load with the change
in memory (`CheckConflict`, `AcquireLoad`, `EndSession`, `StopSession`,
`CleanupStaleLocks`, `ListLocks`), then `BeginWrite` and `EndWrite`.
`executor.ts` checks for a conflict and acquires in two separate loads, ignores
a refused acquire (`AcquireRefused`) and goes on without the lock after an error
(`SaveFails`); a `revert_patch` without a path has no lock target
(`RunWithoutTarget`). `Crash` kills a process anywhere, `HourPasses` makes
entries stale. `calm` ends when one operation starts inside another's window
from load to save, a process dies in the middle of a write, the locks of a
running tool are revoked by `session stop` or the stale cleanup, a save fails, or
a tool runs without a target.

* `UniqueLocks`, always: neither the file nor a copy about to be saved has two
  entries for a path. `isLocked` and `acquireLock` look only at the first one
  they find.
* `CalmExclusion`: undisturbed, no two sessions run a modifying tool on a file.
* `CalmRelease`: undisturbed, an ended session has no entry left, whatever
  others save after it.
* `ImplementsLockTable`: the protocol refines `LockTable`. The mapping takes the
  file for the table, or the copy that is replacing it, and `calm` for `kept`: no
  step but the disturbances listed here ends the promise.

The condition on targets is a disagreement with the documents: `docs/sessions.md`
(line 174) lists `revert_patch` among the tools that acquire locks on their
target files, and by edit id or `target=last` it acquires none
(`src/multisession/toolLocks.ts:60`).

### AgentSessions

One session: its record on `disk`, the parent that creates it, the runner that
runs the agent (a detached worker with `--background`), and the processes of
later `session pause/resume/stop/delete` commands. A handler is the list `todo`
of the store calls it still has to make (`LoadAndChange`; `LoadAndMerge` and
`LoadAgain` for `updateSession`, which loads twice). Nothing compares the status
before setting it, `pause` stops no agent, `stop` signals a worker only if the
session is running and its pid is stored, `complete`/`fail`/`stop` release the
locks only if the record was found: all as in the code. The agent is any number
of tool calls up to `MaxTools`, each recorded in the session, and then a return,
with or without task errors, or an exception (`AfterLoop`, `AfterThrow`). Agent.run
may also throw before its `try` (`AgentRejects`), or return early, when a question
was answered, a route handled the request with tool calls of its own, or a plan
waits for approval (`AfterEarlyReturn`). A background worker has nobody to
answer an approval; its process ends there, which is `Crash`. The lock table is
one Boolean here; how it is changed is FileLocks' subject.

* `CalmKeepsUpdates`: while no store call was disturbed, the worker's pid, the
  error and every recorded tool call are still in the record.
* `CalmDelete`: a deleted record does not come back, though agents go on.
* `QuietReleases`: when every process has come to its end, no lock is left,
  after any mixture of stops, pauses, resumes and failures, unless a foreground
  agent that used tools returned early (`left`).

The status is the last one written. In particular the background worker completes
a session that the agent has just failed (`src/cli/setup/sessionsHandlers.ts:409`,
while `docs/sessions.md:58` has such a session "Failed"), and a worker that died
leaves a session running. An early return of Agent.run (`src/agent/Agent.ts:180`, 205,
248 and 262) neither completes nor fails the session, and the start and resume
handlers do nothing after it (`src/cli/setup/sessionsHandlers.ts:187` and 345): a
foreground session stays running and keeps its locks, while `docs/sessions.md:164`
has them released when a session completes. A worker completes its session after
any return. The model does all of this, so no property excludes it;
`QuietReleases` excepts the early return.

### BridgeSessions

All sessions of the bridge. A handler of `server.ts` and `runPrompt` up to its
first await are one action (`SessionStart`, `PromptRefused`, `PromptAccepted`,
`SessionStop`, `Close`), and so is each stretch of `runPrompt` between awaits
(`AgentStarts`, `AgentReturns`, `Report`). The agent runner is external: it
returns completed, failed, or (only if the session's stop signal is up) stopped,
or it throws.

* `BusyHasRun`: a session that refuses prompts has a run that will set it free.
* `OneRunUntilStopped`: runs of a session do not overlap, and the session is
  busy while one works, until its first `session.stop`.
* `BusyEnds`, `AnswersArrive` (liveness): busy ends; a client that stays hears
  the end of every prompt that was accepted.

### BgTasks

One background task: its record, the process that created it, and the processes
of later `task stop` and `task resume` commands. As in AgentSessions, a handler
is the list of store calls it has yet to make, and each is `LoadAndChange`,
`BeginWrite`, `EndWrite`. `StartTask`, `StopTask` and `ResumeTask` look at the
status once and then act on it (`decided`, `stale`); `RunCalls` is what
`runTaskOnce` does for each kind; `AgentEnds` is the return or the exception of
the agent. A stop only writes the record: the run goes on and sets the status it
ends with.

* `CalmKeepsUpdates`: no status and no log line is lost, although `appendTaskLog`
  saves the whole record it loaded.
* `OneMoreRunPerStop`: a stop does not end a run and a resume starts another, so
  the number of runs at work is at most one more than the number of stops. A
  failed task may be resumed without a stop (`canResumeTask`); such a run takes
  the place of the one that failed. Two commands that both look at the task
  before either has saved a status start two runs all the same: that is a decision
  gone `stale`, which the property excepts.
* `RunningEnds` (liveness): a task shown as running comes to an end, unless its
  process died or a store call was disturbed.

What the code makes of tasks at this commit is in the model: a shell task made by
`task create` has no command and fails; no handler sets the checkpoint, worktree
or session that three of the strategies of `taskResume.ts` need, so a resume is a
fresh rerun; the kind "placeholder" is never created. A task has at most six log
lines from one process, so the limit of 200 is out of reach. Errors of the file
system in a save are not modelled.

### AgentLoop

One run of `runAgentLoop`. `StreamFails`, `Answer` and `Reply` are what the
provider can do; a reply is up to `MaxCalls` tool calls, of five classes. Each
call goes through the steps of `executeSingleToolCall` (`Malformed`, `Start`,
`StartThrows`, `Checkpoint`, `Ask`, `Return`, `Restore`, `Throw`), with reads that follow one
another interleaving at their awaits as `planToolCallExecution` groups them
(`SameGroup`, `MayStart`). `Collect` records the results: errors in a row,
progress, the end of the run. The runtime phase is moved by the transitions of
`runtimeController.ts`, and one that `ALLOWED_TRANSITIONS` does not have is
ignored, as in the code: after a verification that passed the phase stays
"verifying", and "mark_failed" of `planRecovery` leaves it at "failed" while the
loop goes on. The approval handler of the terminal UI holds one request (`slot`).

* `SerialEffects`: a call that may change something runs alone.
* `OneEditUndone`: a failed verification takes back at most the last edit.
* `AsksWithinLimits`: the model is asked only below the limits on errors in a
  row and on iterations without progress.
* `DroppedEndsRun`: the calls after the one that was one error too many ran, but
  are not recorded: the run ends there.
* `PhaseAgrees`: a run that returned is shown as completed or failed, and
  completed means answered, whichever transitions were refused.
* `WritesAreAnswered`: only reads take each other's place in the UI.
* `EndsUnlessOverwritten` (liveness): every run ends, except with a request
  overwritten in the UI.

A tool input may be the JSON `null`. The tools whose start is recorded with a path
or a command throw there (`src/core/agent/state.ts:86`), outside the `try` of
`executeSingleToolCall`, and count as errors (`StartThrows`). With any other tool
the result is recorded and the progress tracker throws
(`src/agent/loopProgress.ts:58`, called at `src/agent/loop.ts:513` outside any
`try`): the run ends with an exception and the phase stays where it was
(`MayThrow`, outcome "thrown"). The model has both; `PhaseAgrees` is about the
runs that return.

Abstracted: which inputs are progress (any outcome the tracker allows); the order
of microtasks (any interleaving at awaits); the several requests one call can
make (one); requests that rules or the permission mode settle (not seen). No hook
is registered anywhere in the program, every error has a message, and the ids of
tool uses are distinct, so those branches are left out. The checkpoint is the
whole workspace: what commands, the user or other sessions did to it since is
taken back, too, and a restore that fails halfway is one that throws. The
completion gates only change the text of the answer.

### TeamMerge

The workspaces of one team run. `CopyMain`, `TakeSnapshot` and `AgentWorks` are a
step of `runTeamSequential`: a copy of main, then a snapshot of main as the base,
then a subagent that leaves any tree. `Review`, `BeginApply`, `PlanWorkspace`,
`ApplyFile`, `MarkWorkspace` and `ApplyEnds` are `team apply`, with the merge
planned anew for each workspace on the main that those before it have made;
`Resolve`, `Discard` and `Cleanup` are the other commands; `UserEdits` comes
between any two steps, and `Crash` may leave a torn file or half a rename. The
merge itself is data: `Diff`, `Renamings` (pairs of a deleted and an added file,
greedily by similarity), `Clashes`, `KeepsMain`, `CleanFiles`. A content is what
these tell apart: equal, similar by 0.82, binary.

* `EditsSurvive`: a file of main that changed since the workspace was isolated is
  neither overwritten nor removed.
* `OnlyAgentsChanges`: an apply changes only what a subagent changed.
* `WorkArrives`: after a full apply everything the subagent did is in main, also
  when a crashed apply had done part of it.
* `SkippedKept`: no workspace touches a skipped file, not even as half of a
  rename.
* `OnlyReviewedFiles`: the apply goes no further than its review.
* `TodoApart`, a part of the inductive invariant: the operations of a plan touch
  different files, so their order does not matter.

The properties leave out what the code does not promise: an edit between the copy
and the snapshot counts as the base; a file that main no longer has comes back; an
apply after a discard takes the files for deleted and deletes those that nobody
changed; a second apply does not look at the status "applied". Assumed: the
commands about a run come after it, and one apply runs at a time; the calls on
`workspaces.json` are atomic. A git worktree differs from a copy only in
untracked files, which is one of the trees a subagent might leave. `/team apply`
in the TUI has no review.

### EditHistory

The tools that edit files and revert edits, in several processes. An edit is
`PrepareEdit` (the file is read and the preview made), `Approve`, `Recheck`,
`WriteFile` (with the backup, which has no effect of its own), and the append of
a record: `LoadHistory`, `BeginSave`, `EndSave`, for an append rewrites the whole
`edit-history.jsonl`. A revert is `PrepareRevert` of any record whose result the
file still has, and then the same without `Recheck`. `UserEdits` changes files at
any time; `Abort` is a refusal, an error or the death of the process, which may
cut the history short (`Cuts`). A content is a text and its line endings, and its
hash is itself. The load of the history and the read of the file in a revert are
one step: whichever comes first, the record must fit the file.

* `EditsAsShown`: what a tool overwrites is what the preview showed and the
  backup has, whatever happened during the approval.
* `RevertRestores`: a revert gives back what was there before the edit, after any
  chain of edits, reverts and reverts of reverts.
* `CalmHistory`: undisturbed, no record is lost and the history can be read.
* `LatestReverts`: then the last edit of a file the user has not changed since
  can be reverted by the name of the file.

Four limits of the code are stated in these properties, and no document speaks of
them. A revert is not checked again after its approval
(`src/tools/patch/revertPatch.ts:152`): an edit made during it is overwritten and
is not in the backup. A revert of an edit that created a file and did more, or of
a revert that deleted one again, leaves an empty file. Mixed line endings, and
those of a file the edit left without any, are not restored. And a crash in the
append leaves a torn line after which no revert can read the history. The file
locks are not relied on: a revert by edit id takes none.

A content is a text here. Two further cases that a revert does not give back are
outside the abstraction: a file that is not valid UTF-8, whose bytes are replaced
when it is read as text, and a text with `\r\r\n`, which the change of line endings
does not keep.

### LspQueries

The calls of the four providers about files of one language, in one process.
`GetFileStatus` reads the manager's cache and `DetectLanguage` fills it, two
queries at once if both found it empty. `GetSession` never gets the long-lived
session: the providers take `getSessionForFile` out of the manager and call it
unbound, the use of `this` throws, and they go on to the one-shot client: `Spawn`,
`Connected`, `Initialized`, `Ask`, `Answered`, `ShutdownAnswered`, `Closed`, each
with its failure and its timer. The server starts and dies when it likes
(`ServerStarts`, `ServerDies`), answers or not, and may ignore SIGTERM. Once the
spawn event has come, `transport.ts` takes its close handler off, so a death is
heard of only by a timer. A message written between a death and `ExitNoticed`
raises an error on the pipe that nobody listens to, and Node may end the process
(`Write`).

* `ServersEnd`: a query that has returned has left no server running that was not
  sent SIGKILL.
* `QueriesReturn` (liveness): a query returns, with an answer or the fallback,
  unless such a write ended the process.

Abstracted: what a server answers (a valid answer, an invalid one or none); the
language, since those with the same server share nothing but the cache; which file
diagnostics are about: the client does not look at the uri
(`src/lsp/client.ts:202`), and the first `publishDiagnostics` answers the query. A
timer may run out at any time. Left out is a spawn that fails for want of file
descriptors (EMFILE, ENFILE): the process then has no pipes, `setupHandlers`
throws, and the error event that follows has no listener either.

## The runs

| run | instance | distinct states | shows |
|---|---|---|---|
| `fileLocks` | 2 sessions, 1 command process, 2 files | 257,859 | `IInv`, `UniqueLocks`, `CalmExclusion`, `CalmRelease`, `ImplementsLockTable` |
| `agentSessions` | parent, runner, 2 commands, 1 tool call per run | 2,992,601 | `IInv`, `CalmKeepsUpdates`, `CalmDelete`, `QuietReleases` |
| `bridgeSessions` | 2 connections, 2 sessions, 2 prompts | 62,464 | `IInv`, `BusyHasRun`, `OneRunUntilStopped`, `BusyEnds`, `AnswersArrive` |
| `bridgeSessionsDocs` | the same | - | `DocumentedBusy` fails |
| `bgTasks` | creator, 3 commands | 1,214,328 | `IInv`, `CalmKeepsUpdates`, `OneMoreRunPerStop`, `RunningEnds` |
| `agentLoop` | 5 iterations, 2 calls per reply, 3 errors | 283,198 | `IInv` and the seven properties above |
| `agentLoopApprovals` | 2 iterations, 2 calls per reply | - | `RepliesReturn` fails |
| `teamMerge` | 2 workspaces, 3 files, 3 contents, 3 acts of the user | 5,393,202 | `IInv` and the five properties above |
| `teamMergeDocs` | 1 workspace, 2 files | - | `ChangesConflict` fails |
| `editHistory` | 2 processes, 2 files, 3 calls, 1 edit of the user | 607,504 | `IInv` and the four properties above |
| `lspQueries` | 2 queries | 5,876 | `IInv`, `ServersEnd`, `QueriesReturn` |
| `lspQueriesDocs` | the same | - | `DocumentedReuse` fails |

Why the bounds are enough.

* A lock conflict is between two sessions, or a session and a command, over one
  file; the second file shows that a whole-table save loses the locks of others.
* One session has one record, so two commands beside the parent and the agent
  give four writers of it, and a pause, a resume and a stop in any order.
* In the bridge two connections share a session or hold one each; two prompts are
  one refused, or one accepted after a stop, with two runs at work.
* Three commands on a task are stop, resume and another stop or resume beside the
  creator's run: two stops and two runs at once, a resume of a resumed task.
* Five iterations reach three errors in a row and three useless iterations in
  different places, and edits, a failed verification, another edit and another
  one; two calls of a reply are every pair of classes, in one group or two.
* Two workspaces meet in two files; the choice between renames takes one deleted
  and two added files, or two and one, in one workspace (`Small`). Three contents
  are two similar texts and a binary file. Three acts are, for example, an edit,
  an apply and a second apply.
* Two calls of edit tools overlap, in one file or two, or with the user; three
  calls in a row are an edit, its revert and the revert of that (`Small`).
* Two queries share the detection cache and the Node process, and nothing else:
  both detect, one finds what the other has detected, and a write of one ends
  both.

`agentSessions` and `bgTasks` explore the states where `calm` holds (the
constraint `Undisturbed`). Nothing is lost by it: `calm` never becomes TRUE again
and each property is of the form "`calm` implies", but for the types and the
order of the calls in `IInv`, which are proved; the states right after a
disturbance are still checked, only not continued. That holds for `RunningEnds`,
too, which `~calm` fulfils. `IInv` is in every passing run the inductive
invariant that the proofs use, with `TypeOK` as a part of it. Symmetric sets are sets of
model values no definition distinguishes, and no run with a liveness property has
symmetry (in `fileLocks` the refinement is of a specification without fairness).
`CHECK_DEADLOCK FALSE` is in every configuration because these systems
may come to rest: sessions, runs and tasks end and clients stop asking.

Each passing property has been seen to fail for a plausible change of the code
(`mutants` in `PROJECT.json`): a conflict test that ignores old entries, a load
that makes a missing record anew, a write that does not wait for the reads before
it, a checkpoint made only once, a deletion not compared with main, a file not
read again after the approval.

### Where code and documents disagree

* `bridgeSessionsDocs`: after `session.stop` the next prompt is accepted while
  the stopped run goes on, and takes its stop signal back
  (`src/bridge/agentSessionRunner.ts:145`); `docs/vscode-extension.md:241`
  promises that concurrent prompts are rejected.
* `agentLoopApprovals`: two parallel reads that both ask for approval overwrite
  each other's resolver (`src/ui/App.tsx:95`), and the run hangs;
  `docs/NATIVE_TOOL_CALLING.md:36` has the orchestrator always return results.
* `teamMergeDocs`: a file that both the user and a subagent added is overwritten
  in main without a conflict (`src/agents/workspace/mergeEngine.ts:119`);
  `docs/team.md:58` has main-changed conflicts detected.
* `lspQueriesDocs`: after a query has been answered the next one starts another
  server, since no query gets the session (`src/lsp/diagnostics.ts:87`, likewise
  `symbols.ts` and `definitions.ts`); `docs/lsp.md:43` has them prefer long-lived
  sessions, which the current process reuses.

## Fairness

* `BridgeSessions`: weak fairness of the steps of each run. Node's event loop
  resumes a function whose await is over, a send always resolves (a closed
  connection drops it), and the agent runner is taken to return or throw in the
  end. Nothing is assumed of the clients: they need not prompt, stop or leave.
* `BgTasks`: weak fairness of `StartTask` and of each process's `Proceed`: a
  process that does not die goes on, and an agent's iterations are bounded.
  Nobody has to stop or resume a task, and processes may die.
* `AgentLoop`: weak fairness of `Next`. A stream ends, fails or is aborted, a tool
  returns, throws or times out, and the user answers the request that is shown.
* `LspQueries`: weak fairness of the detection, the spawn and the reading of the
  file, which the operating system completes, and of the three timers that bound
  the waits. Nothing is assumed of a server, and no query need be made.
* `FileLocks`, `AgentSessions`, `TeamMerge` and `EditHistory` have safety
  properties only, and no fairness.

## What is proved

Every safety property of the passing runs, invariant or action property, is a
theorem of its specification, and so is the refinement of `LockTable`: for any
sets of sessions, processes, files, connections, queries and contents, and any
bounds. Each component has a module `..._proofs`. The only assumptions are the
named ones of the modules:

| assumption | says | because |
|---|---|---|
| `FileLocksAssumption` | `NoPath` is no file; no process is both a session and a command | distinct kinds of things |
| `BridgeSessionsAssumption`, `NoneAssumption`, `NullAssumption` | `None` is no session and no record, `Null` no record | they stand for null |
| `AgentSessionsAssumption`, `BgTasksAssumption` | parent, runner and commands are different processes; the commands on a task are finitely many | one process each; `OneMoreRunPerStop` counts them |
| `AgentLoopAssumption` | budget, error limit and calls per reply are positive | the budget advice and the limit of 2 |
| `EditHistoryAssumption` | the empty text has no line ending; `Absent` is no content | what a text is |
| `TeamMergeAssumption` | files are finitely many and ordered as numbers; `Absent`, `Torn` and `All` are none of the contents and files | a tree is finite, and is walked in an order |

Each proof has the same course. `IInv` is inductive: `InitIInv`, one lemma
per conjunct or group of conjuncts that goes through the actions, and
`InductiveInvariant`. The properties follow from it. What makes `IInv` inductive
is what is worth reading:

* `FileLocks_proofs`: `CalmExclusion` and `CalmRelease` are not inductive: that a
  running tool's lock is in the file does not say that the copy another process
  is about to save has it as well. `IInv` adds this. While `calm`: one process
  at a time is between load and save (`OneInWindow`); what its copy has is what
  the file has but for its own change (`CopiesFollow`); the lock of a running
  tool is in the file and in every copy on its way there (`RunnersHold`); a
  session past its check has no rival in the file (`CheckedFree`); a session that
  ended is in no copy (`EndedHoldNothing`). `Shape` says which operations
  sessions and commands can be at, and `UniqueLocks` needs no `calm`. `NextCalm`
  goes through the actions one by one. From it follow `OneEntryPerPath`,
  `Exclusion`, `Release` and, step by step with `StepImplements`, `Refinement`:
  every behaviour is one of `LockTable`, whose promise lasts as long as `calm`
  (`CalmOnlyEnds`: it never comes back). The abstract table itself excludes while
  its promise is kept (`TableInvariant`, `TableExclusive`).
* `BridgeSessions_proofs`: `BusyHasRun` and `OneRunUntilStopped` hold together
  (a run that ends may set the status because it is the only one) with the types
  and the fact that a run at work has a session (`BusyIsWorking`, `OneRun`).
* `AgentLoop_proofs`: that a rollback takes back one edit needs where the
  checkpoint came from: an edit that is under way has made its checkpoint and no
  edit came since (`EditsAreCheckpointed`), which lasts because nothing runs
  beside it (`SerialEffects`). The request shown in the UI is that of a call that
  waits (`SlotIsAsking`), so the request of a call that runs alone is not
  overwritten. `ToolStepMoves` says once what any step of a tool call does to the
  phase, the checkpoint and the call, and the invariant is kept by that. The
  errors of a reply are counted by a recursive function; that it is one
  (`ErrorsAfterRecursion`), and that the count stays below the limit up to the
  first call that halts the run (`ErrorsCounted`, `FirstHalts`), is shown by an
  induction over sets of numbers that takes no operator as a parameter
  (`LeastNumber`, `CountingUp`).
* `EditHistory_proofs`: `FreshIsSeen` has that a file nobody has changed is as
  the call saw it, whatever other processes wrote. `RecordsKeepEndings` is why
  reverts of reverts go back: every record in the history, and in any copy of it,
  has the line endings the tools give, so what `Restored` makes of it differs
  from the old content in the ways `RestoredLoses` lists and in no other. While
  `calm`, one process records, its copy is the whole history (`CopyFollows`) and
  the latest record of each file will be what is on disk (`LatestWillRevert`).
* `BgTasks_proofs` and `AgentSessions_proofs`: as in FileLocks, one window at a
  time and a copy that follows the record (`CopyFollows`, `WindowsFollow`), over
  lists of calls of any length. `OneMoreRunPerStop` is a count: each decision to
  resume was made of a stop or a failure that is still the last status
  (`ResumesResumable`), so the runs to come or going on, and one more if the task
  may be resumed now, are at most one more than the stops (`RoomForResume`). A stop
  adds to both sides; a run that fails leaves the runs as it makes room for one,
  since the status that ends a run is its last call (`RunsEndLast`). The runs at
  work are among those counted. `QuietReleases` needs that a lock that is held has somebody
  who will yet release it (`HeldIsFreed`: a call that frees, or an agent that uses
  tools and has not returned early), and that the signal only kills a worker whose
  session its sender then stops (`TodoInOrder`).
* `TeamMerge_proofs`: `PlanIs` says what the plan for a workspace is, from
  `Renamings` and `CleanFiles`: operations on different files, all selected, each
  fit for the tree and for main, and covering what the subagent did. The `Todo`
  parts of `IInv` say that the rest of the plan stays so through the copying of
  single files, torn files, half renames, crashes and edits. The five properties
  follow, since what changes in main is an operation of the plan (`ChangedIsTodo`).
* `LspQueries_proofs`: a query has no server before it spawns one
  (`NoServerYet`), and on each of the ways to the end its server is dead, killed
  or waited for.

Model-checked only:

* Liveness under fairness, which is out of the prover's reach: `BusyEnds`,
  `AnswersArrive`, `RunningEnds`, `EndsUnlessOverwritten`, `QueriesReturn`.
* The disagreements with the documents: a counterexample needs no proof.

The theorems of the library for induction take an operator as a parameter, which
the installed provers cannot instantiate; where an induction was needed it is over
sets, as above. No module has a RECURSIVE operator.

## What is not modelled

* LSP sessions (`src/lsp/session.ts`, `documentStore.ts`, `cache.ts`): no code
  path reaches one at this commit. `definitions.ts`, `symbols.ts` and
  `diagnostics.ts` call `getSessionForFile` unbound, which rejects because it uses
  `this`, and fall back to the one-shot client, which
  is in `LspQueries`, or to search.
* MCP: `McpServerManager` is reached only by the `/mcp` test command; the agent
  uses the v2 sessions, one table of pending requests with fresh ids and one
  owner.
* GitHub automation: the shipped runner hands no agent to issue-to-pr, so it never
  has a change to propose; what is left is one sequence of API calls per event.
* Of the modelled components: wording, formats and timestamps; the session event
  log, which nothing reads back into a decision; `releaseLock`, which nothing
  calls; the planning gate, permission rules and audit of the tool executor, which
  come before the locks and only refuse or log; the other message handlers of the
  bridge; the readline prompts of a CLI without the UI; two team runs that share
  `workspaces.json`.
* The components with status `not_modelled` in `PROJECT.json`, for the reasons
  given there: pure functions of the tree, formatting, HTTP clients, generators of
  documents.

## Plan

Done: the models `LockTable`, `FileLocks`, `AgentSessions`, `BridgeSessions`,
`BgTasks`, `AgentLoop`, `TeamMerge`, `EditHistory`, `LspQueries`, and the proofs of
all their safety properties. What would say most next:

1. An abstract record, changed one whole store call at a time, that `BgTasks` and
   `AgentSessions` implement while `calm`, as `FileLocks` implements `LockTable`;
   `WindowsFollow` and `CopyFollows` are the invariants it needs.
2. Which runs end: the proofs so far are the safety half of `RunningEnds` and
   `BusyEnds` (a run that is at work can take its next step).
3. The hazards of `PROJECT.json` that have a note instead of a property.
