------------------------------ MODULE AgentLoop ------------------------------
(***************************************************************************)
(* One run of the agent loop: the model is asked, its tool calls are       *)
(* executed, their results go back to it, until it answers or the run is   *)
(* given up.  Sources: src/src/agent/loop.ts, toolCallOrchestrator.ts,     *)
(* toolExecutionRuntime.ts, runtimeController.ts, runtimeState.ts,         *)
(* checkpoints.ts and loopProgress.ts.                                     *)
(*                                                                         *)
(* Reads that follow each other run together and interleave at their       *)
(* awaits; every other call runs alone.  An edit is preceded by a          *)
(* checkpoint of the workspace, and a test, lint or build that fails       *)
(* restores the latest one.  What the model says and what the tools return *)
(* is any of the outcomes the loop tells apart.  No hook is registered in  *)
(* the program, so none blocks a call.                                     *)
(*                                                                         *)
(* A tool may have to ask the user.  The terminal UI (src/src/ui/App.tsx)  *)
(* holds one request: the next one takes its place.  Requests that rules   *)
(* or the permission mode settle are not seen here, and of the requests of *)
(* one call there is one.                                                  *)
(***************************************************************************)
EXTENDS Naturals, Sequences

CONSTANTS
    Budget,     \* iterationBudget
    MaxErrors,  \* maxConsecutiveErrors
    MaxCalls    \* bound: tool calls in one reply of the model

ASSUME AgentLoopAssumption ==
    /\ Budget \in Nat \ {0}
    /\ MaxErrors \in Nat \ {0}
    /\ MaxCalls \in Nat \ {0}

(* edit: edit_file, patch_file, write_file; verify: the test, lint and     *)
(* build runners; other: every other tool that is not read-only.           *)
Tools == {"read", "edit", "revert", "verify", "other"}
ReadOnly == {"read"}
Checkpointed == {"edit", "revert"}

(* ok and notOk: the tool returned, with result.ok or without; error and   *)
(* missing: it threw, missing for a required input; malformed: the input   *)
(* is no JSON; threw: the tool was not run, because its checkpoint could   *)
(* not be written or its start could not be recorded.                      *)
Returned == {"ok", "notOk"}
Finished == Returned \cup {"error", "missing", "malformed", "threw"}
Unfinished == {"waiting", "checkpointing", "running", "asking", "approved",
               "restoring"}

Phases == {"planning", "checkpointing", "executing_tool", "observing",
           "verifying", "recovering", "completed", "failed"}

VARIABLES
    iteration,  \* of the loop, from 0
    calls,      \* the tools of the reply that is being executed
    status,     \* where each of these calls is
    errors,     \* consecutiveErrors
    stall,      \* recorded iterations without progress since the last with
    slot,       \* the call approvalResolverRef will answer, or 0
    phase,      \* state.phase of the RuntimeController
    checkpoint, \* latestCheckpoint is defined
    outcome,    \* how the run ended, or "none"
    undo,       \* history: edits made since the latest checkpoint
    dropped     \* history: a call has run whose result was not recorded

vars == <<iteration, calls, status, errors, stall, slot, phase, checkpoint,
          outcome, undo, dropped>>

(* thrown: runAgentLoop itself throws, the others return a last message. *)
Outcomes == {"none", "answered", "rejected", "errors", "stalled", "exhausted",
             "thrown"}
StallWindow == 3

TypeOK ==
    /\ iteration \in 0..(Budget - 1)
    /\ calls \in Seq(Tools) /\ Len(calls) <= MaxCalls
    /\ status \in [1..Len(calls) -> Unfinished \cup Finished]
    /\ errors \in 0..(MaxErrors + 1)
    /\ stall \in 0..StallWindow
    /\ slot \in 0..Len(calls)
    /\ phase \in Phases
    /\ outcome \in Outcomes
    /\ undo \in Nat
    /\ checkpoint \in BOOLEAN /\ dropped \in BOOLEAN

------------------------------------------------------------------------------
(* The RuntimeController: a transition that is not allowed is ignored.     *)

Allowed ==
    [p \in Phases |->
        CASE p = "planning" ->
               {"checkpointing", "executing_tool", "observing", "failed"}
          [] p = "checkpointing" ->
               {"executing_tool", "observing", "recovering", "failed"}
          [] p = "executing_tool" ->
               {"observing", "verifying", "recovering", "failed"}
          [] p = "observing" ->
               {"planning", "checkpointing", "executing_tool", "verifying",
                "completed", "recovering", "failed"}
          [] p = "verifying" -> {"completed", "recovering", "failed"}
          [] p = "recovering" ->
               {"planning", "checkpointing", "executing_tool", "observing",
                "failed"}
          [] OTHER -> {}]

To(p, q) == IF q \in Allowed[p] THEN q ELSE p

(* Mutant of CompleteRun: without the step over observing. *)
CompleteRunAtOnce(p) == To(p, "completed")

CompleteRun(p) ==
    To(IF p \in {"observing", "verifying"} THEN p ELSE To(p, "observing"),
       "completed")

FailRun(p) ==
    To(IF p \in {"recovering", "verifying"} THEN p ELSE To(p, "recovering"),
       "failed")

(* startRecovery and completeRecovery. *)
Recover(p, ok) == To(To(p, "recovering"), IF ok THEN "planning" ELSE "failed")

(* startVerification and completeVerification. *)
Verify(p, ok) == To(To(p, "verifying"), IF ok THEN "observing" ELSE "recovering")

------------------------------------------------------------------------------
Init ==
    /\ iteration = 0
    /\ calls = <<>> /\ status = <<>>
    /\ errors = 0 /\ stall = 0 /\ slot = 0
    /\ phase = "planning"
    /\ checkpoint = FALSE
    /\ outcome = "none"
    /\ undo = 0 /\ dropped = FALSE

Running == outcome = "none"
AskingModel == Running /\ calls = <<>>

End(how, p) ==
    /\ outcome' = how
    /\ phase' = p
    /\ UNCHANGED iteration

(* Mutant of Iterate: the iteration is not counted. *)
IterateUncounted(p) ==
    /\ phase' = To(p, "planning")
    /\ UNCHANGED <<iteration, outcome>>

(* The next iteration of the loop, or its end. *)
Iterate(p) ==
    IF iteration + 1 < Budget
    THEN /\ iteration' = iteration + 1
         /\ phase' = To(p, "planning")
         /\ UNCHANGED outcome
    ELSE End("exhausted", FailRun(p))

(* provider.stream fails: at once if the provider refuses the credentials  *)
(* or the request, and for any other error if it is one too many.          *)
StreamFails ==
    /\ AskingModel
    /\ errors' = errors + 1
    /\ LET p == To(phase, "recovering")
       IN  \/ End("rejected", FailRun(p))
           \/ /\ errors' >= MaxErrors
              /\ End("errors", FailRun(p))
           \/ /\ errors' < MaxErrors
              /\ Iterate(p)
    /\ UNCHANGED <<calls, status, stall, slot, checkpoint, undo, dropped>>

(* A reply without tool calls is the final answer. *)
Answer ==
    /\ AskingModel
    /\ End("answered", CompleteRun(phase))
    /\ UNCHANGED <<calls, status, errors, stall, slot, checkpoint, undo, dropped>>

Reply ==
    /\ AskingModel
    /\ \E n \in 1..MaxCalls : calls' \in [1..n -> Tools]
    /\ status' = [i \in DOMAIN calls' |-> "waiting"]
    /\ UNCHANGED <<iteration, errors, stall, slot, phase, checkpoint, outcome,
                   undo, dropped>>

------------------------------------------------------------------------------
(* executeSingleToolCall, for the i-th call of the reply.                  *)

(* Mutant of SameGroup: a write does not wait for the reads before it. *)
SameGroupNoFlush(i, j) == calls[j] \in ReadOnly

(* planToolCallExecution: reads with nothing else between them. *)
SameGroup(i, j) ==
    \A k \in DOMAIN calls :
        (i <= k /\ k <= j) \/ (j <= k /\ k <= i) => calls[k] \in ReadOnly

(* executeOrchestrated: a group starts when those before it are finished. *)
MayStart(i) ==
    \A j \in 1..(i - 1) : status[j] \in Finished \/ SameGroup(i, j)

At(i, s) == i \in DOMAIN status /\ status[i] = s
Move(i, s) == status' = [status EXCEPT ![i] = s]

(* The parts of the state that only change between replies. *)
RestUnchanged ==
    UNCHANGED <<iteration, calls, errors, stall, outcome, dropped>>

Malformed(i) ==
    /\ At(i, "waiting") /\ MayStart(i)
    /\ Move(i, "malformed")
    /\ phase' = Recover(phase, TRUE)
    /\ UNCHANGED <<slot, checkpoint, undo>>
    /\ RestUnchanged

(* recordToolStart reads fields of the input, which may be the JSON null.   *)
StartThrows(i) ==
    /\ At(i, "waiting") /\ MayStart(i)
    /\ Move(i, "threw")
    /\ UNCHANGED <<phase, slot, checkpoint, undo>>
    /\ RestUnchanged

Start(i) ==
    /\ At(i, "waiting") /\ MayStart(i)
    /\ IF calls[i] \in Checkpointed
       THEN Move(i, "checkpointing") /\ UNCHANGED phase
       ELSE Move(i, "running") /\ phase' = To(phase, "executing_tool")
    /\ UNCHANGED <<slot, checkpoint, undo>>
    /\ RestUnchanged

(* Mutant of Checkpoint: the first checkpoint of the run is kept. *)
CheckpointOnce(i) ==
    /\ At(i, "checkpointing")
    /\ checkpoint' = TRUE
    /\ undo' = IF checkpoint THEN undo ELSE 0
    /\ phase' = To(To(phase, "checkpointing"), "executing_tool")
    /\ Move(i, "running")
    /\ UNCHANGED slot
    /\ RestUnchanged

(* createCheckpoint has saved a snapshot of the workspace ... *)
Checkpoint(i) ==
    /\ At(i, "checkpointing")
    /\ checkpoint' = TRUE
    /\ undo' = 0
    /\ phase' = To(To(phase, "checkpointing"), "executing_tool")
    /\ Move(i, "running")
    /\ UNCHANGED slot
    /\ RestUnchanged

(* ... or could not, and the tool is not run. *)
CheckpointFails(i) ==
    /\ At(i, "checkpointing")
    /\ Move(i, "threw")
    /\ phase' = FailRun(phase)
    /\ UNCHANGED <<slot, checkpoint, undo>>
    /\ RestUnchanged

(* The tool asks the user: the approval handler shows the request and puts *)
(* its resolver where the one before may still be waiting.                 *)
Ask(i) ==
    /\ At(i, "running")
    /\ Move(i, "asking")
    /\ slot' = i
    /\ UNCHANGED <<phase, checkpoint, undo>>
    /\ RestUnchanged

(* handleApprovalSubmit answers the request that is shown; a refused tool  *)
(* throws.                                                                 *)
AnswerRequest(i) ==
    /\ At(i, "asking") /\ slot = i
    /\ slot' = 0
    /\ \/ Move(i, "approved") /\ UNCHANGED phase
       \/ Move(i, "error") /\ phase' = To(phase, "recovering")
    /\ UNCHANGED <<checkpoint, undo>>
    /\ RestUnchanged

AtWork(i) == At(i, "running") \/ At(i, "approved")

(* The tool returns.  A failed verification goes on to restore the latest  *)
(* checkpoint; after another result that is not ok, planRecovery may mark  *)
(* the runtime failed, which the loop does not look at.                    *)
Return(i, result) ==
    /\ AtWork(i)
    /\ LET p == To(phase, "observing")
       IN  CASE calls[i] = "verify" /\ result = "notOk" /\ checkpoint ->
                  Move(i, "restoring") /\ phase' = To(p, "verifying")
             [] calls[i] = "verify" /\ ~(result = "notOk" /\ checkpoint) ->
                  Move(i, result) /\ phase' = Verify(p, result = "ok")
             [] calls[i] # "verify" /\ result = "notOk" ->
                  Move(i, result) /\ \E ok \in BOOLEAN : phase' = Recover(p, ok)
             [] OTHER -> Move(i, result) /\ phase' = p
    /\ undo' = IF calls[i] \in Checkpointed /\ result = "ok" THEN undo + 1 ELSE undo
    /\ UNCHANGED <<slot, checkpoint>>
    /\ RestUnchanged

(* restoreCheckpoint rewrites every file of the snapshot and removes all    *)
(* others.                                                                 *)
Restore(i) ==
    /\ At(i, "restoring")
    /\ Move(i, "notOk")
    /\ phase' = To(phase, "recovering")
    /\ undo' = 0
    /\ UNCHANGED <<slot, checkpoint>>
    /\ RestUnchanged

(* The tool, or the restoring after it, throws. *)
Throw(i, how) ==
    /\ \/ AtWork(i)
       \/ At(i, "restoring") /\ how = "error"
    /\ Move(i, how)
    /\ phase' = To(phase, "recovering")
    /\ UNCHANGED <<slot, checkpoint, undo>>
    /\ RestUnchanged

ToolStep(i) ==
    \/ Malformed(i)
    \/ StartThrows(i)
    \/ Start(i)
    \/ Checkpoint(i)
    \/ CheckpointFails(i)
    \/ Ask(i)
    \/ AnswerRequest(i)
    \/ \E result \in Returned : Return(i, result)
    \/ Restore(i)
    \/ \E how \in {"error", "missing"} : Throw(i, how)

------------------------------------------------------------------------------
(* The results are recorded in the order of the calls.                     *)

(* Mutant of Increment: a missing input counts three times. *)
IncrementMore(s) == CASE s \in {"error", "threw"} -> 1 [] s = "missing" -> 3 [] OTHER -> 0

Increment(s) == CASE s \in {"error", "threw"} -> 1 [] s = "missing" -> 2 [] OTHER -> 0

(* consecutiveErrors after the results of the calls 1 to n. *)
ErrorsAfter[n \in 0..MaxCalls] ==
    IF n = 0 THEN errors
    ELSE IF status[n] \in Returned THEN 0
    ELSE ErrorsAfter[n - 1] + Increment(status[n])

(* Mutant of Halts: the threshold is passed, not reached. *)
HaltsAbove(n) == Increment(status[n]) > 0 /\ ErrorsAfter[n] > MaxErrors

Halts(n) == Increment(status[n]) > 0 /\ ErrorsAfter[n] >= MaxErrors

(* The calls whose results are recorded: up to the first that halts. *)
Recorded == {n \in DOMAIN calls : \A m \in 1..(n - 1) : ~Halts(m)}

(* Mutant of Halted: only the last call of the reply can end the run. *)
HaltedByLast == Halts(Len(calls))

Halted == \E n \in DOMAIN calls : Halts(n)

(* progressTracker.record: a malformed call is no progress, and neither is *)
(* one that was not recorded.                                              *)
MayProgress == \E n \in Recorded : status[n] \notin {"malformed", "threw"}

(* It throws, and nothing catches that, if a call it looks at had null for *)
(* its input; an edit with such an input has not come past its start.      *)
MayThrow ==
    \E n \in Recorded :
        calls[n] \notin Checkpointed /\ status[n] \notin {"malformed", "threw"}

IsStalled == stall' >= StallWindow

Collect ==
    /\ Running /\ calls # <<>>
    /\ \A i \in DOMAIN status : status[i] \in Finished
    /\ calls' = <<>> /\ status' = <<>>
    /\ dropped' = (dropped \/ \E n \in DOMAIN calls \ Recorded :
                                status[n] \notin {"malformed", "threw"})
    /\ IF Halted
       THEN /\ errors' = ErrorsAfter[CHOOSE n \in Recorded : Halts(n)]
            /\ End("errors", FailRun(phase))
            /\ UNCHANGED stall
       ELSE /\ errors' = ErrorsAfter[Len(calls)]
            /\ \/ /\ MayThrow
                  /\ End("thrown", phase)
                  /\ UNCHANGED stall
               \/ /\ \E progress \in {FALSE, MayProgress} :
                        stall' = IF progress THEN 0 ELSE stall + 1
                  /\ IF IsStalled THEN End("stalled", FailRun(phase))
                                  ELSE Iterate(phase)
    /\ UNCHANGED <<slot, checkpoint, undo>>

------------------------------------------------------------------------------
Next ==
    \/ StreamFails
    \/ Answer
    \/ Reply
    \/ \E i \in DOMAIN calls : ToolStep(i)
    \/ Collect

(* A stream ends, fails or is aborted, a tool returns, throws or times     *)
(* out, and the user answers the request that is shown; the loop goes on.  *)
Spec == Init /\ [][Next]_vars /\ WF_vars(Next)

------------------------------------------------------------------------------
(* A call that may change something runs alone, after all calls before it *)
(* and before all calls after it (planToolCallExecution and                *)
(* executeOrchestrated): a checkpoint and its restoring see no other call  *)
(* at work, and a read sees the edits the model asked for before it.       *)
SerialEffects ==
    \A i, j \in DOMAIN calls :
        i < j /\ (calls[i] \notin ReadOnly \/ calls[j] \notin ReadOnly)
            => (status[j] # "waiting" => status[i] \in Finished)

(* A failed verification takes back at most one edit: the checkpoint it    *)
(* restores was made after all edits but the last, whichever calls failed, *)
(* were refused or followed a rollback in between.                         *)
OneEditUndone == checkpoint => undo <= 1

(* The model is asked again only while the errors in a row are below the   *)
(* limit, and the three iterations before have not all been useless.       *)
AsksWithinLimits == AskingModel => errors < MaxErrors /\ stall < StallWindow

(* If the result of a call that ran is not recorded (those after the call  *)
(* that was one error too many), the run ends there: the model is never    *)
(* asked again on an incomplete record.                                    *)
DroppedEndsRun == dropped => outcome = "errors"

(* The runtime phase shown to the user and the loop agree on the end: a    *)
(* run that returned has come to a terminal phase, wherever the            *)
(* transitions the controller refused left it, and "completed" means       *)
(* answered.  A run that threw has left its phase where it was.            *)
PhaseAgrees ==
    /\ outcome \notin {"none", "thrown"} => phase \in {"completed", "failed"}
    /\ phase = "completed" => outcome = "answered"

(* A request whose resolver was overwritten, which nobody will answer. *)
Overwritten == \E i \in DOMAIN calls : At(i, "asking") /\ slot # i

(* What a write, a command or a verification asks is answered: only reads, *)
(* which run together, take each other's place in the UI.                  *)
WritesAreAnswered ==
    \A i \in DOMAIN calls : At(i, "asking") /\ calls[i] \notin ReadOnly => slot = i

(* Every run ends, except one that waits for an overwritten request. *)
EndsUnlessOverwritten == <>(outcome # "none" \/ Overwritten)

(* docs/NATIVE_TOOL_CALLING.md: "groups consecutive read-only tools for    *)
(* parallel execution ... Always returns results in original index order." *)
(* So the calls of a reply come to an end.                                 *)
RepliesReturn == (calls # <<>>) ~> (calls = <<>>)

------------------------------------------------------------------------------
(* The inductive invariant from which the above follow.                    *)

(* A run that is over executes no calls; one that is not is within limits. *)
RunWithinLimits ==
    IF Running THEN errors < MaxErrors /\ stall < StallWindow ELSE calls = <<>>

(* The UI shows the request of a call that waits for it. *)
SlotIsAsking == slot # 0 => At(slot, "asking")

(* An edit at work has made its checkpoint and no other edit followed. *)
EditsAreCheckpointed ==
    \A i \in DOMAIN calls :
        calls[i] \in Checkpointed /\ status[i] \in {"running", "asking", "approved"}
            => checkpoint /\ undo = 0

IInv ==
    /\ TypeOK
    /\ RunWithinLimits
    /\ SlotIsAsking
    /\ EditsAreCheckpointed
    /\ SerialEffects
    /\ OneEditUndone
    /\ DroppedEndsRun
    /\ PhaseAgrees
    /\ WritesAreAnswered
==============================================================================
