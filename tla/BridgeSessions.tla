---------------------------- MODULE BridgeSessions ----------------------------
(***************************************************************************)
(* The agent sessions of the IDE bridge: src/src/bridge/agentSessionRunner *)
(* .ts and the session handlers of src/src/bridge/server.ts.  Everything   *)
(* runs on one event loop, so a handler is atomic from one await to the    *)
(* next; between them any other connection's message may be handled.       *)
(*                                                                         *)
(* A run is one call of runPrompt that was accepted.  It sends three       *)
(* events, awaits the agent runner (an agent of the CLI, which does not    *)
(* look at the stop signal; any other runner is free to), sets the         *)
(* session's status from the result and sends the closing events.  What a  *)
(* closed connection is sent is dropped, and the run goes on.              *)
(***************************************************************************)

CONSTANTS
    Connections,    \* clients of the bridge
    Sessions,       \* bound: the ids randomUUID may return
    Runs,           \* bound: the accepted prompts
    None            \* "no session"

ASSUME BridgeSessionsAssumption == None \notin Sessions

VARIABLES
    open,       \* the open connections
    current,    \* connectionSessions: the session of each connection, or None
    status,     \* status of each session; "absent" if it was not created
    signal,     \* stopSignal.stopped of each session
    phase,      \* where each run is
    session,    \* the session of each run
    client,     \* the connection each run sends its events to
    heard,      \* history: the last agent.* event each run's client received
    stopped     \* history: the sessions that got a session.stop

vars == <<open, current, status, signal, phase, session, client, heard, stopped>>

Active == {"starting", "agent"}
Working == Active \cup {"reporting"}

TypeOK ==
    /\ open \subseteq Connections
    /\ current \in [Connections -> Sessions \cup {None}]
    /\ status \in [Sessions -> {"absent", "idle", "running", "stopped"}]
    /\ signal \in [Sessions -> BOOLEAN]
    /\ phase \in [Runs -> {"unused", "done"} \cup Working]
    /\ session \in [Runs -> Sessions \cup {None}]
    /\ client \in [Runs -> Connections \cup {None}]
    /\ heard \in [Runs -> {"nothing", "started", "ended"}]
    /\ stopped \subseteq Sessions

Init ==
    /\ open = Connections
    /\ current = [c \in Connections |-> None]
    /\ status = [s \in Sessions |-> "absent"]
    /\ signal = [s \in Sessions |-> FALSE]
    /\ phase = [r \in Runs |-> "unused"]
    /\ session = [r \in Runs |-> None]
    /\ client = [r \in Runs |-> None]
    /\ heard = [r \in Runs |-> "nothing"]
    /\ stopped = {}

------------------------------------------------------------------------------
(* getOrCreateSession: the session asked for if it exists, else a new one. *)
Resolve(asked, s) ==
    IF asked \in Sessions /\ status[asked] # "absent"
    THEN s = asked
    ELSE status[s] = "absent"

(* Mutant of Busy: the check is missing. *)
NeverBusy(s) == FALSE

(* isRunning. *)
Busy(s) == status[s] = "running"

(* Mutant of StatusAfter: runPrompt's catch leaves the status as it was. *)
StatusUnlessThrown(s, result) ==
    CASE result = "stopped" -> "stopped"
      [] result = "throws"  -> status[s]
      [] OTHER              -> "idle"

(* Mutant of StatusAfter: the result itself becomes the status. *)
StatusFromResult(s, result) ==
    IF result \in {"failed", "throws"} THEN "idle" ELSE result

(* What runPrompt sets the status to when the runner is done: the result   *)
(* decides, and nothing asks whether the session was stopped meanwhile.    *)
StatusAfter(s, result) == IF result = "stopped" THEN "stopped" ELSE "idle"

(* Mutant of Tell: the client hears no more of a stopped session. *)
TellUnlessStopped(r, event) ==
    heard' = IF client[r] \in open /\ status[session[r]] # "stopped"
             THEN [heard EXCEPT ![r] = event] ELSE heard

(* onEvent, which sends to the connection the prompt came from. *)
Tell(r, event) ==
    heard' = IF client[r] \in open THEN [heard EXCEPT ![r] = event] ELSE heard

------------------------------------------------------------------------------
(* handleSessionStart. *)
SessionStart(c, s) ==
    /\ c \in open
    /\ status[s] = "absent"
    /\ status' = [status EXCEPT ![s] = "idle"]
    /\ current' = [current EXCEPT ![c] = s]
    /\ UNCHANGED <<open, signal, phase, session, client, heard, stopped>>

(* handleSessionSendPrompt, for an explicit session id, or None for the    *)
(* connection's own: a busy session is refused ...                         *)
PromptRefused(c, asked, s) ==
    /\ c \in open
    /\ Resolve(IF asked = None THEN current[c] ELSE asked, s)
    /\ Busy(s)
    /\ current' = [current EXCEPT ![c] = s]
    /\ UNCHANGED <<open, status, signal, phase, session, client, heard, stopped>>

(* ... and any other starts a run, up to runPrompt's first await.  A stop  *)
(* signal that is up is taken back.                                        *)
PromptAccepted(c, asked, s, r) ==
    /\ c \in open
    /\ phase[r] = "unused"
    /\ Resolve(IF asked = None THEN current[c] ELSE asked, s)
    /\ ~Busy(s)
    /\ current' = [current EXCEPT ![c] = s]
    /\ status' = [status EXCEPT ![s] = "running"]
    /\ signal' = [signal EXCEPT ![s] = FALSE]
    /\ phase' = [phase EXCEPT ![r] = "starting"]
    /\ session' = [session EXCEPT ![r] = s]
    /\ client' = [client EXCEPT ![r] = c]
    /\ UNCHANGED <<open, heard, stopped>>

(* handleSessionStop. *)
SessionStop(c, s) ==
    /\ c \in open
    /\ status[s] # "absent"
    /\ signal' = [signal EXCEPT ![s] = TRUE]
    /\ status' = [status EXCEPT ![s] = "stopped"]
    /\ stopped' = stopped \cup {s}
    /\ UNCHANGED <<open, current, phase, session, client, heard>>

(* The connection goes away. *)
Close(c) ==
    /\ c \in open
    /\ open' = open \ {c}
    /\ current' = [current EXCEPT ![c] = None]
    /\ UNCHANGED <<status, signal, phase, session, client, heard, stopped>>

(* runPrompt has sent agent.started and calls the runner. *)
AgentStarts(r) ==
    /\ phase[r] = "starting"
    /\ phase' = [phase EXCEPT ![r] = "agent"]
    /\ Tell(r, "started")
    /\ UNCHANGED <<open, current, status, signal, session, client, stopped>>

(* The runner returns, or throws.  One that looks at the signal returns    *)
(* "stopped" when it is up.                                                *)
AgentReturns(r, result) ==
    /\ phase[r] = "agent"
    /\ result = "stopped" => signal[session[r]]
    /\ status' = [status EXCEPT ![session[r]] = StatusAfter(session[r], result)]
    /\ phase' = [phase EXCEPT ![r] = "reporting"]
    /\ UNCHANGED <<open, current, signal, session, client, heard, stopped>>

(* agent.completed or agent.failed has been sent. *)
Report(r) ==
    /\ phase[r] = "reporting"
    /\ phase' = [phase EXCEPT ![r] = "done"]
    /\ Tell(r, "ended")
    /\ UNCHANGED <<open, current, status, signal, session, client, stopped>>

------------------------------------------------------------------------------
Results == {"completed", "failed", "stopped", "throws"}

Client(c) ==
    \/ \E s \in Sessions : SessionStart(c, s) \/ SessionStop(c, s)
    \/ \E asked \in Sessions \cup {None}, s \in Sessions :
          \/ PromptRefused(c, asked, s)
          \/ \E r \in Runs : PromptAccepted(c, asked, s, r)
    \/ Close(c)

Run(r) ==
    \/ AgentStarts(r)
    \/ \E result \in Results : AgentReturns(r, result)
    \/ Report(r)

Next == (\E c \in Connections : Client(c)) \/ (\E r \in Runs : Run(r))

(* The event loop resumes a function whose await is over: a send always    *)
(* resolves, and the runner is taken to return.                            *)
Fairness == \A r \in Runs : WF_vars(Run(r))

Spec == Init /\ [][Next]_vars /\ Fairness

------------------------------------------------------------------------------
ActiveRuns(s) == {r \in Runs : phase[r] \in Active /\ session[r] = s}

(* However clients prompt, stop and leave, a session that answers "busy"   *)
(* has a run that will end the wait: no session is busy for good           *)
(* (isRunning, and the status changes of runPrompt and stopSession).       *)
BusyHasRun == \A s \in Sessions : status[s] = "running" => ActiveRuns(s) # {}

(* The agent runs in a session one at a time, and the session is busy      *)
(* exactly while it does, whichever connections send the prompts and       *)
(* whichever leave: until the session gets its first session.stop.         *)
OneRunUntilStopped ==
    \A s \in Sessions \ stopped :
        /\ \A q, r \in ActiveRuns(s) : q = r
        /\ ActiveRuns(s) # {} => status[s] = "running"

(* The inductive invariant behind the two: a run that is under way belongs *)
(* to a session.                                                           *)
RunsHaveSession == \A r \in Runs : phase[r] \in Working => session[r] \in Sessions

IInv == TypeOK /\ RunsHaveSession /\ BusyHasRun /\ OneRunUntilStopped

(* A busy session becomes free again, however its run ends. *)
BusyEnds ==
    \A s \in Sessions : status[s] = "running" ~> status[s] # "running"

(* A client that stays learns the end of every prompt that was accepted,   *)
(* also of one whose session was stopped or prompted again meanwhile.      *)
AnswersArrive ==
    \A r \in Runs : phase[r] = "starting" ~> (heard[r] = "ended" \/ client[r] \notin open)

(* docs/vscode-extension.md: "Session busy detection (rejects concurrent   *)
(* prompts cleanly)": no session runs two prompts at the same time.        *)
DocumentedBusy ==
    \A s \in Sessions : \A q, r \in ActiveRuns(s) : q = r
==============================================================================
