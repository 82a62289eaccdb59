------------------------------ MODULE LspQueries ------------------------------
(***************************************************************************)
(* Code-intelligence queries: the symbols, diagnostics, definition and     *)
(* references of files, asked of a language server.  Sources: the          *)
(* providers src/src/lsp/symbols.ts, diagnostics.ts and definitions.ts,    *)
(* manager.ts, client.ts and transport.ts.                                 *)
(*                                                                         *)
(* A query finds out whether the language has a server, asks for the       *)
(* long-lived session, which it never gets (GetSession), and starts a      *)
(* server of its own: spawn, initialize, open the file, ask, shut down,    *)
(* kill.  The queries of one agent run go on at the same time              *)
(* (Promise.all, agent/context.ts:312) and share the Node process.  The    *)
(* server owes nobody an answer and can die, or ignore SIGTERM, at any     *)
(* point; once it has been spawned nothing but timers tells the client,    *)
(* since the transport takes its close handler off again.                  *)
(***************************************************************************)

CONSTANTS Queries   \* calls of the providers, all for one language

VARIABLES
    status,     \* the manager's detection cache for the language
    pc,         \* where each query is
    kind,       \* what a query asks for
    server,     \* the server process a query has started
    answer,     \* where the result of a query comes from
    alive       \* the Node process runs

vars == <<status, pc, kind, server, answer, alive>>

Kinds == {"request", "diagnostics"}

PcValues == {"idle", "detecting", "routing", "starting", "connecting",
             "initializing", "opening", "asking", "stopping",
             "disconnecting", "returned"}

(* "dead" has exited, which the parent has yet to hear of; of one that is  *)
(* "gone" it has, and the close event may have passed too; "killed" was    *)
(* sent SIGKILL.                                                           *)
ServerStates == {"none", "spawning", "up", "dead", "gone", "killed"}

TypeOK ==
    /\ status \in {"unknown", "available", "missing"}
    /\ pc \in [Queries -> PcValues]
    /\ kind \in [Queries -> Kinds]
    /\ server \in [Queries -> ServerStates]
    /\ answer \in [Queries -> {"none", "live", "fallback"}]
    /\ alive \in BOOLEAN

Init ==
    /\ status = "unknown"
    /\ pc = [q \in Queries |-> "idle"]
    /\ kind \in [Queries -> Kinds]
    /\ server = [q \in Queries |-> "none"]
    /\ answer = [q \in Queries |-> "none"]
    /\ alive = TRUE

------------------------------------------------------------------------------
Goto(q, next) == pc' = [pc EXCEPT ![q] = next]

At(q, place) == alive /\ pc[q] = place

Running(q) == server[q] \in {"spawning", "up"}

(* A message written to the pipe of a server that has exited raises an     *)
(* 'error' on the pipe, which nobody listens to: Node ends the process.    *)
(* When the exit has been noticed the pipe is destroyed and says nothing.  *)
Write(q) == alive' \in {TRUE} \cup (IF server[q] = "dead" THEN {FALSE} ELSE {})

(* The provider's catch: the result is the fallback ... *)
Fail(q) == answer' = [answer EXCEPT ![q] = "fallback"]

(* ... after forceDisconnect. *)
FailAndDisconnect(q) ==
    /\ Goto(q, "disconnecting")
    /\ Fail(q)

------------------------------------------------------------------------------
(* The provider: getFileSymbolsDetailed, getFileDiagnostics, getDefinition *)
(* or getReferences.                                                       *)

UseStatus(q, found) ==
    IF found = "available"
    THEN Goto(q, "routing") /\ UNCHANGED answer
    ELSE Goto(q, "returned") /\ Fail(q)

(* getFileStatus, from the cache or by running the candidates' --version. *)
GetFileStatus(q) ==
    /\ At(q, "idle")
    /\ IF status = "unknown"
       THEN Goto(q, "detecting") /\ UNCHANGED answer
       ELSE UseStatus(q, status)
    /\ UNCHANGED <<status, kind, server, alive>>

(* Mutant of DetectLanguage: a language that is not listed. *)
DetectUnsupported(q) ==
    /\ At(q, "detecting")
    /\ status' \in {"available", "unsupported"}
    /\ UseStatus(q, status')
    /\ UNCHANGED <<kind, server, alive>>

(* "missing" stands for every status that is not "available". *)
DetectLanguage(q) ==
    /\ At(q, "detecting")
    /\ status' \in {"available", "missing"}
    /\ UseStatus(q, status')
    /\ UNCHANGED <<kind, server, alive>>

(* getSessionForFile is taken out of the manager and called without it:    *)
(* the use of this inside it throws, the catch makes that null, and the    *)
(* provider goes on to the short-lived client.                             *)
GetSession(q) ==
    /\ At(q, "routing")
    /\ Goto(q, "starting")
    /\ UNCHANGED <<status, kind, server, answer, alive>>

------------------------------------------------------------------------------
(* LspTransport.connect and LspClient.initialize.                          *)

Spawn(q) ==
    /\ At(q, "starting")
    /\ Goto(q, "connecting")
    /\ server' = [server EXCEPT ![q] = "spawning"]
    /\ UNCHANGED <<status, kind, answer, alive>>

(* spawn throws: there is no process to disconnect from. *)
SpawnThrows(q) ==
    /\ At(q, "starting")
    /\ Goto(q, "returned")
    /\ Fail(q)
    /\ UNCHANGED <<status, kind, server, alive>>

(* The spawn event: the initialize request goes out. *)
Connected(q) ==
    /\ At(q, "connecting")
    /\ server[q] \in {"up", "dead"}
    /\ Goto(q, "initializing")
    /\ Write(q)
    /\ UNCHANGED <<status, kind, server, answer>>

(* The error event in its place. *)
SpawnFails(q) ==
    /\ At(q, "connecting")
    /\ server[q] = "spawning"
    /\ server' = [server EXCEPT ![q] = "dead"]
    /\ FailAndDisconnect(q)
    /\ UNCHANGED <<status, kind, alive>>

(* Mutant of ConnectTimeout: the timeout gives up on the process. *)
ConnectGivenUp(q) ==
    /\ At(q, "connecting")
    /\ Goto(q, "returned")
    /\ Fail(q)
    /\ UNCHANGED <<status, kind, server, alive>>

ConnectTimeout(q) ==
    /\ At(q, "connecting")
    /\ FailAndDisconnect(q)
    /\ UNCHANGED <<status, kind, server, alive>>

(* A valid response: initialized is notified, and the file is read. *)
Initialized(q) ==
    /\ At(q, "initializing")
    /\ server[q] \in {"up", "dead", "gone"}
    /\ Goto(q, "opening")
    /\ Write(q)
    /\ UNCHANGED <<status, kind, server, answer>>

------------------------------------------------------------------------------
(* LspClient.didOpenTextDocument and the question itself.                  *)

(* The text has been read: didOpen is sent, and with it the request, or    *)
(* the wait for textDocument/publishDiagnostics begins.                    *)
Ask(q) ==
    /\ At(q, "opening")
    /\ Goto(q, "asking")
    /\ Write(q)
    /\ UNCHANGED <<status, kind, server, answer>>

(* An answer in time, and the shutdown request of dispose.  A message the  *)
(* server sent before it died still arrives.                               *)
Answered(q) ==
    /\ At(q, "asking")
    /\ server[q] \in {"up", "dead", "gone"}
    /\ Goto(q, "stopping")
    /\ answer' = [answer EXCEPT ![q] = "live"]
    /\ Write(q)
    /\ UNCHANGED <<status, kind, server>>

(* The initialize request is refused, invalid or times out; the file       *)
(* cannot be read; the question is refused (a request, not a wait for      *)
(* diagnostics) or invalid.                                                *)
StepFails(q) ==
    /\ alive
    /\ \/ pc[q] \in {"initializing", "opening"}
       \/ pc[q] = "asking" /\ kind[q] = "request"
    /\ FailAndDisconnect(q)
    /\ UNCHANGED <<status, kind, server, alive>>

(* The timer of the request, or of the wait for diagnostics, runs out. *)
Timeout(q) ==
    /\ alive
    /\ pc[q] \in {"initializing", "asking"}
    /\ FailAndDisconnect(q)
    /\ UNCHANGED <<status, kind, server, alive>>

(* The shutdown request of dispose is answered: exit is notified, and then *)
(* disconnects.                                                            *)
ShutdownAnswered(q) ==
    /\ At(q, "stopping")
    /\ server[q] \in {"up", "dead", "gone"}
    /\ Goto(q, "disconnecting")
    /\ Write(q)
    /\ UNCHANGED <<status, kind, server, answer>>

(* It is refused or times out, and forceDisconnect follows. *)
ShutdownFails(q) ==
    /\ At(q, "stopping")
    /\ Goto(q, "disconnecting")
    /\ UNCHANGED <<status, kind, server, answer, alive>>

------------------------------------------------------------------------------
(* LspTransport.disconnect, which has ended the pipe and sent SIGTERM.     *)

(* The close event. *)
Closed(q) ==
    /\ At(q, "disconnecting")
    /\ server[q] \in {"dead", "gone"}
    /\ server' = [server EXCEPT ![q] = "gone"]
    /\ Goto(q, "returned")
    /\ UNCHANGED <<status, kind, answer, alive>>

(* Mutant of DisconnectTimeout: it counts on the close event. *)
DisconnectTimeoutUp(q) ==
    /\ At(q, "disconnecting")
    /\ Running(q)
    /\ server' = [server EXCEPT ![q] = "killed"]
    /\ Goto(q, "returned")
    /\ UNCHANGED <<status, kind, answer, alive>>

(* Five seconds pass without one, be it that the server ignores SIGTERM or *)
(* that it closed before disconnect listened: SIGKILL.                     *)
DisconnectTimeout(q) ==
    /\ At(q, "disconnecting")
    /\ server' = [server EXCEPT ![q] = IF Running(q) THEN "killed" ELSE @]
    /\ Goto(q, "returned")
    /\ UNCHANGED <<status, kind, answer, alive>>

------------------------------------------------------------------------------
(* The server process, and what the parent hears of it.                    *)

ServerStarts(q) ==
    /\ server[q] = "spawning"
    /\ server' = [server EXCEPT ![q] = "up"]
    /\ UNCHANGED <<status, pc, kind, answer, alive>>

ServerDies(q) ==
    /\ server[q] = "up"
    /\ server' = [server EXCEPT ![q] = "dead"]
    /\ UNCHANGED <<status, pc, kind, answer, alive>>

(* Node closes the pipes; the close handler of connect has been removed. *)
ExitNoticed(q) ==
    /\ alive
    /\ server[q] = "dead"
    /\ pc[q] # "connecting"
    /\ server' = [server EXCEPT ![q] = "gone"]
    /\ UNCHANGED <<status, pc, kind, answer, alive>>

------------------------------------------------------------------------------
Provider(q) ==
    \/ GetFileStatus(q) \/ DetectLanguage(q) \/ GetSession(q)

Client(q) ==
    \/ Spawn(q) \/ SpawnThrows(q) \/ SpawnFails(q) \/ Connected(q)
    \/ Initialized(q) \/ Ask(q) \/ Answered(q) \/ StepFails(q)
    \/ ShutdownAnswered(q) \/ ShutdownFails(q) \/ Closed(q)

Timers(q) == ConnectTimeout(q) \/ Timeout(q) \/ DisconnectTimeout(q)

Server(q) == ServerStarts(q) \/ ServerDies(q) \/ ExitNoticed(q)

Next == \E q \in Queries : Provider(q) \/ Client(q) \/ Timers(q) \/ Server(q)

(* Timers run out, files are read and microtasks run; a server need not do *)
(* anything, and a query need not be made.                                 *)
Fairness ==
    \A q \in Queries :
        /\ WF_vars(DetectLanguage(q)) /\ WF_vars(GetSession(q))
        /\ WF_vars(Spawn(q)) /\ WF_vars(Ask(q))
        /\ WF_vars(ConnectTimeout(q)) /\ WF_vars(Timeout(q))
        /\ WF_vars(ShutdownFails(q)) /\ WF_vars(DisconnectTimeout(q))

Spec == Init /\ [][Next]_vars /\ Fairness

------------------------------------------------------------------------------
(* What holds.                                                             *)

(* Wherever a query fails, in the spawn, the handshake, the question or    *)
(* the shutdown, and whether its server answers, hangs, dies or ignores    *)
(* SIGTERM, the query does not return before that server has exited or has *)
(* been sent SIGKILL (the provider's finally, client.dispose and           *)
(* transport.disconnect).                                                  *)
ServersEnd == \A q \in Queries : pc[q] = "returned" => ~Running(q)

(* A query returns, with an answer or the fallback, whatever its server    *)
(* does, also when it dies without the client hearing of it, and though    *)
(* disconnect may listen for a close event that has passed; unless a write *)
(* to a dead server ends the whole process.                                *)
QueriesReturn ==
    \A q \in Queries :
        pc[q] # "idle" ~> (pc[q] = "returned" /\ answer[q] # "none") \/ ~alive

(* The inductive invariant of ServersEnd: a query has no server before it  *)
(* spawns one, and every way to the end gives it an answer first.          *)
NoServerYet ==
    \A q \in Queries :
        pc[q] \in {"idle", "detecting", "routing", "starting"} => server[q] = "none"

EndsAnswered ==
    \A q \in Queries :
        pc[q] \in {"stopping", "disconnecting", "returned"} => answer[q] # "none"

IInv == TypeOK /\ NoServerYet /\ ServersEnd /\ EndsAnswered

------------------------------------------------------------------------------
(* What is documented and does not hold.                                   *)

(* docs/lsp.md, lines 3 and 43: the providers "prefer long-lived sessions  *)
(* first", kept alive "while the current process is running": once a query *)
(* has been answered live, no other starts a server of its own.            *)
DocumentedReuse ==
    [][\A q, r \in Queries :
          pc[q] = "returned" /\ answer[q] = "live" /\ server'[r] # server[r]
              => server[r] # "none"]_vars
==============================================================================
