------------------------ MODULE BridgeSessions_proofs ------------------------
(* Proofs about BridgeSessions, for any number of clients, sessions and    *)
(* prompts.                                                                *)
EXTENDS BridgeSessions, TLAPS

(* Initially no session exists and no run is under way. *)
LEMMA InitIInv == Init => IInv
<1> SUFFICES ASSUME Init PROVE IInv
  OBVIOUS
<1>1. TypeOK
  BY DEF Init, TypeOK, Working, Active
<1>2. RunsHaveSession
  BY DEF Init, RunsHaveSession, Working, Active
<1>3. BusyHasRun
  BY DEF Init, BusyHasRun
<1>4. OneRunUntilStopped
  BY DEF Init, OneRunUntilStopped, ActiveRuns, Active
<1> QED
  BY <1>1, <1>2, <1>3, <1>4 DEF IInv

(* Every step of the bridge keeps the types. *)
LEMMA NextTypeOK == TypeOK /\ RunsHaveSession /\ [Next]_vars => TypeOK'
<1> SUFFICES ASSUME TypeOK, RunsHaveSession, [Next]_vars PROVE TypeOK'
  OBVIOUS
<1> USE DEF TypeOK, Working, Active
<1>1. ASSUME NEW c \in Connections, NEW s \in Sessions, SessionStart(c, s)
      PROVE  TypeOK'
  BY <1>1 DEF SessionStart
<1>2. ASSUME NEW c \in Connections, NEW s \in Sessions, SessionStop(c, s)
      PROVE  TypeOK'
  BY <1>2 DEF SessionStop
<1>3. ASSUME NEW c \in Connections, NEW s \in Sessions,
             NEW asked \in Sessions \cup {None}, PromptRefused(c, asked, s)
      PROVE  TypeOK'
  BY <1>3 DEF PromptRefused
<1>4. ASSUME NEW c \in Connections, NEW s \in Sessions, NEW r \in Runs,
             NEW asked \in Sessions \cup {None}, PromptAccepted(c, asked, s, r)
      PROVE  TypeOK'
  BY <1>4 DEF PromptAccepted
<1>5. ASSUME NEW c \in Connections, Close(c) PROVE TypeOK'
  BY <1>5 DEF Close
<1>6. ASSUME NEW r \in Runs, AgentStarts(r) PROVE TypeOK'
  BY <1>6 DEF AgentStarts, Tell
<1>7. ASSUME NEW r \in Runs, NEW result \in Results, AgentReturns(r, result)
      PROVE  TypeOK'
  <2>1. session[r] \in Sessions
    BY <1>7 DEF AgentReturns, RunsHaveSession
  <2>2. StatusAfter(session[r], result) \in {"idle", "stopped"}
    BY DEF StatusAfter
  <2> QED
    BY <1>7, <2>1, <2>2 DEF AgentReturns
<1>8. ASSUME NEW r \in Runs, Report(r) PROVE TypeOK'
  BY <1>8 DEF Report, Tell
<1>9. CASE UNCHANGED vars
  BY <1>9 DEF vars
<1> QED
  BY <1>1, <1>2, <1>3, <1>4, <1>5, <1>6, <1>7, <1>8, <1>9
  DEF Next, Client, Run

(* A step that leaves the runs, and what makes a session busy, alone keeps *)
(* what the invariant says of them.                                        *)
LEMMA RunsAlone ==
  ASSUME IInv, UNCHANGED <<phase, session>>, stopped \subseteq stopped',
         \A s \in Sessions : /\ status'[s] = "running" => status[s] = "running"
                             /\ s \notin stopped' /\ status[s] = "running"
                                   => status'[s] = "running"
  PROVE  RunsHaveSession' /\ BusyHasRun' /\ OneRunUntilStopped'
<1>1. \A s \in Sessions : ActiveRuns(s)' = ActiveRuns(s)
  BY DEF ActiveRuns
<1>2. RunsHaveSession'
  BY DEF IInv, RunsHaveSession
<1>3. BusyHasRun'
  BY <1>1 DEF IInv, BusyHasRun
<1>4. OneRunUntilStopped'
  BY <1>1 DEF IInv, OneRunUntilStopped
<1> QED
  BY <1>2, <1>3, <1>4

(* An accepted prompt: its session was not busy, so it had no active run   *)
(* unless it was stopped before.                                           *)
LEMMA PromptKeeps ==
  ASSUME IInv, NEW c \in Connections, NEW s \in Sessions, NEW r \in Runs,
         NEW asked \in Sessions \cup {None}, PromptAccepted(c, asked, s, r)
  PROVE  RunsHaveSession' /\ BusyHasRun' /\ OneRunUntilStopped'
<1> USE DEF IInv, TypeOK, Active, Working
<1>1. /\ ActiveRuns(s)' = ActiveRuns(s) \cup {r}
      /\ \A t \in Sessions \ {s} : ActiveRuns(t)' = ActiveRuns(t)
  BY DEF PromptAccepted, ActiveRuns
<1>2. s \notin stopped => ActiveRuns(s) = {}
  BY DEF PromptAccepted, Busy, OneRunUntilStopped
<1>3. RunsHaveSession'
  BY DEF PromptAccepted, RunsHaveSession
<1>4. BusyHasRun'
  BY <1>1 DEF PromptAccepted, BusyHasRun
<1>5. OneRunUntilStopped'
  BY <1>1, <1>2 DEF PromptAccepted, OneRunUntilStopped
<1> QED
  BY <1>3, <1>4, <1>5

(* The runner returns: the session is not busy any more, and if it was not *)
(* stopped it has no other active run.                                     *)
LEMMA ReturnKeeps ==
  ASSUME IInv, NEW r \in Runs, NEW result \in Results, AgentReturns(r, result)
  PROVE  RunsHaveSession' /\ BusyHasRun' /\ OneRunUntilStopped'
<1> USE DEF IInv, TypeOK, Active, Working
<1>1. PICK s \in Sessions : s = session[r]
  BY DEF AgentReturns, RunsHaveSession
<1>2. /\ ActiveRuns(s)' = ActiveRuns(s) \ {r}
      /\ r \in ActiveRuns(s)
      /\ \A t \in Sessions \ {s} : ActiveRuns(t)' = ActiveRuns(t)
  BY <1>1 DEF AgentReturns, ActiveRuns
<1>3. status'[s] # "running"
  BY <1>1 DEF AgentReturns, StatusAfter
<1>4. \A t \in Sessions \ {s} : status'[t] = status[t]
  BY <1>1 DEF AgentReturns
<1>5. RunsHaveSession'
  BY DEF AgentReturns, RunsHaveSession
<1>6. BusyHasRun'
  BY <1>1, <1>2, <1>3, <1>4 DEF BusyHasRun
<1>7. OneRunUntilStopped'
  <2>1. s \notin stopped => ActiveRuns(s)' = {}
    BY <1>1, <1>2 DEF OneRunUntilStopped
  <2>2. stopped' = stopped
    BY DEF AgentReturns
  <2> QED
    BY <1>1, <1>2, <1>4, <2>1, <2>2 DEF OneRunUntilStopped
<1> QED
  BY <1>5, <1>6, <1>7

(* Every step of the bridge keeps what is said of the runs. *)
LEMMA NextRuns ==
  IInv /\ [Next]_vars => RunsHaveSession' /\ BusyHasRun' /\ OneRunUntilStopped'
<1> DEFINE Kept == RunsHaveSession' /\ BusyHasRun' /\ OneRunUntilStopped'
<1> SUFFICES ASSUME IInv, [Next]_vars PROVE Kept
  OBVIOUS
<1> USE DEF IInv, TypeOK, Active, Working
<1>1. ASSUME NEW c \in Connections, NEW s \in Sessions, SessionStart(c, s)
      PROVE  Kept
  BY <1>1, RunsAlone DEF SessionStart
<1>2. ASSUME NEW c \in Connections, NEW s \in Sessions, SessionStop(c, s)
      PROVE  Kept
  BY <1>2, RunsAlone DEF SessionStop
<1>3. ASSUME NEW c \in Connections, NEW s \in Sessions,
             NEW asked \in Sessions \cup {None}, PromptRefused(c, asked, s)
      PROVE  Kept
  BY <1>3, RunsAlone DEF PromptRefused
<1>4. ASSUME NEW c \in Connections, NEW s \in Sessions, NEW r \in Runs,
             NEW asked \in Sessions \cup {None}, PromptAccepted(c, asked, s, r)
      PROVE  Kept
  BY <1>4, PromptKeeps
<1>5. ASSUME NEW c \in Connections, Close(c) PROVE Kept
  BY <1>5, RunsAlone DEF Close
<1>6. ASSUME NEW r \in Runs, AgentStarts(r) PROVE Kept
  <2>1. \A s \in Sessions : ActiveRuns(s)' = ActiveRuns(s)
    BY <1>6 DEF AgentStarts, ActiveRuns
  <2>2. RunsHaveSession'
    BY <1>6 DEF AgentStarts, RunsHaveSession
  <2> QED
    BY <1>6, <2>1, <2>2 DEF AgentStarts, BusyHasRun, OneRunUntilStopped
<1>7. ASSUME NEW r \in Runs, NEW result \in Results, AgentReturns(r, result)
      PROVE  Kept
  BY <1>7, ReturnKeeps
<1>8. ASSUME NEW r \in Runs, Report(r) PROVE Kept
  <2>1. \A s \in Sessions : ActiveRuns(s)' = ActiveRuns(s)
    BY <1>8 DEF Report, ActiveRuns
  <2>2. RunsHaveSession'
    BY <1>8 DEF Report, RunsHaveSession
  <2> QED
    BY <1>8, <2>1, <2>2 DEF Report, BusyHasRun, OneRunUntilStopped
<1>9. CASE UNCHANGED vars
  BY <1>9, RunsAlone DEF vars
<1> QED
  BY <1>1, <1>2, <1>3, <1>4, <1>5, <1>6, <1>7, <1>8, <1>9
  DEF Next, Client, Run

(* The bridge keeps IInv, and with it the types, whatever its clients do.  *)
THEOREM InductiveInvariant == Spec => []IInv
<1>1. IInv /\ [Next]_vars => IInv'
  BY NextTypeOK, NextRuns DEF IInv
<1> QED
  BY InitIInv, <1>1, PTL DEF Spec

(* A session that answers "busy" has a run under way. *)
THEOREM BusyIsWorking == Spec => []BusyHasRun
<1>1. IInv => BusyHasRun
  BY DEF IInv
<1> QED
  BY InductiveInvariant, <1>1, PTL

(* Until its first session.stop a session runs at most one prompt at a     *)
(* time, and is busy while it does.                                        *)
THEOREM OneRun == Spec => []OneRunUntilStopped
<1>1. IInv => OneRunUntilStopped
  BY DEF IInv
<1> QED
  BY InductiveInvariant, <1>1, PTL
==============================================================================
