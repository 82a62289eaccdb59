--------------------------- MODULE LspQueries_proofs ---------------------------
(***************************************************************************)
(* Proofs about LspQueries, for any number of queries.                     *)
(***************************************************************************)
EXTENDS LspQueries, TLAPS

LEMMA InitIInv == Init => IInv
BY DEF Init, IInv, TypeOK, Kinds, PcValues, ServerStates, NoServerYet, ServersEnd,
   EndsAnswered, Running

LEMMA StatusIsUsed ==
    ASSUME TypeOK, NEW q \in Queries, NEW found, UseStatus(q, found)
    PROVE  \/ pc' = [pc EXCEPT ![q] = "routing"] /\ answer' = answer
           \/ /\ pc' = [pc EXCEPT ![q] = "returned"]
              /\ answer' = [answer EXCEPT ![q] = "fallback"]
BY DEF UseStatus, Goto, Fail

(* What a query does before it has a server. *)
LEMMA ProviderKeeps ==
    ASSUME IInv, NEW q \in Queries, Provider(q)
    PROVE  IInv'
<1> USE DEF IInv, TypeOK, NoServerYet, ServersEnd, EndsAnswered, Running, PcValues, At
<1>1. CASE GetFileStatus(q) /\ status = "unknown"
  BY <1>1 DEF GetFileStatus, Goto
<1>2. ASSUME \/ GetFileStatus(q) /\ status # "unknown"
             \/ DetectLanguage(q)
      PROVE  IInv'
  <2>1. /\ UNCHANGED <<kind, server, alive>>
        /\ status' \in {"unknown", "available", "missing"}
        /\ server[q] = "none"
        /\ \/ pc' = [pc EXCEPT ![q] = "routing"] /\ answer' = answer
           \/ /\ pc' = [pc EXCEPT ![q] = "returned"]
              /\ answer' = [answer EXCEPT ![q] = "fallback"]
    BY <1>2, StatusIsUsed DEF GetFileStatus, DetectLanguage
  <2> QED
    BY <2>1
<1>3. CASE GetSession(q)
  BY <1>3 DEF GetSession, Goto
<1> QED
  BY <1>1, <1>2, <1>3 DEF Provider

(* What it does with one. *)
LEMMA ClientKeeps ==
    ASSUME IInv, NEW q \in Queries, Client(q) \/ Timers(q)
    PROVE  IInv'
<1> USE DEF IInv, TypeOK, NoServerYet, ServersEnd, EndsAnswered, Running, PcValues,
        ServerStates, At, Goto, Fail, FailAndDisconnect, Write
<1>1. CASE Spawn(q)
  BY <1>1 DEF Spawn
<1>2. CASE SpawnThrows(q)
  BY <1>2 DEF SpawnThrows
<1>3. CASE SpawnFails(q)
  BY <1>3 DEF SpawnFails
<1>4. CASE Connected(q)
  BY <1>4 DEF Connected
<1>5. CASE Initialized(q)
  BY <1>5 DEF Initialized
<1>6. CASE Ask(q)
  BY <1>6 DEF Ask
<1>7. CASE Answered(q)
  BY <1>7 DEF Answered
<1>8. CASE StepFails(q)
  BY <1>8 DEF StepFails
<1>9. CASE ShutdownAnswered(q)
  BY <1>9 DEF ShutdownAnswered
<1>10. CASE ShutdownFails(q)
  BY <1>10 DEF ShutdownFails
<1>11. CASE Closed(q)
  BY <1>11 DEF Closed
<1>12. CASE ConnectTimeout(q)
  BY <1>12 DEF ConnectTimeout
<1>13. CASE Timeout(q)
  BY <1>13 DEF Timeout
<1>14. CASE DisconnectTimeout(q)
  BY <1>14 DEF DisconnectTimeout
<1> QED
  BY <1>1, <1>2, <1>3, <1>4, <1>5, <1>6, <1>7, <1>8, <1>9, <1>10, <1>11, <1>12, <1>13, <1>14
     DEF Client, Timers

(* What the server process does: it never runs again once it was not. *)
LEMMA ServerKeeps ==
    ASSUME IInv, NEW q \in Queries, Server(q)
    PROVE  IInv'
<1>1. /\ UNCHANGED <<status, pc, kind, answer, alive>>
      /\ \E s \in {"up", "dead", "gone"} :
            /\ server' = [server EXCEPT ![q] = s]
            /\ s = "up" => server[q] = "spawning"
      /\ server[q] # "none"
  BY DEF Server, ServerStarts, ServerDies, ExitNoticed
<1> QED
  BY <1>1 DEF IInv, TypeOK, NoServerYet, ServersEnd, EndsAnswered, Running, ServerStates

(* Every step keeps the invariant. *)
LEMMA NextIInv == IInv /\ [Next]_vars => IInv'
<1>1. IInv /\ UNCHANGED vars => IInv'
  BY DEF IInv, vars, TypeOK, NoServerYet, ServersEnd, EndsAnswered, Running
<1> QED
  BY <1>1, ProviderKeeps, ClientKeeps, ServerKeeps DEF Next

(* A query has no server before it spawns one, none that runs when it      *)
(* returns, and an answer or the fallback before it winds up.              *)
THEOREM InductiveInvariant == Spec => []IInv
BY InitIInv, NextIInv, PTL DEF Spec

(* No query returns and leaves its language server running.                *)
THEOREM ServersHaveEnded == Spec => []ServersEnd
<1>1. IInv => ServersEnd
  BY DEF IInv
<1> QED
  BY <1>1, InductiveInvariant, PTL
===============================================================================
