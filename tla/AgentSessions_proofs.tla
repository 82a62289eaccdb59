------------------------- MODULE AgentSessions_proofs -------------------------
(***************************************************************************)
(* Proofs about AgentSessions, for any number of commands and any number   *)
(* of tool calls of an agent.                                              *)
(***************************************************************************)
EXTENDS AgentSessions, TLAPS

------------------------------------------------------------------------------
(* Lists of calls.                                                         *)

(* A list of calls of process q, which has made n tool calls, is in order. *)
InOrder(q, n, s) ==
    /\ s \in Seq(Calls)
    /\ q = Parent => \A i \in DOMAIN s : s[i] = "metadata"
    /\ \A i \in DOMAIN s :
          /\ s[i] = "record" => n > 0
          /\ s[i] = "kill" => i < Len(s) /\ s[i + 1] = "stop"
          /\ s[i] \in {"agent", "look"} => i = Len(s)
          /\ s[i] = "maybeStart" => i < Len(s) /\ s[i + 1] = "agent"

(* Some call of the list releases the locks in the end, if the process has *)
(* made n tool calls.                                                      *)
HasFree(n, s) == \E i \in DOMAIN s : s[i] \in Frees /\ (s[i] = "agent" => n > 0)

(* No agent is to be run. *)
NoAgent(s) == \A i \in DOMAIN s : s[i] \notin {"agent", "maybeStart", "look"}

LEMMA CallsAre ==
    Calls = {"start", "pause", "stop", "complete", "fail", "metadata", "record",
             "summary", "look", "maybeStart", "agent", "release", "remove", "kill"}
BY DEF Calls, Writes, Merges

LEMMA EmptyInOrder == ASSUME NEW q, NEW n PROVE InOrder(q, n, <<>>)
BY DEF InOrder

LEMMA ParentInOrder ==
    ASSUME NEW n, NEW s, InOrder(Parent, n, s)
    PROVE  \A m : InOrder(Parent, m, s)
BY DEF InOrder

LEMMA TailInOrder ==
    ASSUME NEW q, NEW n, NEW s, InOrder(q, n, s), s # <<>>
    PROVE  /\ InOrder(q, n, Tail(s))
           /\ Head(s) \in Calls /\ Head(s) = s[1] /\ 1 \in DOMAIN s
           /\ HasFree(n, s) /\ Head(s) \notin Frees => HasFree(n, Tail(s))
<1>1. s \in Seq(Calls)
  BY DEF InOrder
<1>2. /\ Tail(s) \in Seq(Calls) /\ Len(Tail(s)) = Len(s) - 1 /\ Len(s) \in Nat
      /\ \A i \in DOMAIN Tail(s) : i + 1 \in DOMAIN s /\ Tail(s)[i] = s[i + 1]
      /\ \A i \in DOMAIN s : i # 1 => i - 1 \in DOMAIN Tail(s) /\ Tail(s)[i - 1] = s[i]
      /\ \A i \in DOMAIN Tail(s) : i \in Nat
      /\ Head(s) \in Calls /\ Head(s) = s[1] /\ 1 \in DOMAIN s
  BY <1>1
<1>3. ASSUME NEW i \in DOMAIN Tail(s), Tail(s)[i] = "kill"
      PROVE  i < Len(Tail(s)) /\ Tail(s)[i + 1] = "stop"
  <2>1. i + 1 < Len(s) /\ s[(i + 1) + 1] = "stop"
    BY <1>2, <1>3 DEF InOrder
  <2>2. i + 1 \in DOMAIN Tail(s)
    BY <1>1, <1>2, <2>1
  <2> QED
    BY <1>2, <2>1, <2>2
<1>6. ASSUME NEW i \in DOMAIN Tail(s)
      PROVE  /\ Tail(s)[i] \in {"agent", "look"} => i = Len(Tail(s))
             /\ Tail(s)[i] = "maybeStart" =>
                   i < Len(Tail(s)) /\ Tail(s)[i + 1] = "agent"
  <2>1. i + 1 \in DOMAIN s /\ Tail(s)[i] = s[i + 1] /\ i \in Nat
    BY <1>2
  <2>2. CASE s[i + 1] \in {"agent", "look"}
    <3>1. i + 1 = Len(s) /\ s[i + 1] # "maybeStart"
      BY <2>1, <2>2 DEF InOrder
    <3> DEFINE m == Len(Tail(s))
    <3>2. m = Len(s) - 1 /\ Len(s) \in Nat
      BY <1>2
    <3> HIDE DEF m
    <3>3. i = m
      BY <2>1, <3>1, <3>2
    <3> QED
      BY <2>1, <3>1, <3>3 DEF m
  <2>3. CASE s[i + 1] = "maybeStart"
    <3>1. i + 1 < Len(s) /\ s[(i + 1) + 1] = "agent"
      BY <2>1, <2>3 DEF InOrder
    <3>2. i + 1 \in DOMAIN Tail(s)
      BY <1>1, <1>2, <2>1, <3>1
    <3>3. i < Len(Tail(s)) /\ Tail(s)[i + 1] = "agent"
      BY <1>2, <2>1, <3>1, <3>2
    <3> QED
      BY <2>1, <2>3, <3>3
  <2> QED
    BY <2>1, <2>2, <2>3
<1>4. InOrder(q, n, Tail(s))
  BY <1>2, <1>3, <1>6 DEF InOrder
<1>5. HasFree(n, s) /\ Head(s) \notin Frees => HasFree(n, Tail(s))
  BY <1>2 DEF HasFree
<1> QED
  BY <1>2, <1>4, <1>5

LEMMA ConcatInOrder ==
    ASSUME NEW q, NEW n, NEW s, NEW t, InOrder(q, n, s), InOrder(q, n, t), NoAgent(s)
    PROVE  /\ InOrder(q, n, s \o t)
           /\ HasFree(n, s) \/ HasFree(n, t) => HasFree(n, s \o t)
           /\ NoAgent(t) => NoAgent(s \o t)
<1>1. s \in Seq(Calls) /\ t \in Seq(Calls)
  BY DEF InOrder
<1> DEFINE u == s \o t
<1>2. /\ u \in Seq(Calls) /\ Len(u) = Len(s) + Len(t)
      /\ Len(s) \in Nat /\ Len(t) \in Nat
      /\ DOMAIN s = 1..Len(s) /\ DOMAIN t = 1..Len(t) /\ DOMAIN u = 1..Len(u)
      /\ \A i \in DOMAIN s : i \in DOMAIN u /\ u[i] = s[i]
      /\ \A i \in DOMAIN t : i + Len(s) \in DOMAIN u /\ u[i + Len(s)] = t[i]
      /\ \A i \in DOMAIN u : i \in DOMAIN s \/ (i - Len(s) \in DOMAIN t /\ u[i] = t[i - Len(s)])
  BY <1>1
<1>3. ASSUME NEW i \in DOMAIN u
      PROVE  /\ u[i] = "record" => n > 0
             /\ u[i] = "kill" => i < Len(u) /\ u[i + 1] = "stop"
             /\ u[i] \in {"agent", "look"} => i = Len(u)
             /\ u[i] = "maybeStart" => i < Len(u) /\ u[i + 1] = "agent"
             /\ q = Parent => u[i] = "metadata"
  <2>1. CASE i \in DOMAIN s
    <3>1. u[i] = s[i]
      BY <1>2, <2>1
    <3>2. ASSUME u[i] = "kill" PROVE i < Len(u) /\ u[i + 1] = "stop"
      <4>1. i < Len(s) /\ s[i + 1] = "stop"
        BY <2>1, <3>1, <3>2 DEF InOrder
      <4> QED
        BY <1>2, <2>1, <4>1
    <3> QED
      BY <2>1, <3>1, <3>2 DEF InOrder, NoAgent
  <2>2. CASE i \notin DOMAIN s
    <3> DEFINE j == i - Len(s)
    <3>1. j \in DOMAIN t /\ u[i] = t[j] /\ i = j + Len(s)
      BY <1>2, <2>2
    <3>2. ASSUME u[i] = "kill" PROVE i < Len(u) /\ u[i + 1] = "stop"
      <4>1. j < Len(t) /\ t[j + 1] = "stop"
        BY <3>1, <3>2 DEF InOrder
      <4>2. j + 1 \in DOMAIN t /\ (j + 1) + Len(s) = i + 1
        BY <1>2, <3>1, <4>1
      <4> QED
        BY <1>2, <3>1, <4>1, <4>2
    <3>3. ASSUME u[i] \in {"agent", "look"} PROVE i = Len(u)
      BY <1>2, <3>1, <3>3 DEF InOrder
    <3>4. ASSUME u[i] = "maybeStart" PROVE i < Len(u) /\ u[i + 1] = "agent"
      <4>1. j < Len(t) /\ t[j + 1] = "agent"
        BY <3>1, <3>4 DEF InOrder
      <4>2. j + 1 \in DOMAIN t /\ (j + 1) + Len(s) = i + 1
        BY <1>2, <3>1, <4>1
      <4> QED
        BY <1>2, <3>1, <4>1, <4>2
    <3> QED
      BY <3>1, <3>2, <3>3, <3>4 DEF InOrder
  <2> QED
    BY <2>1, <2>2
<1>4. InOrder(q, n, u)
  BY <1>2, <1>3 DEF InOrder
<1>5. HasFree(n, s) \/ HasFree(n, t) => HasFree(n, u)
  BY <1>2 DEF HasFree
<1>6. NoAgent(t) => NoAgent(u)
  BY <1>2 DEF NoAgent
<1> QED
  BY <1>4, <1>5, <1>6

LEMMA OneInOrder ==
    ASSUME NEW q, NEW n, NEW x \in Calls \ {"kill", "agent", "maybeStart", "look"},
           x = "record" => n > 0, q # Parent
    PROVE  InOrder(q, n, <<x>>) /\ (HasFree(n, <<x>>) <=> x \in Frees) /\ NoAgent(<<x>>)
BY DEF InOrder, HasFree, NoAgent

LEMMA TwoInOrder ==
    ASSUME NEW q, NEW n, NEW x \in Calls \ {"kill", "record", "agent", "maybeStart", "look"},
           NEW y \in Calls \ {"kill", "record", "agent", "maybeStart", "look"}, q # Parent
    PROVE  /\ InOrder(q, n, <<x, y>>) /\ NoAgent(<<x, y>>)
           /\ HasFree(n, <<x, y>>) <=> x \in Frees \/ y \in Frees
BY DEF InOrder, HasFree, NoAgent

LEMMA AgentInOrder ==
    ASSUME NEW q, NEW n, q # Parent
    PROVE  /\ InOrder(q, n, <<"maybeStart", "agent">>) /\ InOrder(q, n, <<"look">>)
           /\ n > 0 => HasFree(n, <<"maybeStart", "agent">>)
BY CallsAre DEF InOrder, HasFree, Frees

LEMMA KillInOrder ==
    ASSUME NEW q, NEW n, q # Parent
    PROVE  InOrder(q, n, <<"kill">> \o <<"stop">>) /\ NoAgent(<<"kill">> \o <<"stop">>)
<1> DEFINE u == <<"kill">> \o <<"stop">>
<1>1. "kill" \in Calls /\ "stop" \in Calls /\ "stop" \in Frees
  BY CallsAre DEF Frees
<1>2. u \in Seq(Calls) /\ Len(u) = 2 /\ u[1] = "kill" /\ u[2] = "stop" /\ DOMAIN u = 1..2
  BY <1>1
<1>3. NoAgent(u)
  BY <1>2 DEF NoAgent
<1>4. \A i \in DOMAIN u : u[i] = "kill" => i < Len(u) /\ u[i + 1] = "stop"
  BY <1>2
<1>5. \A i \in DOMAIN u : u[i] # "record"
  BY <1>2
<1> HIDE DEF u
<1>6. InOrder(q, n, u)
  BY <1>2, <1>3, <1>4, <1>5 DEF InOrder, NoAgent
<1> QED
  BY <1>3, <1>6 DEF u

(* The calls of the processes are in order. *)
LEMMA OrderIs ==
    ASSUME TypeOK
    PROVE  TodoInOrder <=> \A q \in Procs : InOrder(q, tools[q], todo[q])
BY DEF TodoInOrder, InOrder, TypeOK, Procs

LEMMA NullIsNoRecord == Null \notin Records
BY NullAssumption

LEMMA ParentIsNoAgent == Parent \notin Agents /\ Parent # Runner /\ Runner \notin Commands
BY AgentSessionsAssumption DEF Agents

------------------------------------------------------------------------------
(* The steps of a process.                                                 *)

Acts(q) ==
    \/ StoreCall(q)
    \/ Crash(q)
    \/ q = Runner /\ WorkerLooks
    \/ q \in Agents /\ AgentRun(q)
    \/ /\ q \in Commands
       /\ PauseCommand(q) \/ ResumeCommand(q) \/ StopCommand(q) \/ DeleteCommand(q)

LEMMA NextActs ==
    ASSUME Next
    PROVE  (\E q \in Procs : Acts(q)) \/ (\E c \in Commands : KillWorker(c))
BY DEF Next, Acts, Command, Procs, Agents

(* The steps that may give up what was to release the locks. *)
Loses(q) ==
    \/ Release(q) \/ Crash(q)
    \/ disk = Null /\ (LoadAndChange(q) \/ WorkerLooks)

Gives(q, s) ==
    /\ todo' = [todo EXCEPT ![q] = s]
    /\ InOrder(q, tools'[q], s)
    /\ HasFree(tools[q], todo[q]) => HasFree(tools'[q], s) \/ Loses(q) \/ left'

(* The calls that a step leaves to its process. *)
LEMMA StoreCallGives ==
    ASSUME TypeOK, TodoInOrder, WindowsSave, NEW q \in Procs, StoreCall(q)
    PROVE  \E s : Gives(q, s)
<1> DEFINE t == todo[q]
<1>1. InOrder(q, tools[q], t) /\ todo = [todo EXCEPT ![q] = t]
  BY OrderIs DEF TypeOK
<1>2. ASSUME t # <<>>
      PROVE  /\ InOrder(q, tools[q], Tail(t))
             /\ Call(q) = t[1] /\ 1 \in DOMAIN t
             /\ HasFree(tools[q], t) /\ Call(q) \notin Frees => HasFree(tools[q], Tail(t))
  BY <1>1, <1>2, TailInOrder DEF Call
<1>3. tools' = tools
  BY DEF StoreCall, LoadAndChange, LoadAndMerge, LoadAgain, BeginWrite, EndWrite, Release, Remove
<1>4. CASE UNCHANGED todo
  <2>1. Gives(q, t)
    BY <1>1, <1>3, <1>4 DEF Gives
  <2> QED
    BY <2>1
<1>5. CASE LoadAndChange(q) /\ disk = Null
  <2> DEFINE s == IF Call(q) = "stop" THEN <<>> ELSE Tail(t)
  <2>1. t # <<>> /\ Goto(q, s)
    BY <1>5 DEF LoadAndChange, AtCall, Load
  <2>2. InOrder(q, tools[q], s)
    BY <1>2, <2>1, EmptyInOrder
  <2>3. Gives(q, s)
    BY <1>3, <1>5, <2>1, <2>2 DEF Gives, Loses, Goto
  <2> QED
    BY <2>3
<1>6. CASE (LoadAndMerge(q) \/ LoadAgain(q)) /\ disk = Null
  <2>1. t # <<>> /\ Goto(q, Tail(t)) /\ Call(q) \notin Frees
    BY <1>6 DEF LoadAndMerge, LoadAgain, AtCall, Load, WindowsSave, Merges, Frees
  <2>2. Gives(q, Tail(t))
    BY <1>2, <1>3, <2>1 DEF Gives, Goto
  <2> QED
    BY <2>2
<1>7. CASE EndWrite(q)
  <2> DEFINE h == IF Releases(Call(q)) THEN <<"release">> ELSE <<>>
  <2>1. /\ t # <<>> /\ Call(q) \in Writes \cup Merges
        /\ todo' = [todo EXCEPT ![q] = h \o Tail(t)]
    BY <1>7 DEF EndWrite, Goto, WindowsSave
  <2>2. InOrder(q, tools[q], h) /\ NoAgent(h) /\ (Releases(Call(q)) => HasFree(tools[q], h))
    <3>1. CASE Releases(Call(q))
      <4>1. q # Parent
        BY <1>1, <1>2, <2>1, <3>1 DEF InOrder, Releases
      <4>2. "release" \in Calls \ {"kill", "agent", "maybeStart", "look"} /\ "release" \in Frees
        BY CallsAre DEF Frees
      <4> QED
        BY <3>1, <4>1, <4>2, OneInOrder
    <3>2. CASE ~Releases(Call(q))
      BY <3>2, EmptyInOrder DEF NoAgent
    <3> QED
      BY <3>1, <3>2
  <2>3. InOrder(q, tools[q], h \o Tail(t))
        /\ (HasFree(tools[q], h) \/ HasFree(tools[q], Tail(t)) => HasFree(tools[q], h \o Tail(t)))
    BY <1>2, <2>1, <2>2, ConcatInOrder
  <2>4. ~Releases(Call(q)) => Call(q) \notin Frees
    BY <2>1 DEF Releases, Frees, Writes, Merges
  <2>5. HasFree(tools[q], t) => HasFree(tools[q], h \o Tail(t))
    BY <1>2, <2>1, <2>2, <2>3, <2>4
  <2> HIDE DEF h
  <2>6. Gives(q, h \o Tail(t))
    BY <1>3, <2>1, <2>3, <2>5 DEF Gives
  <2> QED
    BY <2>6
<1>8. CASE Release(q)
  <2>1. t # <<>> /\ Goto(q, Tail(t))
    BY <1>8 DEF Release, AtCall
  <2>2. Gives(q, Tail(t))
    BY <1>2, <1>3, <1>8, <2>1 DEF Gives, Goto, Loses
  <2> QED
    BY <2>2
<1>9. CASE Remove(q)
  <2>1. t # <<>> /\ Goto(q, Tail(t)) /\ Call(q) \notin Frees
    BY <1>9 DEF Remove, AtCall, Frees
  <2>2. Gives(q, Tail(t))
    BY <1>2, <1>3, <2>1 DEF Gives, Goto
  <2> QED
    BY <2>2
<1> QED
  BY <1>4, <1>5, <1>6, <1>7, <1>8, <1>9
     DEF StoreCall, LoadAndChange, LoadAndMerge, LoadAgain, BeginWrite, Load

LEMMA AgentGives ==
    ASSUME TypeOK, TodoInOrder, NEW q \in Agents,
           AgentRun(q) \/ (q = Runner /\ WorkerLooks)
    PROVE  \E s : Gives(q, s)
<1> DEFINE t == todo[q]
<1>0. q \in Procs /\ q # Parent
  BY ParentIsNoAgent DEF Procs
<1>1. InOrder(q, tools[q], t)
  BY <1>0, OrderIs
<1>2. ASSUME t # <<>>
      PROVE  /\ InOrder(q, tools[q], Tail(t))
             /\ Call(q) = t[1] /\ 1 \in DOMAIN t
             /\ HasFree(tools[q], t) /\ Call(q) \notin Frees => HasFree(tools[q], Tail(t))
  BY <1>1, <1>2, TailInOrder DEF Call
<1>3. /\ InOrder(q, tools[q], <<"start">>) /\ NoAgent(<<"start">>)
      /\ InOrder(q, tools[q], <<>>) /\ NoAgent(<<>>)
      /\ InOrder(q, tools[q], <<"maybeStart", "agent">>)
      /\ InOrder(q, tools[q], <<"complete", "release">>)
      /\ HasFree(tools[q], <<"complete", "release">>)
      /\ InOrder(q, tools[q], <<"fail", "release">>) /\ HasFree(tools[q], <<"fail", "release">>)
      /\ InOrder(q, tools[q], <<"fail">>) /\ HasFree(tools[q], <<"fail">>) /\ NoAgent(<<"fail">>)
      /\ \A e \in {"fail", "complete"} :
            /\ InOrder(q, tools[q], <<"summary", e>>) /\ NoAgent(<<"summary", e>>)
            /\ HasFree(tools[q], <<"summary", e>>)
  <2>1. InOrder(q, tools[q], <<>>) /\ NoAgent(<<>>)
    BY EmptyInOrder DEF NoAgent
  <2> QED
    BY <1>0, <2>1, OneInOrder, TwoInOrder, AgentInOrder, CallsAre DEF Frees
(* Before its first tool call an agent has nothing to release. *)
<1>8. ASSUME t # <<>>, Call(q) \in {"look", "maybeStart", "agent"}, ~(tools[q] > 0)
      PROVE  ~HasFree(tools[q], t)
  <2>1. t \in Seq(Calls) /\ t[1] = Call(q) /\ 1 \in DOMAIN t /\ DOMAIN t = 1..Len(t)
    BY <1>1, <1>2, <1>8 DEF InOrder
  <2>2. CASE Call(q) \in {"look", "agent"}
    <3>1. DOMAIN t = 1..1
      BY <1>1, <2>1, <2>2 DEF InOrder
    <3> QED
      BY <1>8, <2>1, <2>2, <3>1 DEF HasFree, Frees
  <2>3. CASE Call(q) = "maybeStart"
    <3>1. 1 < Len(t) /\ t[2] = "agent" /\ Len(t) \in Nat
      BY <1>1, <2>1, <2>3 DEF InOrder
    <3>2. 2 \in DOMAIN t
      BY <2>1, <3>1
    <3>3. Len(t) = 2
      BY <1>1, <3>1, <3>2 DEF InOrder
    <3> QED
      BY <1>8, <2>1, <2>3, <3>1, <3>3 DEF HasFree, Frees
  <2> QED
    BY <1>8, <2>2, <2>3
<1>4. CASE q = Runner /\ WorkerLooks
  <2> DEFINE h == IF disk.status = "queued" THEN <<"start">> ELSE <<>>
  <2>1. tools' = tools
    BY <1>4 DEF WorkerLooks
  <2>2. CASE disk = Null
    <3>1. todo' = [todo EXCEPT ![q] = <<>>]
      BY <1>4, <2>2 DEF WorkerLooks, Goto
    <3>2. Gives(q, <<>>)
      BY <1>3, <1>4, <2>1, <2>2, <3>1 DEF Gives, Loses
    <3> QED
      BY <3>2
  <2>3. CASE disk # Null
    <3>1. todo' = [todo EXCEPT ![q] = h \o <<"maybeStart", "agent">>]
      BY <1>4, <2>3 DEF WorkerLooks, Goto
    <3>2. InOrder(q, tools[q], h) /\ NoAgent(h)
      BY <1>3
    <3>3. /\ InOrder(q, tools[q], h \o <<"maybeStart", "agent">>)
          /\ HasFree(tools[q], t) => HasFree(tools[q], h \o <<"maybeStart", "agent">>)
      <4>1. HasFree(tools[q], t) => tools[q] > 0
        BY <1>4, <1>8 DEF WorkerLooks, AtCall
      <4>2. HasFree(tools[q], t) => HasFree(tools[q], <<"maybeStart", "agent">>)
        BY <1>0, <4>1, AgentInOrder
      <4> QED
        BY <1>3, <3>2, <4>2, ConcatInOrder
    <3> HIDE DEF h
    <3>4. Gives(q, h \o <<"maybeStart", "agent">>)
      BY <2>1, <3>1, <3>3 DEF Gives
    <3> QED
      BY <3>4
  <2> QED
    BY <2>2, <2>3
<1>5. CASE MaybeStart(q)
  <2> DEFINE h == IF disk # Null /\ disk.status = "queued" THEN <<"start">> ELSE <<>>
  <2>1. /\ tools' = tools /\ t # <<>> /\ Call(q) \notin Frees
        /\ todo' = [todo EXCEPT ![q] = h \o Tail(t)]
    BY <1>5 DEF MaybeStart, AtCall, Goto, Frees
  <2>2. InOrder(q, tools[q], h) /\ NoAgent(h)
    BY <1>3
  <2>3. InOrder(q, tools[q], h \o Tail(t)) /\ (HasFree(tools[q], Tail(t)) => HasFree(tools[q], h \o Tail(t)))
    BY <1>2, <2>1, <2>2, ConcatInOrder
  <2> HIDE DEF h
  <2>4. Gives(q, h \o Tail(t))
    BY <1>2, <2>1, <2>3 DEF Gives
  <2> QED
    BY <2>4
<1>6. CASE AgentTool(q)
  <2>1. /\ todo' = [todo EXCEPT ![q] = <<"record">> \o t] /\ tools'[q] = tools[q] + 1
        /\ tools[q] \in Nat
    BY <1>6 DEF AgentTool, Goto, TypeOK
  <2>2. InOrder(q, tools'[q], t)
    BY <1>1, <2>1 DEF InOrder
  <2>3. InOrder(q, tools'[q], <<"record">>) /\ NoAgent(<<"record">>)
    BY <1>0, <2>1, OneInOrder, CallsAre
  <2>4. HasFree(tools'[q], t)
    BY <1>2, <1>6, <2>1 DEF HasFree, Frees, AgentTool, AtCall
  <2>5. InOrder(q, tools'[q], <<"record">> \o t) /\ HasFree(tools'[q], <<"record">> \o t)
    BY <2>2, <2>3, <2>4, ConcatInOrder
  <2>6. Gives(q, <<"record">> \o t)
    BY <2>1, <2>5 DEF Gives
  <2> QED
    BY <2>6
<1>7. CASE AgentEnds(q)
  <2>1. tools' = tools
    BY <1>7 DEF AgentEnds
  <2>2. ASSUME NEW a, NEW b, todo' = [todo EXCEPT ![q] = a \o b],
               InOrder(q, tools[q], a), NoAgent(a), HasFree(tools[q], a),
               InOrder(q, tools[q], b)
        PROVE  Gives(q, a \o b)
    <3>1. InOrder(q, tools[q], a \o b) /\ HasFree(tools[q], a \o b)
      BY <2>2, ConcatInOrder
    <3> QED
      BY <2>1, <2>2, <3>1 DEF Gives
  <2>3. ASSUME NEW errors \in BOOLEAN, Goto(q, AfterLoop(q, errors))
        PROVE  \E s : Gives(q, s)
    <3> DEFINE a == <<"summary", IF errors THEN "fail" ELSE "complete">>
               b == IF IsWorker(q) THEN <<"complete", "release">> ELSE <<>>
    <3>1. /\ InOrder(q, tools[q], a) /\ NoAgent(a) /\ HasFree(tools[q], a)
          /\ InOrder(q, tools[q], b)
      BY <1>3
    <3>2. todo' = [todo EXCEPT ![q] = a \o b]
      BY <2>3 DEF Goto, AfterLoop
    <3> HIDE DEF a, b
    <3>3. Gives(q, a \o b)
      BY <2>2, <3>1, <3>2
    <3> QED
      BY <3>3
  <2>4. ASSUME Goto(q, AfterThrow(q))
        PROVE  \E s : Gives(q, s)
    <3> DEFINE a == <<"fail">>
               b == IF IsWorker(q) THEN <<"fail", "release">> ELSE <<>>
    <3>1. /\ InOrder(q, tools[q], a) /\ NoAgent(a) /\ HasFree(tools[q], a)
          /\ InOrder(q, tools[q], b)
      BY <1>3
    <3>2. todo' = [todo EXCEPT ![q] = a \o b]
      BY <2>4 DEF Goto, AfterThrow
    <3> HIDE DEF a, b
    <3>3. Gives(q, a \o b)
      BY <2>2, <3>1, <3>2
    <3> QED
      BY <3>3
  <2>5. ASSUME Goto(q, AfterEarlyReturn(q)), left' = (left \/ (~IsWorker(q) /\ tools[q] > 0))
        PROVE  Gives(q, AfterEarlyReturn(q))
    <3>1. todo' = [todo EXCEPT ![q] = AfterEarlyReturn(q)]
      BY <2>5 DEF Goto
    <3>2. CASE IsWorker(q)
      BY <1>3, <2>1, <3>1, <3>2 DEF AfterEarlyReturn, Gives
    <3>3. CASE ~IsWorker(q)
      <4>1. HasFree(tools[q], t) => left'
        BY <1>7, <1>8, <2>5, <3>3 DEF AgentEnds, AtCall
      <4> QED
        BY <1>3, <2>1, <3>1, <3>3, <4>1 DEF AfterEarlyReturn, Gives
    <3> QED
      BY <3>2, <3>3
  <2> QED
    BY <1>7, <2>3, <2>4, <2>5 DEF AgentEnds
<1>9. CASE AgentRejects(q)
  <2> DEFINE s == IF IsWorker(q) THEN <<"fail", "release">> ELSE <<>>
  <2>1. /\ tools' = tools /\ todo' = [todo EXCEPT ![q] = s]
        /\ ~HasFree(tools[q], t)
    BY <1>8, <1>9 DEF AgentRejects, AtCall, Goto
  <2>2. InOrder(q, tools[q], s)
    BY <1>3
  <2> HIDE DEF s
  <2>3. Gives(q, s)
    BY <2>1, <2>2 DEF Gives
  <2> QED
    BY <2>3
<1> QED
  BY <1>4, <1>5, <1>6, <1>7, <1>9 DEF AgentRun

LEMMA CommandGives ==
    ASSUME TypeOK, TodoInOrder, NEW q \in Commands,
           PauseCommand(q) \/ ResumeCommand(q) \/ StopCommand(q) \/ DeleteCommand(q)
    PROVE  \E s : Gives(q, s)
<1>1. q # Parent /\ ~HasFree(tools[q], todo[q]) /\ tools' = tools
  <2>1. todo[q] = <<>> /\ tools' = tools
    BY DEF PauseCommand, ResumeCommand, StopCommand, DeleteCommand, Fresh
  <2>2. ~HasFree(tools[q], <<>>)
    BY DEF HasFree
  <2> QED
    BY <2>1, <2>2, ParentIsNoAgent DEF Agents
<1>2. ASSUME NEW s, todo' = [todo EXCEPT ![q] = s], InOrder(q, tools[q], s)
      PROVE  Gives(q, s)
  BY <1>1, <1>2 DEF Gives
<1>3. /\ InOrder(q, tools[q], <<"pause">>) /\ InOrder(q, tools[q], <<"stop">>)
      /\ InOrder(q, tools[q], <<"release">>) /\ InOrder(q, tools[q], <<>>)
      /\ InOrder(q, tools[q], <<"maybeStart", "agent">>)
      /\ InOrder(q, tools[q], <<"release", "remove">>)
      /\ InOrder(q, tools[q], <<"kill">> \o <<"stop">>)
      /\ NoAgent(<<"kill">> \o <<"stop">>) /\ NoAgent(<<"stop">>) /\ NoAgent(<<>>)
  <2>1. NoAgent(<<>>) /\ InOrder(q, tools[q], <<>>)
    BY EmptyInOrder DEF NoAgent
  <2> QED
    BY <1>1, <2>1, OneInOrder, TwoInOrder, KillInOrder, AgentInOrder, CallsAre
<1>4. CASE PauseCommand(q)
  <2>1. Gives(q, <<"pause">>)
    BY <1>2, <1>3, <1>4 DEF PauseCommand, Goto
  <2> QED
    BY <2>1
<1>5. CASE ResumeCommand(q)
  <2>1. Gives(q, <<"maybeStart", "agent">>)
    BY <1>2, <1>3, <1>5 DEF ResumeCommand, Goto
  <2> QED
    BY <2>1
<1>6. CASE DeleteCommand(q)
  <2>1. Gives(q, <<"release", "remove">>)
    BY <1>2, <1>3, <1>6 DEF DeleteCommand, Goto
  <2> QED
    BY <2>1
<1>7. CASE StopCommand(q)
  <2> DEFINE h == IF disk.pid /\ disk.status = "running" THEN <<"kill">> ELSE <<>>
             r == IF disk.work # {} THEN <<"release">> ELSE <<>>
             s == (h \o <<"stop">>) \o r
  <2>1. todo' = [todo EXCEPT ![q] = s]
    BY <1>7 DEF StopCommand, Goto
  <2>2. InOrder(q, tools[q], h \o <<"stop">>) /\ NoAgent(h \o <<"stop">>)
    <3>1. CASE h = <<"kill">>
      BY <1>3, <3>1
    <3>2. CASE h = <<>>
      BY <1>3, <3>2, ConcatInOrder
    <3> QED
      BY <3>1, <3>2
  <2>3. InOrder(q, tools[q], r)
    BY <1>3
  <2> HIDE DEF h, r
  <2>4. InOrder(q, tools[q], s)
    BY <2>2, <2>3, ConcatInOrder
  <2> HIDE DEF s
  <2>5. Gives(q, s)
    BY <1>2, <2>1, <2>4
  <2> QED
    BY <2>5
<1> QED
  BY <1>4, <1>5, <1>6, <1>7

LEMMA ActsGive ==
    ASSUME TypeOK, TodoInOrder, WindowsSave, NEW q \in Procs, Acts(q)
    PROVE  \E s : Gives(q, s)
<1>1. CASE Crash(q)
  <2>1. Gives(q, <<>>)
    BY <1>1, EmptyInOrder DEF Crash, Goto, Gives, Loses
  <2> QED
    BY <2>1
<1>2. CASE q = Runner /\ WorkerLooks
  BY <1>2, AgentGives DEF Agents
<1> QED
  BY <1>1, <1>2, StoreCallGives, AgentGives, CommandGives DEF Acts

(* A step but for the signal is of one process alone. *)
LEMMA ActsAlone ==
    ASSUME TypeOK, NEW q \in Procs, Acts(q), NEW r \in Procs, r # q
    PROVE  /\ pc'[r] = pc[r] /\ copy'[r] = copy[r] /\ merged'[r] = merged[r]
           /\ r # Parent => tools'[r] = tools[r]
<1> USE DEF TypeOK, Goto, Step, Procs
<1>1. CASE LoadAndChange(q) \/ LoadAndMerge(q) \/ LoadAgain(q)
  BY <1>1 DEF LoadAndChange, LoadAndMerge, LoadAgain
<1>2. CASE BeginWrite(q) \/ EndWrite(q) \/ Release(q) \/ Remove(q)
  BY <1>2 DEF BeginWrite, EndWrite, Release, Remove
<1>3. CASE Crash(q)
  BY <1>3 DEF Crash, Dies
<1>4. CASE WorkerLooks \/ MaybeStart(q) \/ AgentEnds(q) \/ AgentRejects(q)
  BY <1>4 DEF WorkerLooks, MaybeStart, AgentEnds, AgentRejects
<1>5. CASE AgentTool(q)
  BY <1>5 DEF AgentTool
<1>6. CASE PauseCommand(q) \/ ResumeCommand(q) \/ StopCommand(q) \/ DeleteCommand(q)
  BY <1>6 DEF PauseCommand, ResumeCommand, StopCommand, DeleteCommand
<1> QED
  BY <1>1, <1>2, <1>3, <1>4, <1>5, <1>6 DEF Acts, StoreCall, AgentRun

(* The lists of calls stay in order. *)
LEMMA TodoKeeps ==
    ASSUME TypeOK, TodoInOrder, WindowsSave, Next
    PROVE  /\ todo' \in [Procs -> Seq(Calls)]
           /\ tools' \in [Agents -> 0..MaxTools]
           /\ \A q \in Procs : InOrder(q, tools'[q], todo'[q])
<1>1. \A q \in Procs : InOrder(q, tools[q], todo[q])
  BY OrderIs
<1>2. todo \in [Procs -> Seq(Calls)]
  BY DEF TypeOK
<1>3. ASSUME NEW q \in Procs, Acts(q)
      PROVE  /\ todo' \in [Procs -> Seq(Calls)]
             /\ \A r \in Procs : InOrder(r, tools'[r], todo'[r])
  <2>1. PICK s : Gives(q, s)
    BY <1>3, ActsGive
  <2>2. s \in Seq(Calls) /\ todo' = [todo EXCEPT ![q] = s]
    BY <2>1 DEF Gives, InOrder
  <2>3. \A r \in Procs \ {q} : (r # Parent => tools'[r] = tools[r]) /\ todo'[r] = todo[r]
    BY <1>3, <2>2, ActsAlone DEF TypeOK
  <2>4. InOrder(q, tools'[q], todo'[q])
    BY <1>2, <2>1, <2>2 DEF Gives
  <2>5. \A r \in Procs \ {q} : InOrder(r, tools'[r], todo'[r])
    BY <1>1, <2>3, ParentInOrder
  <2> QED
    BY <1>2, <2>2, <2>4, <2>5
<1>4. ASSUME NEW c \in Commands, KillWorker(c)
      PROVE  /\ todo' \in [Procs -> Seq(Calls)]
             /\ \A r \in Procs : InOrder(r, tools'[r], todo'[r])
  <2>1. c \in Procs /\ Runner \in Procs /\ c # Runner
    BY ParentIsNoAgent DEF Procs, Agents
  <2>2. /\ todo' = [todo EXCEPT ![c] = Tail(@), ![Runner] = <<>>]
        /\ todo[c] # <<>> /\ tools' = tools
    BY <1>4 DEF KillWorker, AtCall
  <2>3. InOrder(c, tools[c], Tail(todo[c]))
    BY <1>1, <2>1, <2>2, TailInOrder
  <2>4. /\ todo'[c] = Tail(todo[c]) /\ todo'[Runner] = <<>>
        /\ \A r \in Procs \ {c, Runner} : todo'[r] = todo[r]
    BY <1>2, <2>1, <2>2
  <2>5. \A r \in Procs : InOrder(r, tools'[r], todo'[r])
    BY <1>1, <2>2, <2>3, <2>4, EmptyInOrder
  <2>6. todo' \in [Procs -> Seq(Calls)]
    <3>1. Tail(todo[c]) \in Seq(Calls) /\ <<>> \in Seq(Calls)
      BY <2>3 DEF InOrder
    <3> QED
      BY <1>2, <2>1, <2>2, <3>1
  <2> QED
    BY <2>5, <2>6
<1>5. tools' \in [Agents -> 0..MaxTools]
  <2>1. ASSUME NEW r \in Agents, AgentTool(r)
        PROVE  tools' \in [Agents -> 0..MaxTools]
    <3>1. tools[r] + 1 \in 0..MaxTools
      BY <2>1, AgentSessionsAssumption DEF AgentTool, TypeOK
    <3> QED
      BY <2>1, <3>1 DEF AgentTool, TypeOK
  <2>2. CASE UNCHANGED tools
    BY <2>2 DEF TypeOK
  <2> QED
    BY <2>1, <2>2 DEF Next, StoreCall, Crash, WorkerLooks, AgentRun, Command, LoadAndChange,
       LoadAndMerge, LoadAgain, BeginWrite, EndWrite, Release, Remove, MaybeStart, AgentEnds,
       AgentRejects, PauseCommand, ResumeCommand, StopCommand, DeleteCommand, KillWorker
<1> QED
  BY <1>3, <1>4, <1>5, NextActs

(* What calls change and add.                                              *)
LEMMA ChangedTyped ==
    ASSUME NEW rec \in Records, NEW call \in Writes
    PROVE  /\ Changed(call, rec) \in Records
           /\ Changed(call, rec).work = rec.work
           /\ rec.pid \/ call = "metadata" => Changed(call, rec).pid
           /\ rec.error \/ call = "fail" => Changed(call, rec).error
<1> USE DEF Changed, Records, Statuses
<1>1. CASE call = "start"
  BY <1>1
<1>2. CASE call = "pause"
  BY <1>2
<1>3. CASE call = "stop"
  BY <1>3
<1>4. CASE call = "complete"
  BY <1>4
<1>5. CASE call = "fail"
  BY <1>5
<1>6. CASE call = "metadata"
  BY <1>6
<1> QED
  BY <1>1, <1>2, <1>3, <1>4, <1>5, <1>6 DEF Writes

LEMMA NewWorkTyped ==
    ASSUME TypeOK, TodoInOrder, NEW q \in Procs, todo[q] # <<>>, Call(q) \in Merges
    PROVE  q \in Agents /\ NewWork(q) \subseteq WorkItems
<1>1. InOrder(q, tools[q], todo[q]) /\ Call(q) = todo[q][1] /\ 1 \in DOMAIN todo[q]
  BY OrderIs, TailInOrder DEF Call
<1>2. q # Parent
  BY <1>1 DEF InOrder, Merges
<1>3. q \in Agents /\ tools[q] \in 0..MaxTools
  BY <1>2 DEF Procs, TypeOK
<1>4. CASE Call(q) = "record"
  <2>1. tools[q] > 0
    BY <1>1, <1>4 DEF InOrder
  <2>2. tools[q] \in 1..MaxTools
    BY <1>3, <2>1, AgentSessionsAssumption
  <2> QED
    BY <1>3, <1>4, <2>2 DEF NewWork, WorkItems
<1>5. CASE Call(q) # "record"
  <2>1. \A i \in 1..tools[q] : i \in 1..MaxTools
    BY <1>3, AgentSessionsAssumption
  <2> QED
    BY <1>3, <1>5, <2>1 DEF NewWork, WorkItems
<1> QED
  BY <1>3, <1>4, <1>5

(* Types are kept by every step. *)
LEMMA StoreCallTypes ==
    ASSUME TypeOK, TodoInOrder, WindowsSave, NEW q \in Procs, StoreCall(q)
    PROVE  /\ disk' \in Records \cup {Null}
           /\ holds' \in BOOLEAN
           /\ pc' \in [Procs -> {"ready", "merged", "saving", "writing"}]
           /\ copy' \in [Procs -> Records \cup {Null}]
           /\ merged' \in [Procs -> SUBSET WorkItems]
           /\ saved' \in [pid : BOOLEAN, error : BOOLEAN, work : SUBSET WorkItems]
<1> USE DEF TypeOK, Step
<1>1. CASE LoadAndChange(q)
  <2>1. disk # Null => Changed(Call(q), disk) \in Records
    BY <1>1, ChangedTyped DEF LoadAndChange, AtCall
  <2>2. copy' \in [Procs -> Records \cup {Null}]
    BY <1>1, <2>1 DEF LoadAndChange, Load
  <2>3. pc' \in [Procs -> {"ready", "merged", "saving", "writing"}]
    BY <1>1 DEF LoadAndChange
  <2> QED
    BY <1>1, <2>2, <2>3 DEF LoadAndChange
<1>2. CASE LoadAndMerge(q)
  <2>1. disk # Null => disk.work \cup NewWork(q) \subseteq WorkItems
    BY <1>2, NewWorkTyped DEF LoadAndMerge, AtCall, Records
  <2>2. merged' \in [Procs -> SUBSET WorkItems]
    BY <1>2, <2>1 DEF LoadAndMerge, Load
  <2>3. pc' \in [Procs -> {"ready", "merged", "saving", "writing"}]
    BY <1>2 DEF LoadAndMerge
  <2> QED
    BY <1>2, <2>2, <2>3 DEF LoadAndMerge
<1>3. CASE LoadAgain(q)
  <2>1. disk # Null => [disk EXCEPT !.work = merged[q]] \in Records
    BY DEF Records
  <2>2. copy' \in [Procs -> Records \cup {Null}]
    BY <1>3, <2>1 DEF LoadAgain, Load
  <2>3. pc' \in [Procs -> {"ready", "merged", "saving", "writing"}]
    BY <1>3 DEF LoadAgain
  <2>4. merged' \in [Procs -> SUBSET WorkItems]
    BY <1>3 DEF LoadAgain
  <2> QED
    BY <1>3, <2>2, <2>3, <2>4 DEF LoadAgain
<1>4. CASE BeginWrite(q)
  BY <1>4 DEF BeginWrite
<1>5. CASE EndWrite(q)
  <2>1. /\ todo[q] # <<>> /\ copy[q] \in Records
        /\ Call(q) \in Merges => NewWork(q) \subseteq WorkItems
    BY <1>5, NewWorkTyped DEF EndWrite, WindowsSave
  <2>2. disk' \in Records \cup {Null}
    BY <1>5, <2>1 DEF EndWrite
  <2>3. saved' \in [pid : BOOLEAN, error : BOOLEAN, work : SUBSET WorkItems]
    <3>1. /\ (saved.pid \/ Call(q) = "metadata") \in BOOLEAN
          /\ (saved.error \/ Call(q) = "fail") \in BOOLEAN
      OBVIOUS
    <3> QED
      BY <1>5, <2>1 DEF EndWrite
  <2>4. pc' \in [Procs -> {"ready", "merged", "saving", "writing"}]
        /\ copy' \in [Procs -> Records \cup {Null}]
    BY <1>5 DEF EndWrite
  <2> QED
    BY <1>5, <2>2, <2>3, <2>4 DEF EndWrite
<1>6. CASE Release(q) \/ Remove(q)
  BY <1>6 DEF Release, Remove
<1> QED
  BY <1>1, <1>2, <1>3, <1>4, <1>5, <1>6 DEF StoreCall

LEMMA HistoryTypes ==
    ASSUME TypeOK, Next
    PROVE  calm' \in BOOLEAN /\ crashed' \in BOOLEAN /\ deleted' \in BOOLEAN
           /\ left' \in BOOLEAN
<1> USE DEF TypeOK
<1>1. ASSUME NEW q \in Procs, StoreCall(q) \/ Crash(q)
      PROVE  calm' \in BOOLEAN /\ crashed' \in BOOLEAN /\ deleted' \in BOOLEAN
             /\ left' \in BOOLEAN
  BY <1>1 DEF StoreCall, LoadAndChange, LoadAndMerge, LoadAgain, BeginWrite, EndWrite,
     Release, Remove, Crash
<1>2. ASSUME WorkerLooks
      PROVE  calm' \in BOOLEAN /\ crashed' \in BOOLEAN /\ deleted' \in BOOLEAN
             /\ left' \in BOOLEAN
  BY <1>2 DEF WorkerLooks
<1>3. ASSUME NEW r \in Agents, AgentRun(r)
      PROVE  calm' \in BOOLEAN /\ crashed' \in BOOLEAN /\ deleted' \in BOOLEAN
             /\ left' \in BOOLEAN
  BY <1>3 DEF AgentRun, MaybeStart, AgentTool, AgentEnds, AgentRejects
<1>4. ASSUME NEW c \in Commands, Command(c)
      PROVE  calm' \in BOOLEAN /\ crashed' \in BOOLEAN /\ deleted' \in BOOLEAN
             /\ left' \in BOOLEAN
  BY <1>4 DEF Command, PauseCommand, ResumeCommand, StopCommand, DeleteCommand, KillWorker
<1> QED
  BY <1>1, <1>2, <1>3, <1>4 DEF Next

LEMMA TypeKeeps ==
    ASSUME TypeOK, TodoInOrder, WindowsSave, Next
    PROVE  TypeOK' /\ TodoInOrder'
<1> DEFINE TypesOf ==
      /\ disk' \in Records \cup {Null}
      /\ holds' \in BOOLEAN /\ background' \in BOOLEAN
      /\ pc' \in [Procs -> {"ready", "merged", "saving", "writing"}]
      /\ copy' \in [Procs -> Records \cup {Null}]
      /\ merged' \in [Procs -> SUBSET WorkItems]
      /\ saved' \in [pid : BOOLEAN, error : BOOLEAN, work : SUBSET WorkItems]
<1>1. TypesOf
  <2> USE DEF TypeOK
  <2>1. background' = background
    BY DEF Next, StoreCall, Crash, WorkerLooks, AgentRun, Command, LoadAndChange,
       LoadAndMerge, LoadAgain, BeginWrite, EndWrite, Release, Remove, MaybeStart, AgentTool,
       AgentEnds, AgentRejects, PauseCommand, ResumeCommand, StopCommand, DeleteCommand, KillWorker
  <2>2. ASSUME NEW q \in Procs, StoreCall(q) PROVE TypesOf
    BY <2>1, <2>2, StoreCallTypes
  <2>3. ASSUME NEW q \in Procs, Crash(q) PROVE TypesOf
    BY <2>1, <2>3 DEF Crash, Dies
  <2>4. CASE WorkerLooks
    BY <2>1, <2>4 DEF WorkerLooks
  <2>5. ASSUME NEW r \in Agents, AgentRun(r) PROVE TypesOf
    BY <2>1, <2>5 DEF AgentRun, MaybeStart, AgentTool, AgentEnds, AgentRejects
  <2>6. ASSUME NEW c \in Commands, Command(c) PROVE TypesOf
    BY <2>1, <2>6 DEF Command, PauseCommand, ResumeCommand, StopCommand, DeleteCommand,
       KillWorker, Dies
  <2> QED
    BY <2>2, <2>3, <2>4, <2>5, <2>6 DEF Next
<1>2. TypeOK'
  BY <1>1, TodoKeeps, HistoryTypes DEF TypeOK
<1> QED
  BY <1>2, TodoKeeps DEF TodoInOrder, InOrder, Procs

------------------------------------------------------------------------------
(* Windows.                                                                *)

(* The steps after which their process is in its window. *)
Opens(q) ==
    \/ disk # Null /\ (LoadAndChange(q) \/ LoadAndMerge(q) \/ LoadAgain(q))
    \/ BeginWrite(q)

LEMMA WindowCloses ==
    ASSUME TypeOK, NEW q \in Procs, Acts(q), ~Opens(q)
    PROVE  pc'[q] = "ready"
<1> USE DEF TypeOK, Step, AtCall, Load
<1>1. CASE StoreCall(q)
  BY <1>1 DEF StoreCall, Opens, LoadAndChange, LoadAndMerge, LoadAgain, EndWrite, Release, Remove
<1>2. CASE Crash(q)
  BY <1>2 DEF Crash, Dies
<1>3. CASE q = Runner /\ WorkerLooks
  BY <1>3 DEF WorkerLooks
<1>4. CASE AgentRun(q)
  BY <1>4 DEF AgentRun, MaybeStart, AgentTool, AgentEnds, AgentRejects
<1>5. CASE PauseCommand(q) \/ ResumeCommand(q) \/ StopCommand(q) \/ DeleteCommand(q)
  BY <1>5 DEF PauseCommand, ResumeCommand, StopCommand, DeleteCommand, Fresh
<1> QED
  BY <1>1, <1>2, <1>3, <1>4, <1>5 DEF Acts

LEMMA WindowOpens ==
    ASSUME TypeOK, WindowsSave, NEW q \in Procs, Opens(q)
    PROVE  /\ todo' = todo /\ todo[q] # <<>> /\ tools' = tools
           /\ saved' = saved /\ deleted' = deleted
           /\ \/ /\ pc'[q] = "merged" /\ Call(q) \in Merges /\ disk' = disk
                 /\ merged'[q] = disk.work \cup NewWork(q)
                 /\ pc[q] = "ready" /\ disk # Null
              \/ /\ pc'[q] = "saving" /\ Call(q) \in Writes /\ disk' = disk
                 /\ copy'[q] = Changed(Call(q), disk)
                 /\ pc[q] = "ready" /\ disk # Null
              \/ /\ pc'[q] = "saving" /\ Call(q) \in Merges /\ disk' = disk
                 /\ copy'[q] = [disk EXCEPT !.work = merged[q]]
                 /\ pc[q] = "merged" /\ disk # Null
              \/ /\ pc'[q] = "writing" /\ Call(q) \in Writes \cup Merges /\ disk' = Null
                 /\ copy'[q] = copy[q] /\ copy[q] # Null /\ pc[q] = "saving"
<1> USE DEF TypeOK, Step, AtCall, Load
<1>1. CASE disk # Null /\ LoadAndChange(q)
  BY <1>1 DEF LoadAndChange
<1>2. CASE disk # Null /\ LoadAndMerge(q)
  BY <1>2 DEF LoadAndMerge
<1>3. CASE disk # Null /\ LoadAgain(q)
  BY <1>3 DEF LoadAgain, WindowsSave
<1>4. CASE BeginWrite(q)
  BY <1>4 DEF BeginWrite, WindowsSave
<1> QED
  BY <1>1, <1>2, <1>3, <1>4 DEF Opens

LEMMA TodoOfOthers ==
    ASSUME TypeOK, TodoInOrder, WindowsSave, NEW q \in Procs, Acts(q), NEW r \in Procs, r # q
    PROVE  todo'[r] = todo[r]
<1>1. PICK s : Gives(q, s)
  BY ActsGive
<1> QED
  BY <1>1 DEF Gives, TypeOK

(* What the signal to the worker does to the processes. *)
LEMMA KillDoes ==
    ASSUME TypeOK, NEW c \in Commands, KillWorker(c)
    PROVE  /\ c \in Procs /\ Runner \in Procs /\ c # Runner
           /\ pc[c] = "ready" /\ pc'[c] = "ready" /\ pc'[Runner] = "ready"
           /\ todo[c] # <<>> /\ Call(c) = "kill"
           /\ todo'[c] = Tail(todo[c]) /\ todo'[Runner] = <<>>
           /\ \A r \in Procs \ {c, Runner} :
                 /\ pc'[r] = pc[r] /\ copy'[r] = copy[r]
                 /\ merged'[r] = merged[r] /\ todo'[r] = todo[r]
           /\ tools' = tools
<1>1. c \in Procs /\ Runner \in Procs /\ c # Runner
  BY ParentIsNoAgent DEF Procs, Agents
<1> QED
  BY <1>1 DEF KillWorker, Dies, AtCall, TypeOK

(* A call in its window goes on to be one that saves. *)
LEMMA WindowsKeep ==
    ASSUME TypeOK, TodoInOrder, WindowsSave, Next
    PROVE  WindowsSave'
<1>1. ASSUME NEW q \in Procs, Acts(q)
      PROVE  WindowsSave'
  <2>1. \A r \in Procs \ {q} :
           pc'[r] = pc[r] /\ copy'[r] = copy[r] /\ todo'[r] = todo[r]
    BY <1>1, ActsAlone, TodoOfOthers
  <2>2. CASE Opens(q)
    <3>1. Call(q) \in Writes /\ disk # Null => Changed(Call(q), disk) # Null
      BY ChangedTyped, NullIsNoRecord DEF TypeOK
    <3>2. disk # Null => [disk EXCEPT !.work = merged[q]] # Null
      <4>1. disk # Null => [disk EXCEPT !.work = merged[q]] \in Records
        BY DEF TypeOK, Records
      <4> QED
        BY <4>1, NullIsNoRecord
    <3>3. /\ pc'[q] = "merged" => todo'[q] # <<>> /\ Head(todo'[q]) \in Merges
          /\ pc'[q] \in {"saving", "writing"} =>
                /\ todo'[q] # <<>> /\ Head(todo'[q]) \in Writes \cup Merges
                /\ copy'[q] # Null
      BY <2>2, <3>1, <3>2, WindowOpens DEF Call
    <3> QED
      BY <2>1, <3>3 DEF WindowsSave, Call
  <2>3. CASE ~Opens(q)
    BY <1>1, <2>1, <2>3, WindowCloses DEF WindowsSave, Call
  <2> QED
    BY <2>2, <2>3
<1>2. ASSUME NEW c \in Commands, KillWorker(c)
      PROVE  WindowsSave'
  BY <1>2, KillDoes DEF WindowsSave, Call
<1> QED
  BY <1>1, <1>2, NextActs

------------------------------------------------------------------------------
(* Undisturbed store calls.                                                *)

(* What holds of the record as long as no store call was disturbed. *)
Whole ==
    /\ disk # Null =>
          /\ saved.pid => disk.pid
          /\ saved.error => disk.error
          /\ saved.work \subseteq disk.work
    /\ deleted => disk = Null
    /\ OneInWindow /\ WindowsFollow /\ GoneWhileWritten

LEMMA WholeIs ==
    (calm => Whole) <=>
       /\ CalmKeepsUpdates /\ CalmDelete
       /\ calm => OneInWindow /\ WindowsFollow /\ GoneWhileWritten
BY DEF Whole, CalmKeepsUpdates, CalmDelete

(* The record, and what is saved in it, are left alone, and each window is *)
(* as it was or was closed before its write.                               *)
LEMMA QuietKeeps ==
    ASSUME TypeOK, TodoInOrder, WindowsSave, Whole,
           UNCHANGED <<disk, saved, deleted>>,
           \A r \in Procs :
              \/ pc'[r] = "ready" /\ pc[r] # "writing"
              \/ /\ pc'[r] = pc[r] /\ copy'[r] = copy[r] /\ merged'[r] = merged[r]
                 /\ todo'[r] = todo[r] /\ (r # Parent => tools'[r] = tools[r])
    PROVE  Whole'
<1>1. \A r \in Procs : InWindow(r)' =>
         /\ InWindow(r)
         /\ pc'[r] = pc[r] /\ copy'[r] = copy[r] /\ merged'[r] = merged[r]
         /\ todo'[r] = todo[r] /\ (r # Parent => tools'[r] = tools[r])
  BY DEF InWindow
<1>2. OneInWindow'
  BY <1>1 DEF Whole, OneInWindow
<1>3. GoneWhileWritten'
  BY DEF Whole, GoneWhileWritten
<1>4. ASSUME NEW r \in Procs, InWindow(r)'
      PROVE  /\ Call(r)' = Call(r)
             /\ Call(r) \in Merges => NewWork(r)' = NewWork(r)
  <2>1. todo'[r] = todo[r] /\ (r # Parent => tools'[r] = tools[r]) /\ todo[r] # <<>>
    BY <1>1, <1>4 DEF InWindow, WindowsSave, TypeOK
  <2>2. Call(r) \in Merges => r # Parent
    BY <2>1, NewWorkTyped, ParentIsNoAgent
  <2> QED
    BY <2>1, <2>2 DEF NewWork, Call
<1>5. WindowsFollow'
  <2> SUFFICES ASSUME NEW r \in Procs, InWindow(r)'
               PROVE  /\ ~deleted' /\ (disk' = Null <=> pc'[r] = "writing")
                      /\ pc'[r] = "merged" => saved'.work \cup NewWork(r)' \subseteq merged'[r]
                      /\ pc'[r] \in {"saving", "writing"} =>
                            /\ saved'.pid \/ Call(r)' = "metadata" => copy'[r].pid
                            /\ saved'.error \/ Call(r)' = "fail" => copy'[r].error
                            /\ saved'.work \subseteq copy'[r].work
                            /\ Call(r)' \in Merges => NewWork(r)' \subseteq copy'[r].work
    BY DEF WindowsFollow, InWindow
  <2>1. pc[r] = "merged" => Call(r) \in Merges
    BY DEF WindowsSave
  <2> QED
    BY <1>1, <1>4, <2>1 DEF Whole, WindowsFollow
<1> QED
  BY <1>2, <1>3, <1>5 DEF Whole

(* Another's window is open only while no store call starts. *)
LEMMA Alone ==
    ASSUME TypeOK, NEW q \in Procs, calm => Whole, calm',
           \/ LoadAndChange(q) \/ LoadAndMerge(q) \/ LoadAgain(q)
           \/ BeginWrite(q) \/ EndWrite(q) \/ Remove(q)
    PROVE  calm /\ Whole /\ \A r \in Procs \ {q} : pc[r] = "ready"
<1>1. CASE LoadAndChange(q) \/ LoadAndMerge(q) \/ LoadAgain(q) \/ Remove(q)
  <2>1. calm' = (calm /\ ~Overlapped(q))
    BY <1>1 DEF LoadAndChange, LoadAndMerge, LoadAgain, Remove
  <2> QED
    BY <2>1 DEF Overlapped, InWindow
<1>2. CASE BeginWrite(q) \/ EndWrite(q)
  <2>1. calm /\ pc[q] # "ready"
    BY <1>2 DEF BeginWrite, EndWrite
  <2> QED
    BY <2>1 DEF Whole, OneInWindow, InWindow
<1> QED
  BY <1>1, <1>2

(* One window is open after the step, and its record follows. *)
LEMMA OneOpenKeeps ==
    ASSUME NEW q \in Procs, \A r \in Procs \ {q} : pc'[r] = "ready",
           disk' = Null => deleted' \/ pc'[q] = "writing",
           disk' # Null =>
              /\ saved'.pid => disk'.pid
              /\ saved'.error => disk'.error
              /\ saved'.work \subseteq disk'.work,
           deleted' => disk' = Null,
           pc'[q] # "ready" =>
              /\ ~deleted' /\ (disk' = Null <=> pc'[q] = "writing")
              /\ pc'[q] = "merged" => saved'.work \cup NewWork(q)' \subseteq merged'[q]
              /\ pc'[q] \in {"saving", "writing"} =>
                    /\ saved'.pid \/ Call(q)' = "metadata" => copy'[q].pid
                    /\ saved'.error \/ Call(q)' = "fail" => copy'[q].error
                    /\ saved'.work \subseteq copy'[q].work
                    /\ Call(q)' \in Merges => NewWork(q)' \subseteq copy'[q].work
    PROVE  Whole'
<1>1. OneInWindow' /\ GoneWhileWritten'
  BY DEF OneInWindow, GoneWhileWritten, InWindow
<1>2. WindowsFollow'
  BY DEF WindowsFollow, InWindow
<1> QED
  BY <1>1, <1>2 DEF Whole

LEMMA OpensKeeps ==
    ASSUME TypeOK, TodoInOrder, WindowsSave, NEW q \in Procs, Acts(q), Opens(q),
           Whole, \A r \in Procs \ {q} : pc[r] = "ready"
    PROVE  Whole'
<1>1. \A r \in Procs \ {q} : pc'[r] = "ready"
  BY ActsAlone
<1>2. /\ todo' = todo /\ tools' = tools /\ saved' = saved /\ deleted' = deleted
      /\ Call(q)' = Call(q) /\ NewWork(q)' = NewWork(q)
  BY WindowOpens DEF Call, NewWork
<1>3. pc[q] # "ready" => ~deleted /\ (disk = Null <=> pc[q] = "writing")
  BY DEF Whole, WindowsFollow, InWindow
<1>4. disk # Null => disk \in Records /\ ~deleted
  BY DEF TypeOK, Whole
<1>5. CASE /\ pc'[q] = "merged" /\ Call(q) \in Merges /\ disk' = disk
           /\ merged'[q] = disk.work \cup NewWork(q)
           /\ pc[q] = "ready" /\ disk # Null
  <2>1. saved'.work \cup NewWork(q)' \subseteq merged'[q]
    BY <1>2, <1>5 DEF Whole
  <2> QED
    BY <1>1, <1>2, <1>4, <1>5, <2>1, OneOpenKeeps DEF Whole
<1>6. CASE /\ pc'[q] = "saving" /\ Call(q) \in Writes /\ disk' = disk
           /\ copy'[q] = Changed(Call(q), disk)
           /\ pc[q] = "ready" /\ disk # Null
  <2>1. /\ copy'[q].work = disk.work
        /\ disk.pid \/ Call(q) = "metadata" => copy'[q].pid
        /\ disk.error \/ Call(q) = "fail" => copy'[q].error
    BY <1>4, <1>6, ChangedTyped
  <2>2. Call(q) \notin Merges
    BY <1>6 DEF Writes, Merges
  <2> QED
    BY <1>1, <1>2, <1>4, <1>6, <2>1, <2>2, OneOpenKeeps DEF Whole
<1>7. CASE /\ pc'[q] = "saving" /\ Call(q) \in Merges /\ disk' = disk
           /\ copy'[q] = [disk EXCEPT !.work = merged[q]]
           /\ pc[q] = "merged" /\ disk # Null
  <2>1. copy'[q].work = merged[q] /\ copy'[q].pid = disk.pid /\ copy'[q].error = disk.error
    BY <1>4, <1>7 DEF Records
  <2>2. saved.work \cup NewWork(q) \subseteq merged[q]
    BY <1>7 DEF Whole, WindowsFollow
  <2>3. Call(q) # "metadata" /\ Call(q) # "fail"
    BY <1>7 DEF Merges
  <2> QED
    BY <1>1, <1>2, <1>4, <1>7, <2>1, <2>2, <2>3, OneOpenKeeps DEF Whole
<1>8. CASE /\ pc'[q] = "writing" /\ Call(q) \in Writes \cup Merges /\ disk' = Null
           /\ copy'[q] = copy[q] /\ copy[q] # Null /\ pc[q] = "saving"
  <2>1. /\ saved.pid \/ Call(q) = "metadata" => copy[q].pid
        /\ saved.error \/ Call(q) = "fail" => copy[q].error
        /\ saved.work \subseteq copy[q].work
        /\ Call(q) \in Merges => NewWork(q) \subseteq copy[q].work
    BY <1>8 DEF Whole, WindowsFollow
  <2> QED
    BY <1>1, <1>2, <1>3, <1>8, <2>1, OneOpenKeeps
<1> QED
  BY <1>5, <1>6, <1>7, <1>8, WindowOpens

LEMMA EndWriteKeeps ==
    ASSUME TypeOK, TodoInOrder, WindowsSave, NEW q \in Procs, EndWrite(q),
           Whole, \A r \in Procs \ {q} : pc[r] = "ready"
    PROVE  Whole'
<1>1. pc[q] = "writing" /\ ~deleted /\ disk = Null /\ copy[q] # Null
  BY DEF EndWrite, Whole, WindowsFollow, WindowsSave, InWindow
<1>2. pc' = [pc EXCEPT ![q] = "ready"] /\ deleted' = deleted /\ disk' = copy[q]
  BY <1>1 DEF EndWrite, Step
<1>3. \A r \in Procs : pc'[r] = "ready"
  BY <1>2 DEF TypeOK
<1>4. /\ saved.pid \/ Call(q) = "metadata" => copy[q].pid
      /\ saved.error \/ Call(q) = "fail" => copy[q].error
      /\ saved.work \subseteq copy[q].work
      /\ Call(q) \in Merges => NewWork(q) \subseteq copy[q].work
  BY <1>1 DEF Whole, WindowsFollow
<1>5. /\ saved'.pid => copy[q].pid
      /\ saved'.error => copy[q].error
      /\ saved'.work \subseteq copy[q].work
  BY <1>4 DEF EndWrite
<1> QED
  BY <1>1, <1>2, <1>3, <1>5, OneOpenKeeps

LEMMA RemoveKeeps ==
    ASSUME TypeOK, NEW q \in Procs, Remove(q), \A r \in Procs \ {q} : pc[r] = "ready"
    PROVE  Whole'
<1>1. disk' = Null /\ deleted' /\ \A r \in Procs : pc'[r] = "ready"
  BY DEF Remove, AtCall
<1> QED
  BY <1>1, OneOpenKeeps

(* The other steps leave the record, and every window but their own. *)
LEMMA OthersAreQuiet ==
    ASSUME TypeOK, NEW q \in Procs, Acts(q), ~Opens(q), ~EndWrite(q), ~Remove(q)
    PROVE  /\ UNCHANGED <<disk, saved, deleted>>
           /\ calm' => calm
           /\ \/ pc[q] = "ready"
              \/ LoadAgain(q) /\ pc[q] = "merged"
              \/ Crash(q) /\ (calm' => pc[q] # "writing")
<1> USE DEF TypeOK, Step, AtCall, Load
<1>1. CASE StoreCall(q)
  BY <1>1 DEF StoreCall, Opens, LoadAndChange, LoadAndMerge, LoadAgain, Release
<1>2. CASE Crash(q)
  BY <1>2 DEF Crash, Dies
<1>3. CASE q = Runner /\ WorkerLooks
  BY <1>3 DEF WorkerLooks
<1>4. CASE AgentRun(q)
  BY <1>4 DEF AgentRun, MaybeStart, AgentTool, AgentEnds, AgentRejects
<1>5. CASE PauseCommand(q) \/ ResumeCommand(q) \/ StopCommand(q) \/ DeleteCommand(q)
  BY <1>5 DEF PauseCommand, ResumeCommand, StopCommand, DeleteCommand, Fresh
<1> QED
  BY <1>1, <1>2, <1>3, <1>4, <1>5 DEF Acts

LEMMA WholeKeeps ==
    ASSUME TypeOK, TodoInOrder, WindowsSave, calm => Whole, Next, calm'
    PROVE  Whole'
<1>1. ASSUME NEW q \in Procs, Acts(q)
      PROVE  Whole'
  <2>1. CASE Opens(q)
    <3>1. Whole /\ \A r \in Procs \ {q} : pc[r] = "ready"
      BY <2>1, Alone DEF Opens
    <3> QED
      BY <1>1, <2>1, <3>1, OpensKeeps
  <2>2. CASE EndWrite(q)
    BY <2>2, Alone, EndWriteKeeps
  <2>3. CASE Remove(q)
    BY <2>3, Alone, RemoveKeeps
  <2>4. CASE ~Opens(q) /\ ~EndWrite(q) /\ ~Remove(q)
    <3>1. /\ UNCHANGED <<disk, saved, deleted>> /\ calm /\ Whole
          /\ pc[q] # "writing"
      BY <1>1, <2>4, OthersAreQuiet
    <3>2. pc'[q] = "ready"
      BY <1>1, <2>4, WindowCloses
    <3>3. \A r \in Procs \ {q} :
             /\ pc'[r] = pc[r] /\ copy'[r] = copy[r] /\ merged'[r] = merged[r]
             /\ todo'[r] = todo[r] /\ (r # Parent => tools'[r] = tools[r])
      BY <1>1, ActsAlone, TodoOfOthers
    <3> QED
      BY <3>1, <3>2, <3>3, QuietKeeps
  <2> QED
    BY <2>1, <2>2, <2>3, <2>4
<1>2. ASSUME NEW c \in Commands, KillWorker(c)
      PROVE  Whole'
  <2>1. /\ UNCHANGED <<disk, saved, deleted>> /\ calm /\ Whole
        /\ pc[Runner] # "writing"
    BY <1>2 DEF KillWorker
  <2>2. \A r \in Procs :
           \/ pc'[r] = "ready" /\ pc[r] # "writing"
           \/ /\ pc'[r] = pc[r] /\ copy'[r] = copy[r] /\ merged'[r] = merged[r]
              /\ todo'[r] = todo[r] /\ (r # Parent => tools'[r] = tools[r])
    BY <1>2, <2>1, KillDoes
  <2> QED
    BY <2>1, <2>2, QuietKeeps
<1> QED
  BY <1>1, <1>2, NextActs

------------------------------------------------------------------------------
(* Locks.                                                                  *)

LEMMA HeldIs == HeldIsFreed <=> (holds => \E q \in Procs : HasFree(tools[q], todo[q]))
BY DEF HeldIsFreed, HasFree

(* A call finds no record only if the session was deleted or another call  *)
(* is at its write.                                                        *)
LEMMA NullIsDisturbed ==
    ASSUME TypeOK, calm => Whole, ~deleted, NEW q \in Procs, disk = Null,
           LoadAndChange(q) \/ (q = Runner /\ WorkerLooks)
    PROVE  ~calm'
<1>1. pc[q] = "ready" /\ calm' = (calm /\ ~Overlapped(q))
  BY DEF LoadAndChange, WorkerLooks, AtCall
<1>2. ASSUME calm PROVE Overlapped(q)
  <2>1. PICK r \in Procs : pc[r] = "writing"
    BY <1>2 DEF Whole, GoneWhileWritten
  <2> QED
    BY <1>1, <2>1 DEF Overlapped, InWindow
<1> QED
  BY <1>1, <1>2

LEMMA HeldKeeps ==
    ASSUME TypeOK, TodoInOrder, WindowsSave, calm => Whole,
           calm /\ ~deleted /\ ~crashed /\ ~left => HeldIsFreed,
           Next, calm', ~deleted', ~crashed', ~left'
    PROVE  HeldIsFreed'
<1>1. ASSUME NEW q \in Procs, Acts(q), holds'
      PROVE  \E r \in Procs : HasFree(tools'[r], todo'[r])
  <2>1. PICK s : Gives(q, s)
    BY <1>1, ActsGive
  <2>2. todo'[q] = s /\ \A r \in Procs \ {q} : todo'[r] = todo[r]
    BY <2>1 DEF Gives, TypeOK
  <2>3. calm /\ ~deleted /\ ~crashed /\ ~left
    <3>1. CASE Crash(q)
      BY <3>1 DEF Crash
    <3>2. CASE StoreCall(q)
      BY <1>1, <3>2 DEF StoreCall, LoadAndChange, LoadAndMerge, LoadAgain, BeginWrite, EndWrite,
         Release, Remove, TypeOK
    <3>3. CASE WorkerLooks
      BY <3>3 DEF WorkerLooks
    <3>4. CASE AgentRun(q)
      BY <3>4 DEF AgentRun, MaybeStart, AgentTool, AgentEnds, AgentRejects, TypeOK
    <3>5. CASE PauseCommand(q) \/ ResumeCommand(q) \/ StopCommand(q) \/ DeleteCommand(q)
      BY <3>5 DEF PauseCommand, ResumeCommand, StopCommand, DeleteCommand, TypeOK
    <3> QED
      BY <1>1, <3>1, <3>2, <3>3, <3>4, <3>5 DEF Acts
  <2>4. ~Loses(q)
    <3>1. ~Release(q)
      BY <1>1 DEF Release
    <3>2. ~Crash(q)
      BY DEF Crash
    <3>3. disk = Null => ~LoadAndChange(q) /\ ~WorkerLooks
      <4>1. WorkerLooks /\ disk = Null => FALSE
        BY <2>3, NullIsDisturbed DEF Procs, Agents
      <4> QED
        BY <2>3, <4>1, NullIsDisturbed
    <3> QED
      BY <3>1, <3>2, <3>3 DEF Loses
  <2>5. HasFree(tools[q], todo[q]) => HasFree(tools'[q], todo'[q])
    BY <2>1, <2>2, <2>4 DEF Gives
  <2>6. ASSUME NEW r \in Procs, HasFree(tools[r], todo[r])
        PROVE  \E u \in Procs : HasFree(tools'[u], todo'[u])
    <3>1. r # Parent
      <4>1. InOrder(r, tools[r], todo[r])
        BY OrderIs
      <4> QED
        BY <2>6, <4>1 DEF InOrder, HasFree, Frees
    <3>2. CASE r = q
      BY <2>5, <2>6, <3>2
    <3>3. CASE r # q
      <4>1. tools'[r] = tools[r] /\ todo'[r] = todo[r]
        BY <1>1, <2>2, <3>1, <3>3, ActsAlone
      <4> QED
        BY <2>6, <4>1
    <3> QED
      BY <3>2, <3>3
  <2>7. CASE holds
    BY <2>3, <2>6, <2>7, HeldIs
  <2>8. CASE AgentTool(q)
    <3>1. todo[q] # <<>> /\ Head(todo[q]) = "agent" /\ todo'[q] = <<"record">> \o todo[q]
      BY <2>8 DEF AgentTool, AtCall, Call, Goto, TypeOK
    <3>2. todo[q] \in Seq(Calls) /\ todo[q][1] = "agent" /\ Len(todo[q]) >= 1
      BY <3>1 DEF TypeOK
    <3>3. 2 \in DOMAIN todo'[q] /\ todo'[q][2] = "agent"
      BY <3>1, <3>2
    <3>4. tools'[q] > 0
      <4>1. q \in Agents
        <5>1. InOrder(q, tools[q], todo[q]) /\ 1 \in DOMAIN todo[q]
          BY <3>2, OrderIs
        <5> QED
          BY <3>2, <5>1 DEF InOrder, Procs
      <4> QED
        BY <2>8, <4>1, AgentSessionsAssumption DEF AgentTool, TypeOK
    <3> QED
      BY <3>3, <3>4 DEF HasFree, Frees
  <2>9. CASE ~holds /\ ~AgentTool(q)
    <3>1. ~holds'
      BY <1>1, <2>9 DEF Acts, StoreCall, Crash, AgentRun, LoadAndChange, LoadAndMerge, LoadAgain,
         BeginWrite, EndWrite, Release, Remove, WorkerLooks, MaybeStart, AgentEnds,
         AgentRejects, PauseCommand,
         ResumeCommand, StopCommand, DeleteCommand
    <3> QED
      BY <1>1, <3>1
  <2> QED
    BY <2>7, <2>8, <2>9
<1>2. ASSUME NEW c \in Commands, KillWorker(c)
      PROVE  \E r \in Procs : HasFree(tools'[r], todo'[r])
  <2>1. /\ c \in Procs /\ todo[c] # <<>> /\ Head(todo[c]) = "kill"
        /\ todo'[c] = Tail(todo[c])
    BY <1>2, KillDoes DEF Call
  <2>2. InOrder(c, tools[c], todo[c])
    BY <2>1, OrderIs
  <2>3. todo[c] \in Seq(Calls) /\ 1 < Len(todo[c]) /\ todo[c][2] = "stop"
    BY <2>1, <2>2, TailInOrder DEF InOrder
  <2>4. 1 \in DOMAIN Tail(todo[c]) /\ Tail(todo[c])[1] = "stop"
    BY <2>3
  <2> QED
    BY <2>1, <2>4 DEF HasFree, Frees
<1>3. HeldIsFreed' <=> (holds' => \E q \in Procs : HasFree(tools'[q], todo'[q]))
  BY DEF HeldIsFreed, HasFree
<1> QED
  BY <1>1, <1>2, <1>3, NextActs

------------------------------------------------------------------------------
(* The invariant.                                                          *)

LEMMA IInvIs ==
    IInv <=> /\ TypeOK /\ TodoInOrder /\ WindowsSave
             /\ calm => Whole
             /\ calm /\ ~deleted /\ ~crashed /\ ~left => HeldIsFreed
BY WholeIs DEF IInv

LEMMA InitIInv == Init => IInv
<1> SUFFICES ASSUME Init PROVE IInv
  OBVIOUS
<1>1. PICK run \in BOOLEAN :
        todo = [q \in Procs |->
                  CASE q = Parent /\ background -> <<"metadata">>
                    [] q = Runner /\ background -> <<"look">>
                    [] q = Runner /\ run -> <<"maybeStart", "agent">>
                    [] OTHER -> <<>>]
  BY DEF Init
<1>2. ASSUME NEW q \in Procs
      PROVE  /\ todo[q] \in {<<"metadata">>, <<"look">>, <<"maybeStart", "agent">>, <<>>}
             /\ q = Parent => todo[q] \in {<<"metadata">>, <<>>}
  BY <1>1, ParentIsNoAgent
<1>3. ASSUME NEW q \in Procs, NEW n
      PROVE  InOrder(q, n, todo[q])
  <2>1. q # Parent => /\ InOrder(q, n, <<"look">>)
                      /\ InOrder(q, n, <<"maybeStart", "agent">>)
    BY AgentInOrder
  <2>2. InOrder(q, n, <<>>)
    BY EmptyInOrder
  <2>3. InOrder(q, n, <<"metadata">>)
    BY CallsAre DEF InOrder
  <2> QED
    BY <1>2, <2>1, <2>2, <2>3
<1>4. NewRecord \in Records /\ NewRecord # Null
  <2>1. NewRecord \in Records
    BY DEF NewRecord, Records, Statuses
  <2> QED
    BY <2>1, NullIsNoRecord
<1>5. todo \in [Procs -> Seq(Calls)]
  <2>1. \A q \in Procs : todo[q] \in Seq(Calls)
    BY <1>3 DEF InOrder
  <2> QED
    BY <1>1, <2>1
<1>6. TypeOK
  <2>1. 0 \in 0..MaxTools
    BY AgentSessionsAssumption
  <2> QED
    BY <1>4, <1>5, <2>1 DEF Init, TypeOK
<1>7. TodoInOrder
  BY <1>3, <1>6, OrderIs
<1>8. \A q \in Procs : pc[q] = "ready"
  BY DEF Init
<1>9. WindowsSave
  BY <1>8 DEF WindowsSave
<1>10. Whole
  BY <1>4, <1>8 DEF Init, Whole, OneInWindow, WindowsFollow, GoneWhileWritten, InWindow, NewRecord
<1>11. HeldIsFreed
  BY DEF Init, HeldIsFreed
<1> QED
  BY <1>6, <1>7, <1>9, <1>10, <1>11, IInvIs

(* Every step keeps the invariant. *)
LEMMA NextIInv == IInv /\ [Next]_vars => IInv'
<1>1. ASSUME IInv, Next PROVE IInv'
  <2>1. /\ TypeOK /\ TodoInOrder /\ WindowsSave /\ (calm => Whole)
        /\ (calm /\ ~deleted /\ ~crashed /\ ~left => HeldIsFreed)
    BY <1>1, IInvIs
  <2>2. TypeOK' /\ TodoInOrder' /\ WindowsSave'
    BY <1>1, <2>1, TypeKeeps, WindowsKeep
  <2>3. calm' => Whole'
    BY <1>1, <2>1, WholeKeeps
  <2>4. calm' /\ ~deleted' /\ ~crashed' /\ ~left' => HeldIsFreed'
    BY <1>1, <2>1, HeldKeeps
  <2> QED
    BY <2>2, <2>3, <2>4 DEF IInv, Whole, CalmKeepsUpdates, CalmDelete
<1>2. ASSUME IInv, UNCHANGED vars PROVE IInv'
  BY <1>2 DEF IInv, vars, TypeOK, TodoInOrder, WindowsSave, CalmKeepsUpdates, CalmDelete,
     OneInWindow, WindowsFollow, GoneWhileWritten, HeldIsFreed, InWindow, Call, NewWork
<1> QED
  BY <1>1, <1>2

(* The inductive invariant of the session's life: the lists of store calls *)
(* are in order, and while no call was disturbed one process at a time is  *)
(* between a load and its save, its copy of the record has everything that *)
(* was saved, and whatever lock is held will be released.                  *)
THEOREM InductiveInvariant == Spec => []IInv
BY InitIInv, NextIInv, PTL DEF Spec

(* What setStatus, update and updateSession have saved into a record stays *)
(* there as long as no store call was disturbed, whichever commands, agent *)
(* runs, signals and crashes there were in between.                        *)
THEOREM UpdatesAreKept == Spec => []CalmKeepsUpdates
<1>1. IInv => CalmKeepsUpdates
  BY DEF IInv
<1> QED
  BY <1>1, InductiveInvariant, PTL

(* A session that session delete removed stays removed as long as no store *)
(* call was disturbed: an agent that is still running writes no record.    *)
THEOREM DeletedStaysDeleted == Spec => []CalmDelete
<1>1. IInv => CalmDelete
  BY DEF IInv
<1> QED
  BY <1>1, InductiveInvariant, PTL

(* When all processes of an undisturbed session that was not deleted are   *)
(* at their end, none crashed and no foreground agent that used tools      *)
(* returned early since the last release, the session holds no lock.       *)
THEOREM QuietReleasesLocks == Spec => []QuietReleases
<1>1. IInv => QuietReleases
  <2> SUFFICES ASSUME IInv, calm, ~deleted, ~crashed, ~left, Quiet PROVE ~holds
    BY DEF QuietReleases
  <2>1. \A q \in Procs : ~HasFree(tools[q], todo[q])
    BY DEF Quiet, HasFree
  <2> QED
    BY <2>1, HeldIs DEF IInv
<1> QED
  BY <1>1, InductiveInvariant, PTL
===============================================================================
