---------------------------- MODULE BgTasks_proofs ----------------------------
(***************************************************************************)
(* Proofs about BgTasks, for any number of processes that stop and resume  *)
(* the task.                                                               *)
(***************************************************************************)
EXTENDS BgTasks, FiniteSetTheorems, TLAPS

------------------------------------------------------------------------------
(* The calls of a process.                                                 *)

LEMMA CallsTyped ==
    ASSUME TypeOK, NEW p \in Procs, todo[p] # <<>>
    PROVE  /\ Call(p) \in Calls /\ Call(p) = todo[p][1] /\ 1 \in DOMAIN todo[p]
           /\ Tail(todo[p]) \in Seq(Calls)
           /\ \A i \in DOMAIN Tail(todo[p]) :
                 i + 1 \in DOMAIN todo[p] /\ Tail(todo[p])[i] = todo[p][i + 1]
<1>1. todo[p] \in Seq(Calls)
  BY DEF TypeOK
<1> QED
  BY <1>1 DEF Call

LEMMA RunCallsTyped ==
    ASSUME TypeOK
    PROVE  /\ RunCalls \in Seq(Calls) /\ RunCalls # <<>>
           /\ 1 \in DOMAIN RunCalls /\ RunCalls[1] = "running"
<1> DEFINE rest == CASE kind = "shell"    -> <<"failed">>
                     [] kind = "workflow" -> <<"log", "succeeded">>
                     [] kind = "agent"    -> <<"log", "agent">>
<1>1. {"running", "log", "failed", "succeeded", "agent"} \subseteq Calls
  BY DEF Calls, Statuses
<1>2. kind = "shell" \/ kind = "workflow" \/ kind = "agent"
  BY DEF TypeOK, Kinds
<1>3. rest \in Seq(Calls)
  <2>1. CASE kind = "shell"
    BY <1>1, <2>1
  <2>2. CASE kind = "workflow"
    BY <1>1, <2>2
  <2>3. CASE kind = "agent"
    BY <1>1, <2>3
  <2> QED
    BY <1>2, <2>1, <2>2, <2>3
<1>4. RunCalls = <<"running", "log">> \o rest
  BY DEF RunCalls
<1> HIDE DEF rest
<1>5. /\ <<"running", "log">> \o rest \in Seq(Calls)
      /\ Len(<<"running", "log">> \o rest) = 2 + Len(rest)
      /\ (<<"running", "log">> \o rest)[1] = "running"
  BY <1>1, <1>3
<1>6. Len(rest) \in Nat
  BY <1>3
<1> QED
  BY <1>4, <1>5, <1>6

(* The record as a call changes it. *)
LEMMA ChangedTyped ==
    ASSUME NEW p \in Procs, NEW rec \in Records, Call(p) \in Statuses \cup {"log"}
    PROVE  /\ Changed(p, rec) \in Records
           /\ Changed(p, rec).status = IF Call(p) = "log" THEN rec.status ELSE Call(p)
           /\ Changed(p, rec).logs = IF Call(p) = "log"
                                     THEN [rec.logs EXCEPT ![p] = @ + 1] ELSE rec.logs
<1>1. CASE Call(p) = "log"
  <2>1. Changed(p, rec) = [rec EXCEPT !.logs = [rec.logs EXCEPT ![p] = @ + 1]]
    BY <1>1 DEF Changed
  <2>2. [rec.logs EXCEPT ![p] = @ + 1] \in [Procs -> Nat]
    BY DEF Records
  <2> QED
    BY <1>1, <2>1, <2>2 DEF Records
<1>2. CASE Call(p) # "log"
  <2>1. Changed(p, rec) = [rec EXCEPT !.status = Call(p),
                              !.completed = @ \/ Call(p) \in Terminal \cup {"stopped"},
                              !.error = @ \/ Call(p) = "failed"]
    BY <1>2 DEF Changed
  <2> QED
    BY <1>2, <2>1 DEF Records
<1> QED
  BY <1>1, <1>2

LEMMA NullIsNoRecord == Null \notin Records
BY NullAssumption

(* The handlers a process may take a step of. *)
Acts(p) ==
    \/ p = Creator /\ StartTask
    \/ p \in Commands /\ (StopTask(p) \/ ResumeTask(p))
    \/ Proceed(p)
    \/ Crash(p)

LEMMA NextActs ==
    ASSUME Next
    PROVE  \E p \in Procs : Acts(p)
BY DEF Next, Acts, Procs

(* A step is of one process: the others are where they were. *)
LEMMA ActsAlone ==
    ASSUME TypeOK, NEW p \in Procs, Acts(p), NEW q \in Procs, q # p
    PROVE  /\ todo'[q] = todo[q] /\ pc'[q] = pc[q] /\ copy'[q] = copy[q]
           /\ q \in decided' <=> q \in decided
           /\ kind' = kind
<1> USE DEF TypeOK
<1>1. ASSUME NEW r \in Procs, NEW b \in BOOLEAN, NEW c, NEW d,
             Decide(r, b, c, d), r = p
      PROVE  /\ todo'[q] = todo[q] /\ pc'[q] = pc[q] /\ copy'[q] = copy[q]
             /\ q \in decided' <=> q \in decided
             /\ kind' = kind
  BY <1>1 DEF Decide, Goto
<1>2. CASE p = Creator /\ StartTask
  BY <1>1, <1>2 DEF StartTask
<1>3. CASE p \in Commands /\ StopTask(p)
  BY <1>1, <1>3 DEF StopTask
<1>4. CASE p \in Commands /\ ResumeTask(p)
  BY <1>1, <1>4 DEF ResumeTask
<1>5. CASE LoadAndChange(p)
  BY <1>5 DEF LoadAndChange, Goto
<1>6. CASE BeginWrite(p)
  BY <1>6 DEF BeginWrite
<1>7. CASE EndWrite(p)
  BY <1>7 DEF EndWrite, Goto
<1>8. CASE AgentEnds(p)
  BY <1>8 DEF AgentEnds, Goto
<1>9. CASE Crash(p)
  BY <1>9 DEF Crash, Goto
<1> QED
  BY <1>2, <1>3, <1>4, <1>5, <1>6, <1>7, <1>8, <1>9 DEF Acts, Proceed

(* What a decision leaves behind. *)
LEMMA DecideTyped ==
    ASSUME TypeOK, NEW p \in Procs, NEW b, NEW calls \in Seq(Calls),
           NEW refusal \in Seq(Calls), Decide(p, b, calls, refusal)
    PROVE  TypeOK' /\ todo'[p] \in {<<>>, calls, refusal} /\ pc'[p] = "ready"
<1>1. /\ todo' \in [Procs -> Seq(Calls)]
      /\ todo'[p] \in {<<>>, calls, refusal}
  <2>1. PICK t \in {<<>>, calls, refusal} : Goto(p, t)
    BY DEF Decide
  <2>2. t \in Seq(Calls)
    <3>1. <<>> \in Seq(Calls)
      OBVIOUS
    <3> QED
      BY <3>1, Zenon
  <2> QED
    BY <2>1, <2>2 DEF Goto, TypeOK
<1>2. pc' \in [Procs -> {"fresh", "ready", "saving", "writing"}] /\ pc'[p] = "ready"
  BY DEF Decide, TypeOK
<1>3. decided' \subseteq Procs
  BY DEF Decide, TypeOK
<1>4. calm' \in BOOLEAN
  BY DEF Decide, TypeOK
<1> QED
  BY <1>1, <1>2, <1>3, <1>4 DEF Decide, TypeOK

(* The calls that a decision may lead to. *)
LEMMA DecidedCallsTyped ==
    ASSUME TypeOK
    PROVE  /\ <<"log">> \in Seq(Calls) /\ <<>> \in Seq(Calls)
           /\ <<"log", "stopped">> \in Seq(Calls)
           /\ <<"log", "queued">> \o RunCalls \in Seq(Calls)
<1>1. "log" \in Calls /\ "queued" \in Calls /\ "stopped" \in Calls
  BY DEF Calls, Statuses
<1> QED
  BY <1>1, RunCallsTyped

LEMMA AgentEndsTyped ==
    ASSUME NEW hint \in {<<>>, <<"log">>}, NEW outcome \in Terminal
    PROVE  <<"log">> \o hint \o <<outcome>> \in Seq(Calls)
<1>1. "log" \in Calls /\ outcome \in Calls
  BY DEF Calls, Statuses, Terminal
<1>2. <<>> \in Seq(Calls) /\ <<outcome>> \in Seq(Calls) /\ <<"log">> \in Seq(Calls)
  BY <1>1
<1>3. hint \in Seq(Calls)
  BY <1>2, Zenon
<1> QED
  BY <1>2, <1>3

(* Types, and the calls in their windows, are kept by every step. *)
LEMMA TypeKeeps ==
    ASSUME TypeOK, WindowsSave, NEW p \in Procs, Acts(p)
    PROVE  TypeOK'
<1>1. CASE p = Creator /\ StartTask
  BY <1>1, DecideTyped, RunCallsTyped, DecidedCallsTyped DEF StartTask
<1>2. CASE p \in Commands /\ StopTask(p)
  BY <1>2, DecideTyped, DecidedCallsTyped DEF StopTask
<1>3. CASE p \in Commands /\ ResumeTask(p)
  BY <1>3, DecideTyped, DecidedCallsTyped DEF ResumeTask
<1>4. CASE LoadAndChange(p)
  <2>1. todo[p] # <<>> /\ Call(p) \in Statuses \cup {"log"}
    BY <1>4 DEF LoadAndChange, AtCall
  <2>2. WithoutRecord(p) \in Seq(Calls)
    BY <2>1, CallsTyped DEF WithoutRecord
  <2>3. todo' \in [Procs -> Seq(Calls)]
    BY <1>4, <2>2 DEF LoadAndChange, Goto, TypeOK
  <2>4. copy' \in [Procs -> Records \cup {Null}]
    <3>1. CASE disk = Null
      BY <1>4, <3>1 DEF LoadAndChange, TypeOK
    <3>2. CASE disk # Null
      <4>1. Changed(p, disk) \in Records
        BY <2>1, <3>2, ChangedTyped DEF TypeOK
      <4> QED
        BY <1>4, <3>2, <4>1 DEF LoadAndChange, TypeOK
    <3> QED
      BY <3>1, <3>2
  <2>5. pc' \in [Procs -> {"fresh", "ready", "saving", "writing"}]
    BY <1>4 DEF LoadAndChange, TypeOK
  <2>6. decided' \subseteq Procs /\ calm' \in BOOLEAN
    BY <1>4 DEF LoadAndChange, TypeOK
  <2> QED
    BY <1>4, <2>3, <2>4, <2>5, <2>6 DEF LoadAndChange, TypeOK
<1>5. CASE BeginWrite(p)
  <2>1. pc' \in [Procs -> {"fresh", "ready", "saving", "writing"}]
    BY <1>5 DEF BeginWrite, TypeOK
  <2> QED
    BY <1>5, <2>1 DEF BeginWrite, TypeOK
<1>6. CASE EndWrite(p)
  <2>1. /\ todo[p] # <<>> /\ Call(p) \in Statuses \cup {"log"}
        /\ copy[p] \in Records \cup {Null}
    BY <1>6 DEF EndWrite, WindowsSave, InWindow, TypeOK
  <2>2. todo' \in [Procs -> Seq(Calls)]
    BY <1>6, <2>1, CallsTyped DEF EndWrite, Goto, TypeOK
  <2>3. pc' \in [Procs -> {"fresh", "ready", "saving", "writing"}]
        /\ copy' \in [Procs -> Records \cup {Null}]
    BY <1>6 DEF EndWrite, TypeOK
  <2>4. disk' \in Records \cup {Null}
    BY <1>6, <2>1 DEF EndWrite
  <2>5. /\ last' \in Statuses /\ decided' \subseteq Procs
        /\ stops' \in Nat /\ logged' \in [Procs -> Nat]
    BY <1>6, <2>1 DEF EndWrite, TypeOK
  <2>6. stale' \in BOOLEAN
    BY <1>6 DEF EndWrite, TypeOK
  <2> QED
    BY <1>6, <2>2, <2>3, <2>4, <2>5, <2>6 DEF EndWrite, TypeOK
<1>7. CASE AgentEnds(p)
  <2>1. todo' \in [Procs -> Seq(Calls)]
    BY <1>7, AgentEndsTyped DEF AgentEnds, Goto, TypeOK
  <2> QED
    BY <1>7, <2>1 DEF AgentEnds, TypeOK
<1>8. CASE Crash(p)
  <2>1. todo' \in [Procs -> Seq(Calls)]
    BY <1>8 DEF Crash, Goto, TypeOK
  <2>2. pc' \in [Procs -> {"fresh", "ready", "saving", "writing"}]
        /\ copy' \in [Procs -> Records \cup {Null}]
        /\ decided' \subseteq Procs
    BY <1>8 DEF Crash, TypeOK
  <2>3. calm' \in BOOLEAN /\ crashed' \in BOOLEAN
    BY <1>8 DEF Crash, TypeOK
  <2> QED
    BY <1>8, <2>1, <2>2, <2>3 DEF Crash, TypeOK
<1> QED
  BY <1>1, <1>2, <1>3, <1>4, <1>5, <1>6, <1>7, <1>8 DEF Acts, Proceed

LEMMA WindowsKeep ==
    ASSUME TypeOK, WindowsSave, NEW p \in Procs, Acts(p)
    PROVE  WindowsSave'
<1> SUFFICES ASSUME NEW q \in Procs, pc'[q] \in {"saving", "writing"}
             PROVE  /\ todo'[q] # <<>> /\ Head(todo'[q]) \in Statuses \cup {"log"}
                    /\ copy'[q] # Null
  BY DEF WindowsSave, InWindow, Call
<1>1. CASE q # p
  BY <1>1, ActsAlone DEF WindowsSave, InWindow, Call
<1>2. CASE q = p
  <2>1. CASE LoadAndChange(p)
    <3>1. disk # Null /\ UNCHANGED todo
      BY <1>2, <2>1 DEF LoadAndChange, AtCall
    <3>2. Call(p) \in Statuses \cup {"log"} /\ todo[p] # <<>>
      BY <2>1 DEF LoadAndChange, AtCall
    <3>3. Changed(p, disk) \in Records
      BY <3>1, <3>2, ChangedTyped DEF TypeOK
    <3>4. copy'[p] = Changed(p, disk)
      BY <2>1, <3>1 DEF LoadAndChange, TypeOK
    <3> QED
      BY <1>2, <3>1, <3>2, <3>3, <3>4, NullIsNoRecord DEF Call
  <2>2. CASE BeginWrite(p)
    BY <1>2, <2>2 DEF BeginWrite, WindowsSave, InWindow, Call
  <2>3. CASE EndWrite(p) \/ Crash(p)
    BY <1>2, <2>3 DEF EndWrite, Crash, TypeOK
  <2>4. CASE AgentEnds(p)
    BY <1>2, <2>4 DEF AgentEnds, AtCall
  <2>5. CASE StartTask \/ StopTask(p) \/ ResumeTask(p)
    <3>1. ASSUME NEW r \in Procs, NEW b, NEW c, NEW d, Decide(r, b, c, d)
          PROVE  pc'[r] = "ready"
      BY <3>1 DEF Decide, TypeOK
    <3>2. StopTask(p) \/ ResumeTask(p) => pc'[p] = "ready"
      BY <3>1 DEF StopTask, ResumeTask
    <3>3. StartTask /\ p = Creator => pc'[p] = "ready"
      BY <3>1 DEF StartTask
    <3>4. StartTask /\ p # Creator => pc'[p] = pc[p] /\ todo'[p] = todo[p] /\ copy'[p] = copy[p]
      BY DEF StartTask, Decide, Goto, TypeOK, Procs
    <3> QED
      BY <1>2, <2>5, <3>2, <3>3, <3>4 DEF WindowsSave, InWindow, Call
  <2> QED
    BY <2>1, <2>2, <2>3, <2>4, <2>5 DEF Acts, Proceed
<1> QED
  BY <1>1, <1>2

LEMMA FreshKeep ==
    ASSUME TypeOK, FreshAreIdle, NEW p \in Procs, Acts(p)
    PROVE  FreshAreIdle'
<1> SUFFICES ASSUME NEW q \in Procs, pc'[q] = "fresh"
             PROVE  todo'[q] = <<>>
  BY DEF FreshAreIdle
<1>1. CASE q # p
  BY <1>1, ActsAlone DEF FreshAreIdle
<1>2. CASE q = p
  <2>1. ASSUME NEW b, NEW c, NEW d, Decide(p, b, c, d)
        PROVE  pc'[p] = "ready"
    BY <2>1 DEF Decide, TypeOK
  <2>2. ~(p = Creator /\ StartTask) /\ ~StopTask(p) /\ ~ResumeTask(p)
    BY <1>2, <2>1 DEF StartTask, StopTask, ResumeTask
  <2>3. ~BeginWrite(p) /\ ~EndWrite(p) /\ ~Crash(p)
    BY <1>2 DEF BeginWrite, EndWrite, Crash, TypeOK
  <2>4. ~AgentEnds(p) /\ ~LoadAndChange(p)
    BY <1>2 DEF AgentEnds, LoadAndChange, AtCall, TypeOK
  <2> QED
    BY <2>2, <2>3, <2>4 DEF Acts, Proceed
<1> QED
  BY <1>1, <1>2

(* A process stays before its first status call until it makes it. *)
LEMMA EarlyKeeps ==
    ASSUME TypeOK, WindowsSave, FreshAreIdle, DecidedAreEarly,
           NEW p \in Procs, Acts(p)
    PROVE  DecidedAreEarly'
<1> DEFINE Early(r, s, calls) ==
             IF r = Creator THEN s = calls
             ELSE \/ s \in {<<"log", "stopped">>, <<"stopped">>}
                  \/ s \in {<<"log", "queued">> \o calls, <<"queued">> \o calls}
<1> SUFFICES ASSUME NEW q \in Procs, q \in decided'
             PROVE  Early(q, todo'[q], RunCalls)
  <2>1. RunCalls' = RunCalls
    BY ActsAlone DEF RunCalls, Acts, StartTask, StopTask, ResumeTask, Decide, Proceed,
       LoadAndChange, BeginWrite, EndWrite, AgentEnds, Crash
  <2>2. decided' \subseteq Procs
    BY TypeKeeps DEF TypeOK
  <2> QED
    BY <2>1, <2>2 DEF DecidedAreEarly, Stopping, Resuming
<1>1. \A r \in decided : Early(r, todo[r], RunCalls)
  BY DEF DecidedAreEarly, Stopping, Resuming
<1>2. CASE q # p
  BY <1>1, <1>2, ActsAlone
<1>3. CASE q = p
  <2> DEFINE s == todo[p]
  <2>1. ASSUME q \in decided, s # <<>>, Call(p) = "log"
        PROVE  Early(p, Tail(s), RunCalls)
    <3>1. RunCalls \in Seq(Calls) /\ RunCalls # <<>> /\ RunCalls[1] = "running"
      BY RunCallsTyped
    <3>2. Early(p, s, RunCalls) /\ Head(s) = "log"
      BY <1>1, <1>3, <2>1 DEF Call
    <3>3. p # Creator
      BY <3>1, <3>2
    <3>4. CASE s \in {<<"log", "stopped">>, <<"stopped">>}
      <4>1. s = <<"log", "stopped">>
        BY <3>2, <3>4
      <4>2. Tail(s) = <<"stopped">>
        BY <4>1
      <4> QED
        BY <3>3, <4>2
    <3>5. CASE s \in {<<"log", "queued">> \o RunCalls, <<"queued">> \o RunCalls}
      BY <3>1, <3>2, <3>3, <3>5
    <3> QED
      BY <3>2, <3>3, <3>4, <3>5
  <2>2. ASSUME q \in decided, s # <<>>
        PROVE  Call(p) \in {"log", "stopped", "queued", "running"}
    <3>1. RunCalls \in Seq(Calls) /\ RunCalls # <<>> /\ RunCalls[1] = "running"
      BY RunCallsTyped
    <3>2. Early(p, s, RunCalls)
      BY <1>1, <1>3, <2>2
    <3>3. Head(RunCalls) = "running" /\ Head(<<"log", "queued">> \o RunCalls) = "log"
          /\ Head(<<"queued">> \o RunCalls) = "queued"
      BY <3>1
    <3> QED
      BY <3>2, <3>3 DEF Call
  <2>3. CASE LoadAndChange(p)
    <3>1. s # <<>>
      BY <2>3 DEF LoadAndChange, AtCall
    <3>2. CASE disk # Null
      BY <1>1, <1>3, <2>3, <3>2 DEF LoadAndChange
    <3>3. CASE disk = Null
      <4>1. Call(p) = "log" /\ q \in decided
        BY <1>3, <2>3, <3>3 DEF LoadAndChange
      <4>2. todo'[p] = Tail(s)
        BY <2>3, <3>3, <4>1 DEF LoadAndChange, WithoutRecord, Goto, TypeOK
      <4> QED
        BY <1>3, <2>1, <3>1, <4>1, <4>2
    <3> QED
      BY <3>2, <3>3
  <2>4. CASE BeginWrite(p)
    BY <1>1, <1>3, <2>4 DEF BeginWrite
  <2>5. CASE EndWrite(p)
    <3>1. s # <<>>
      BY <2>5 DEF EndWrite, WindowsSave, InWindow
    <3>2. Call(p) = "log" /\ q \in decided /\ todo'[p] = Tail(s)
      BY <1>3, <2>5 DEF EndWrite, Goto, TypeOK
    <3> QED
      BY <1>3, <2>1, <3>1, <3>2
  <2>6. CASE AgentEnds(p)
    BY <1>3, <2>2, <2>6 DEF AgentEnds, AtCall
  <2>7. CASE Crash(p)
    BY <1>3, <2>7 DEF Crash
  <2>8. ASSUME NEW b, NEW c, NEW d, Decide(p, b, c, d), q \notin decided
        PROVE  todo'[p] = c
    BY <1>3, <2>8 DEF Decide, Goto, TypeOK
  <2>9. CASE p = Creator /\ StartTask
    BY <1>3, <1>1, <2>2, <2>8, <2>9 DEF StartTask, AtCall
  <2>10. CASE p \in Commands /\ (StopTask(p) \/ ResumeTask(p))
    <3>1. p # Creator
      BY <2>10, BgTasksAssumption
    <3>2. q \notin decided
      <4>1. RunCalls \in Seq(Calls)
        BY RunCallsTyped
      <4>2. \A t \in {<<"log", "stopped">>, <<"stopped">>} : t # <<>>
        OBVIOUS
      <4>3. /\ <<"log", "queued">> \o RunCalls # <<>>
            /\ <<"queued">> \o RunCalls # <<>>
        BY <4>1
      <4>4. todo[p] = <<>>
        BY <2>10 DEF FreshAreIdle, StopTask, ResumeTask
      <4> QED
        BY <1>1, <1>3, <3>1, <4>2, <4>3, <4>4, Zenon
    <3> QED
      BY <1>3, <2>8, <2>10, <3>1, <3>2 DEF StopTask, ResumeTask
  <2> QED
    BY <2>3, <2>4, <2>5, <2>6, <2>7, <2>9, <2>10 DEF Acts, Proceed
<1> QED
  BY <1>2, <1>3

------------------------------------------------------------------------------
(* The record while calm.                                                  *)

CalmInv ==
    /\ CalmKeepsUpdates
    /\ calm => OneInWindow /\ GoneWhileWritten /\ CopyFollows

(* A step that leaves the record alone and ends outside the window. *)
LEMMA QuietKeeps ==
    ASSUME TypeOK, CalmInv, NEW p \in Procs, Acts(p),
           UNCHANGED <<disk, last, logged>>, pc'[p] \notin {"saving", "writing"},
           calm' => calm /\ pc[p] # "writing"
    PROVE  CalmInv'
<1>1. CASE ~calm'
  BY <1>1 DEF CalmInv, CalmKeepsUpdates
<1>2. CASE calm'
  <2>1. calm /\ pc[p] # "writing"
    BY <1>2
  <2>2. \A q \in Procs \ {p} :
           todo'[q] = todo[q] /\ pc'[q] = pc[q] /\ copy'[q] = copy[q]
    BY ActsAlone
  <2>3. OneInWindow' /\ GoneWhileWritten'
    BY <2>1, <2>2 DEF CalmInv, OneInWindow, GoneWhileWritten, InWindow
  <2>4. CopyFollows'
    BY <2>1, <2>2 DEF CalmInv, CopyFollows, InWindow, Call
  <2>5. CalmKeepsUpdates'
    BY <2>1 DEF CalmInv, CalmKeepsUpdates
  <2> QED
    BY <2>3, <2>4, <2>5 DEF CalmInv
<1> QED
  BY <1>1, <1>2

LEMMA LoadKeeps ==
    ASSUME TypeOK, CalmInv, NEW p \in Procs, LoadAndChange(p)
    PROVE  CalmInv'
<1>0. Acts(p)
  BY DEF Acts, Proceed
<1>1. CASE ~calm'
  BY <1>1 DEF CalmInv, CalmKeepsUpdates
<1>2. CASE calm' /\ disk = Null
  <2>1. calm' => calm /\ pc[p] # "writing"
    BY DEF LoadAndChange, AtCall
  <2>2. pc'[p] \notin {"saving", "writing"} /\ UNCHANGED <<disk, last, logged>>
    BY <1>2 DEF LoadAndChange, AtCall
  <2> QED
    BY <1>0, <2>1, <2>2, QuietKeeps
<1>3. CASE calm' /\ disk # Null
  <2>1. calm /\ \A q \in Procs \ {p} : ~InWindow(q)
    BY <1>3 DEF LoadAndChange, Overlapped
  <2>2. \A q \in Procs \ {p} :
           todo'[q] = todo[q] /\ pc'[q] = pc[q] /\ copy'[q] = copy[q]
    BY <1>0, ActsAlone
  <2>3. /\ pc'[p] = "saving" /\ todo'[p] = todo[p] /\ copy'[p] = Changed(p, disk)
        /\ Call(p) \in Statuses \cup {"log"}
        /\ UNCHANGED <<disk, last, logged>>
    BY <1>3 DEF LoadAndChange, AtCall, TypeOK
  <2>4. \A q \in Procs \ {p} : pc'[q] \notin {"saving", "writing"}
    BY <2>1, <2>2 DEF InWindow
  <2>5. OneInWindow' /\ GoneWhileWritten'
    BY <1>3, <2>3, <2>4 DEF OneInWindow, GoneWhileWritten, InWindow
  <2>6. disk \in Records /\ disk.status = last /\ disk.logs = logged
    BY <1>3, <2>1 DEF TypeOK, CalmInv, CalmKeepsUpdates
  <2>7. CopyFollows'
    <3>1. /\ Changed(p, disk).status = IF Call(p) = "log" THEN last ELSE Call(p)
          /\ Changed(p, disk).logs = IF Call(p) = "log"
                                     THEN [logged EXCEPT ![p] = @ + 1] ELSE logged
      BY <2>3, <2>6, ChangedTyped
    <3> QED
      BY <2>3, <2>4, <3>1 DEF CopyFollows, InWindow, Call
  <2>8. CalmKeepsUpdates'
    BY <2>3, <2>6 DEF CalmKeepsUpdates
  <2> QED
    BY <2>5, <2>7, <2>8 DEF CalmInv
<1> QED
  BY <1>1, <1>2, <1>3

LEMMA BeginKeeps ==
    ASSUME TypeOK, CalmInv, NEW p \in Procs, BeginWrite(p)
    PROVE  CalmInv'
<1>1. CASE ~calm
  BY <1>1 DEF CalmInv, CalmKeepsUpdates, BeginWrite
<1>2. CASE calm
  <2>1. /\ pc[p] = "saving" /\ pc'[p] = "writing" /\ disk' = Null
        /\ UNCHANGED <<todo, copy, last, logged>>
        /\ \A q \in Procs \ {p} : pc'[q] = pc[q]
    BY DEF BeginWrite, TypeOK
  <2>2. \A q \in Procs : InWindow(q)' <=> InWindow(q)
    BY <2>1 DEF InWindow
  <2>3. OneInWindow' /\ GoneWhileWritten'
    BY <1>2, <2>1, <2>2 DEF CalmInv, OneInWindow, GoneWhileWritten
  <2>4. CopyFollows'
    BY <1>2, <2>1, <2>2 DEF CalmInv, CopyFollows, Call
  <2>5. CalmKeepsUpdates'
    BY <2>1 DEF CalmKeepsUpdates
  <2> QED
    BY <2>3, <2>4, <2>5 DEF CalmInv
<1> QED
  BY <1>1, <1>2

LEMMA EndKeeps ==
    ASSUME TypeOK, WindowsSave, CalmInv, NEW p \in Procs, EndWrite(p)
    PROVE  CalmInv'
<1>1. CASE ~calm
  BY <1>1 DEF CalmInv, CalmKeepsUpdates, EndWrite
<1>2. CASE calm
  <2>1. \A q \in Procs \ {p} : ~InWindow(q)
    BY <1>2 DEF CalmInv, OneInWindow, EndWrite, InWindow
  <2>2. InWindow(p) /\ disk = Null /\ copy[p] # Null
    BY <1>2 DEF CalmInv, GoneWhileWritten, EndWrite, InWindow, WindowsSave
  <2>3. disk' = copy[p]
    BY <2>2 DEF EndWrite
  <2>4. \A q \in Procs : pc'[q] \notin {"saving", "writing"}
    BY <2>1 DEF EndWrite, InWindow, TypeOK
  <2>5. OneInWindow' /\ GoneWhileWritten' /\ CopyFollows'
    BY <2>2, <2>3, <2>4 DEF OneInWindow, GoneWhileWritten, CopyFollows, InWindow
  <2>6. CalmKeepsUpdates'
    <3>1. /\ copy[p].status = IF Call(p) = "log" THEN last ELSE Call(p)
          /\ copy[p].logs = IF Call(p) = "log" THEN [logged EXCEPT ![p] = @ + 1]
                                              ELSE logged
      BY <1>2, <2>2 DEF CalmInv, CopyFollows
    <3> QED
      BY <2>3, <3>1 DEF CalmKeepsUpdates, EndWrite
  <2> QED
    BY <2>5, <2>6 DEF CalmInv
<1> QED
  BY <1>1, <1>2

LEMMA CalmKeeps ==
    ASSUME TypeOK, WindowsSave, CalmInv, NEW p \in Procs, Acts(p)
    PROVE  CalmInv'
<1>1. ASSUME NEW b, NEW c, NEW d, Decide(p, b, c, d), pc[p] # "writing"
      PROVE  CalmInv'
  <2>1. calm' => calm
    BY <1>1 DEF Decide
  <2>2. pc'[p] = "ready" /\ UNCHANGED <<disk, last, logged>>
    BY <1>1 DEF Decide, TypeOK
  <2> QED
    BY <1>1, <2>1, <2>2, QuietKeeps
<1>2. CASE p = Creator /\ StartTask
  BY <1>1, <1>2 DEF StartTask, AtCall
<1>3. CASE p \in Commands /\ (StopTask(p) \/ ResumeTask(p))
  BY <1>1, <1>3 DEF StopTask, ResumeTask
<1>4. CASE AgentEnds(p)
  <2>1. pc'[p] = "ready" /\ pc[p] = "ready" /\ UNCHANGED <<disk, last, logged, calm>>
    BY <1>4 DEF AgentEnds, AtCall
  <2> QED
    BY <2>1, QuietKeeps
<1>5. CASE Crash(p)
  <2>1. calm' => calm /\ pc[p] # "writing"
    BY <1>5 DEF Crash
  <2>2. pc'[p] = "ready" /\ UNCHANGED <<disk, last, logged>>
    BY <1>5 DEF Crash, TypeOK
  <2> QED
    BY <2>1, <2>2, QuietKeeps
<1> QED
  BY <1>2, <1>3, <1>4, <1>5, LoadKeeps, BeginKeeps, EndKeeps DEF Acts, Proceed

------------------------------------------------------------------------------
(* The runs and the stops.                                                 *)

CountInv == calm /\ ~stale => ResumesResumable /\ RoomForResume

(* The calls of a process end with work of a run, or may lead to it. *)
RunCall == Terminal \cup {"agent", "start?"}
HasRun(s) == \E i \in DOMAIN s : s[i] \in RunCall

(* Nothing follows the status that ends a run. *)
EndsLast(s) == \A i \in DOMAIN s : s[i] \in Terminal \cup {"agent"} => i = Len(s)

(* Calls that end no run may come before. *)
LEMMA EndsLastAfter ==
    ASSUME NEW s \in Seq({"running", "log", "queued"}), NEW t \in Seq(Calls), EndsLast(t)
    PROVE  EndsLast(s \o t)
<1> SUFFICES ASSUME NEW i \in DOMAIN (s \o t), (s \o t)[i] \in Terminal \cup {"agent"}
             PROVE  i = Len(s \o t)
  BY DEF EndsLast
<1>1. Len(s) \in Nat /\ Len(t) \in Nat /\ i \in 1..(Len(s) + Len(t))
      /\ Len(s \o t) = Len(s) + Len(t)
  OBVIOUS
<1>2. CASE i <= Len(s)
  <2>1. (s \o t)[i] = s[i] /\ s[i] \in {"running", "log", "queued"}
    BY <1>1, <1>2
  <2> QED
    BY <2>1 DEF Terminal
<1>3. CASE i > Len(s)
  <2>1. (s \o t)[i] = t[i - Len(s)] /\ i - Len(s) \in DOMAIN t
    BY <1>1, <1>3
  <2> QED
    BY <1>1, <2>1 DEF EndsLast
<1> QED
  BY <1>1, <1>2, <1>3

(* The calls of a run end with its outcome or with its agent. *)
LEMMA RunCallsEndLast ==
    ASSUME TypeOK
    PROVE  EndsLast(RunCalls) /\ EndsLast(<<"log", "queued">> \o RunCalls)
<1> DEFINE rest == CASE kind = "shell"    -> <<"failed">>
                     [] kind = "workflow" -> <<"log", "succeeded">>
                     [] kind = "agent"    -> <<"log", "agent">>
<1>1. kind = "shell" \/ kind = "workflow" \/ kind = "agent"
  BY DEF TypeOK, Kinds
<1>2. rest \in Seq(Calls) /\ EndsLast(rest)
  <2>1. ASSUME NEW s, s \in {<<"failed">>, <<"log", "succeeded">>, <<"log", "agent">>}
        PROVE  s \in Seq(Calls) /\ EndsLast(s)
    <3>1. {"log", "failed", "succeeded", "agent"} \subseteq Calls
      BY DEF Calls, Statuses
    <3>2. CASE s = <<"failed">>
      BY <3>1, <3>2 DEF EndsLast
    <3>3. CASE s = <<"log", "succeeded">>
      BY <3>1, <3>3 DEF EndsLast, Terminal
    <3>4. CASE s = <<"log", "agent">>
      BY <3>1, <3>4 DEF EndsLast, Terminal
    <3> QED
      BY <2>1, <3>2, <3>3, <3>4
  <2>2. rest \in {<<"failed">>, <<"log", "succeeded">>, <<"log", "agent">>}
    BY <1>1
  <2> HIDE DEF rest
  <2> QED
    BY <2>1, <2>2
<1>3. RunCalls = <<"running", "log">> \o rest
  BY DEF RunCalls
<1> HIDE DEF rest
<1>4. /\ <<"running", "log">> \in Seq({"running", "log", "queued"})
      /\ <<"log", "queued">> \in Seq({"running", "log", "queued"})
  OBVIOUS
<1>5. EndsLast(RunCalls)
  BY <1>2, <1>3, <1>4, EndsLastAfter
<1> QED
  BY <1>4, <1>5, RunCallsTyped, EndsLastAfter

(* No step puts a call after the status that ends a run. *)
LEMMA EndLastKeeps ==
    ASSUME TypeOK, WindowsSave, RunsEndLast, NEW p \in Procs, Acts(p)
    PROVE  RunsEndLast'
<1> SUFFICES ASSUME NEW q \in Procs PROVE EndsLast(todo'[q])
  BY DEF RunsEndLast, EndsLast
<1>1. \A r \in Procs : EndsLast(todo[r])
  BY DEF RunsEndLast, EndsLast
<1>2. CASE q # p
  BY <1>1, <1>2, ActsAlone
<1>3. CASE q = p
  <2>1. EndsLast(<<>>) /\ EndsLast(<<"log">>) /\ EndsLast(<<"log", "stopped">>)
    BY DEF EndsLast, Terminal
  <2>2. ASSUME todo[p] # <<>> PROVE EndsLast(Tail(todo[p]))
    <3>1. todo[p] \in Seq(Calls) /\ Len(Tail(todo[p])) = Len(todo[p]) - 1
      BY <2>2 DEF TypeOK
    <3> QED
      BY <1>1, <2>2, <3>1, CallsTyped DEF EndsLast
  <2>3. ASSUME NEW b, NEW calls \in Seq(Calls), NEW refusal \in Seq(Calls),
               EndsLast(calls), EndsLast(refusal), Decide(p, b, calls, refusal)
        PROVE  EndsLast(todo'[p])
    <3>1. todo'[p] \in {<<>>, calls, refusal}
      BY <2>3, DecideTyped
    <3> QED
      BY <2>1, <2>3, <3>1
  <2>4. CASE p = Creator /\ StartTask
    BY <1>3, <2>1, <2>3, <2>4, RunCallsTyped, DecidedCallsTyped, RunCallsEndLast DEF StartTask
  <2>5. CASE p \in Commands /\ StopTask(p)
    BY <1>3, <2>1, <2>3, <2>5, DecidedCallsTyped DEF StopTask
  <2>6. CASE p \in Commands /\ ResumeTask(p)
    BY <1>3, <2>1, <2>3, <2>6, DecidedCallsTyped, RunCallsEndLast DEF ResumeTask
  <2>7. CASE LoadAndChange(p)
    <3>1. todo[p] # <<>>
      BY <2>7 DEF LoadAndChange, AtCall
    <3>2. todo'[p] \in {todo[p], <<>>, Tail(todo[p])}
      BY <2>7 DEF LoadAndChange, WithoutRecord, Goto, TypeOK
    <3> QED
      BY <1>1, <1>3, <2>1, <2>2, <3>1, <3>2
  <2>8. CASE BeginWrite(p)
    BY <1>1, <1>3, <2>8 DEF BeginWrite
  <2>9. CASE EndWrite(p)
    <3>1. todo[p] # <<>> /\ todo'[p] = Tail(todo[p])
      BY <2>9 DEF EndWrite, Goto, WindowsSave, InWindow, TypeOK
    <3> QED
      BY <1>3, <2>2, <3>1
  <2>10. CASE AgentEnds(p)
    <3>1. PICK hint \in {<<>>, <<"log">>}, outcome \in Terminal :
             todo'[p] = <<"log">> \o hint \o <<outcome>>
      BY <2>10 DEF AgentEnds, Goto, TypeOK
    <3>2. /\ <<"log">> \o hint \in Seq({"running", "log", "queued"})
          /\ <<outcome>> \in Seq(Calls) /\ EndsLast(<<outcome>>)
      <4>1. outcome \in Calls
        BY DEF Calls, Statuses, Terminal
      <4>2. EndsLast(<<outcome>>)
        BY DEF EndsLast
      <4>3. hint \in Seq({"running", "log", "queued"})
        <5>1. /\ <<>> \in Seq({"running", "log", "queued"})
              /\ <<"log">> \in Seq({"running", "log", "queued"})
          OBVIOUS
        <5> QED
          BY <5>1, Zenon
      <4> QED
        BY <4>1, <4>2, <4>3
    <3>3. EndsLast((<<"log">> \o hint) \o <<outcome>>)
      BY <3>2, EndsLastAfter
    <3> QED
      BY <1>3, <3>1, <3>3
  <2>11. CASE Crash(p)
    BY <1>3, <2>1, <2>11 DEF Crash, Goto, TypeOK
  <2> QED
    BY <2>4, <2>5, <2>6, <2>7, <2>8, <2>9, <2>10, <2>11 DEF Acts, Proceed
<1> QED
  BY <1>2, <1>3

LEMMA RunsHaveRuns ==
    Runs = {p \in Procs : p \notin decided \ {Creator} /\ HasRun(todo[p])}
BY DEF Runs, HasRun, RunCall, Range

LEMMA RunsFinite ==
    /\ IsFiniteSet(Runs) /\ Cardinality(Runs) \in Nat
    /\ \A S \in SUBSET Runs : IsFiniteSet(S) /\ Cardinality(S) \in Nat
                               /\ Cardinality(S) <= Cardinality(Runs)
<1>1. Runs \subseteq Procs
  BY DEF Runs
<1>2. IsFiniteSet(Procs)
  BY BgTasksAssumption, FS_AddElement DEF Procs
<1>3. IsFiniteSet(Runs)
  BY <1>1, <1>2, FS_Subset
<1>4. \A S \in SUBSET Runs : IsFiniteSet(S) /\ Cardinality(S) <= Cardinality(Runs)
  BY <1>3, FS_Subset
<1> QED
  BY <1>3, <1>4, FS_CardinalityType

(* What a process that has decided does first. *)
LEMMA EarlyCalls ==
    ASSUME TypeOK, DecidedAreEarly, NEW p \in decided
    PROVE  /\ todo[p] # <<>>
           /\ p = Creator => Call(p) = "running"
           /\ p # Creator /\ Stopping(p) =>
                 /\ ~HasRun(todo[p]) /\ ~Resuming(p)
                 /\ Call(p) = "log" => Tail(todo[p]) = <<"stopped">>
                 /\ Call(p) # "log" => Call(p) = "stopped" /\ Tail(todo[p]) = <<>>
           /\ p # Creator /\ ~Stopping(p) =>
                 Resuming(p) /\ Call(p) \in {"log", "queued"}
<1>1. /\ RunCalls \in Seq(Calls) /\ RunCalls # <<>> /\ Head(RunCalls) = "running"
  BY RunCallsTyped
<1>2. /\ <<"log", "queued">> \o RunCalls # <<>> /\ <<"queued">> \o RunCalls # <<>>
      /\ Head(<<"log", "queued">> \o RunCalls) = "log"
      /\ Head(<<"queued">> \o RunCalls) = "queued"
      /\ (<<"log", "queued">> \o RunCalls)[2] = "queued"
      /\ <<"log", "stopped">>[2] = "stopped"
  BY <1>1
<1>3. CASE p = Creator
  BY <1>1, <1>3 DEF DecidedAreEarly, Call
<1>4. CASE p # Creator /\ todo[p] = <<"stopped">>
  <2>1. Head(<<"stopped">>) = "stopped" /\ Tail(<<"stopped">>) = <<>> /\ <<"stopped">> # <<>>
    OBVIOUS
  <2>2. ~HasRun(<<"stopped">>)
    BY DEF HasRun, RunCall, Terminal
  <2>3. ~Resuming(p)
    BY <1>2, <1>4, <2>1 DEF Resuming
  <2> QED
    BY <1>4, <2>1, <2>2, <2>3 DEF Call, Stopping
<1>5. CASE p # Creator /\ todo[p] = <<"log", "stopped">>
  <2>1. /\ Head(<<"log", "stopped">>) = "log" /\ Tail(<<"log", "stopped">>) = <<"stopped">>
        /\ <<"log", "stopped">> # <<>>
    OBVIOUS
  <2>2. ~HasRun(<<"log", "stopped">>)
    BY DEF HasRun, RunCall, Terminal
  <2>3. ~Resuming(p)
    BY <1>2, <1>5, <2>1 DEF Resuming
  <2> QED
    BY <1>5, <2>1, <2>2, <2>3 DEF Call, Stopping
<1>6. CASE p # Creator /\ Resuming(p)
  <2>1. Call(p) \in {"log", "queued"} /\ todo[p] # <<>>
    BY <1>2, <1>6 DEF Resuming, Call
  <2>2. ~Stopping(p)
    <3>1. todo[p] # <<"stopped">>
      BY <1>2, <1>6 DEF Resuming
    <3>2. todo[p] # <<"log", "stopped">>
      BY <1>2, <1>6 DEF Resuming
    <3> QED
      BY <3>1, <3>2 DEF Stopping
  <2> QED
    BY <1>6, <2>1, <2>2
<1> QED
  BY <1>3, <1>4, <1>5, <1>6 DEF DecidedAreEarly, Stopping

(* Undisturbed, a process that loads the record finds it. *)
LEMMA LoadsFind ==
    ASSUME CalmInv, NEW p \in Procs, LoadAndChange(p), calm'
    PROVE  disk # Null
<1>1. calm /\ pc[p] = "ready" /\ \A q \in Procs \ {p} : pc[q] # "writing"
  BY DEF LoadAndChange, AtCall, Overlapped, InWindow
<1> QED
  BY <1>1 DEF CalmInv, GoneWhileWritten

(* A step that saves no status. *)
LEMMA NoStatusKeeps ==
    ASSUME TypeOK, CountInv, NEW p \in Procs, Acts(p), calm, ~stale,
           UNCHANGED <<last, stops>>,
           p \notin decided' \ {Creator} /\ HasRun(todo'[p])
               => p \notin decided \ {Creator} /\ HasRun(todo[p]),
           p \in decided' \ {Creator} /\ Resuming(p)' => last \in Resumable
    PROVE  ResumesResumable' /\ RoomForResume'
<1>1. \A q \in Procs \ {p} : todo'[q] = todo[q] /\ (q \in decided' <=> q \in decided)
  BY ActsAlone
<1>2. Runs' = {q \in Procs : q \notin decided' \ {Creator} /\ HasRun(todo'[q])}
  BY DEF Runs, HasRun, RunCall, Range
<1>3. Runs' \subseteq Runs
  BY <1>1, <1>2, RunsHaveRuns
<1>4. RoomForResume'
  <2>1. Cardinality(Runs') \in Nat /\ Cardinality(Runs') <= Cardinality(Runs)
        /\ Cardinality(Runs) \in Nat
    BY <1>3, RunsFinite
  <2>2. Cardinality(Runs) + (IF last \in Resumable THEN 1 ELSE 0) <= 1 + stops
    BY DEF CountInv, RoomForResume
  <2> QED
    BY <2>1, <2>2 DEF RoomForResume, TypeOK
<1>5. ResumesResumable'
  <2>1. RunCalls' = RunCalls
    BY DEF RunCalls, Acts, StartTask, StopTask, ResumeTask, Decide, Proceed,
       LoadAndChange, BeginWrite, EndWrite, AgentEnds, Crash
  <2>2. ASSUME NEW q \in decided' \ {Creator}, Resuming(q)', q # p
        PROVE  last \in Resumable
    <3>1. q \in decided /\ q \in Procs
      BY <2>2, <1>1 DEF TypeOK, Acts, StartTask, StopTask, ResumeTask, Decide, Proceed,
         LoadAndChange, BeginWrite, EndWrite, AgentEnds, Crash
    <3>2. todo'[q] = todo[q]
      BY <1>1, <2>2, <3>1
    <3> QED
      BY <2>1, <2>2, <3>1, <3>2 DEF CountInv, ResumesResumable, Resuming
  <2> QED
    BY <2>2 DEF ResumesResumable
<1> QED
  BY <1>4, <1>5

(* A step that saves a status, with no other decision pending. *)
LEMMA StatusKeeps ==
    ASSUME TypeOK, WindowsSave, DecidedAreEarly, RunsEndLast, CountInv, NEW p \in Procs,
           EndWrite(p), Call(p) # "log", calm, ~stale'
    PROVE  ResumesResumable' /\ RoomForResume'
<1>1. /\ decided' = {} /\ decided \subseteq {p} /\ ~stale
      /\ last' = Call(p) /\ todo'[p] = Tail(todo[p]) /\ todo[p] # <<>>
      /\ stops' = IF Call(p) = "stopped" THEN stops + 1 ELSE stops
  <2>1. decided \ {p} = {} /\ ~stale /\ decided' = decided \ {p}
    BY DEF EndWrite
  <2> QED
    BY <2>1 DEF EndWrite, Goto, TypeOK, WindowsSave, InWindow
<1>2. ResumesResumable'
  BY <1>1 DEF ResumesResumable
<1>3. \A q \in Procs \ {p} : todo'[q] = todo[q]
  BY DEF EndWrite, Goto, TypeOK
<1>4. Runs' = {q \in Procs : HasRun(todo'[q])}
  BY <1>1 DEF Runs, HasRun, RunCall, Range
<1>5. HasRun(todo'[p]) => HasRun(todo[p])
  BY <1>1, CallsTyped DEF HasRun
<1>6. Runs' \subseteq Runs \cup {p}
  BY <1>1, <1>3, <1>4, RunsHaveRuns
<1>7. Cardinality(Runs) + (IF last \in Resumable THEN 1 ELSE 0) <= 1 + stops
  BY <1>1 DEF CountInv, RoomForResume
<1>8. stops \in Nat /\ Cardinality(Runs) \in Nat
  BY RunsFinite DEF TypeOK
(* A failure is the end of the run that failed. *)
<1>9. CASE Call(p) = "failed"
  <2>1. p \in Runs
    <3>1. p \notin decided
      BY <1>9, EarlyCalls
    <3>2. HasRun(todo[p])
      BY <1>1, <1>9, CallsTyped DEF HasRun, RunCall, Terminal
    <3> QED
      BY <3>1, <3>2, RunsHaveRuns
  <2>2. p \notin Runs'
    <3>1. todo[p] \in Seq(Calls) /\ Len(todo[p]) = 1
      BY <1>1, <1>9, CallsTyped DEF RunsEndLast, Terminal, TypeOK
    <3>2. ~\E i \in DOMAIN todo'[p] : TRUE
      BY <1>1, <3>1, CallsTyped
    <3> QED
      BY <1>4, <3>2 DEF HasRun
  <2>3. Runs' \subseteq Runs \ {p}
    BY <1>6, <2>2
  <2>4. /\ IsFiniteSet(Runs \ {p}) /\ Cardinality(Runs \ {p}) = Cardinality(Runs) - 1
    BY <2>1, RunsFinite, FS_RemoveElement
  <2>5. IsFiniteSet(Runs') /\ Cardinality(Runs') <= Cardinality(Runs) - 1
    BY <2>3, <2>4, FS_Subset
  <2>6. Cardinality(Runs') \in Nat
    BY <2>5, FS_CardinalityType
  <2> QED
    BY <1>1, <1>2, <1>7, <1>8, <1>9, <2>5, <2>6 DEF RoomForResume
(* A resumption takes the room that the stop or the failure it saw left.   *)
<1>10. CASE ~(Runs' \subseteq Runs)
  <2>1. p \in Runs' /\ p \notin Runs
    BY <1>6, <1>10
  <2>2. HasRun(todo[p]) /\ p \in decided \ {Creator}
    BY <1>4, <1>5, <2>1, RunsHaveRuns
  <2>3. Resuming(p) /\ Call(p) = "queued"
    BY <2>2, EarlyCalls DEF EndWrite
  <2>4. last \in Resumable
    BY <1>1, <2>2, <2>3 DEF CountInv, ResumesResumable
  <2>5. Cardinality(Runs \cup {p}) = Cardinality(Runs) + 1 /\ IsFiniteSet(Runs \cup {p})
    BY <2>1, RunsFinite, FS_AddElement
  <2>6. Cardinality(Runs') \in Nat /\ Cardinality(Runs') <= Cardinality(Runs) + 1
    <3>1. IsFiniteSet(Runs') /\ Cardinality(Runs') <= Cardinality(Runs \cup {p})
      BY <1>6, <2>5, FS_Subset
    <3> QED
      BY <2>5, <3>1, FS_CardinalityType
  <2>7. last' \notin Resumable /\ stops' = stops
    BY <1>1, <2>3 DEF Resumable
  <2>8. RoomForResume'
    BY <1>7, <1>8, <2>4, <2>6, <2>7 DEF RoomForResume
  <2> QED
    BY <1>2, <2>8
(* A stop makes room for one more run, and every other status leaves none. *)
<1>11. CASE Runs' \subseteq Runs /\ Call(p) # "failed"
  <2>1. Cardinality(Runs') \in Nat /\ Cardinality(Runs') <= Cardinality(Runs)
    BY <1>11, RunsFinite
  <2>2. last' \in Resumable => Call(p) = "stopped"
    BY <1>1, <1>11 DEF Resumable
  <2>3. CASE Call(p) = "stopped"
    BY <1>1, <1>2, <1>7, <1>8, <2>1, <2>3 DEF RoomForResume
  <2>4. CASE Call(p) # "stopped"
    BY <1>1, <1>2, <1>7, <1>8, <2>1, <2>2, <2>4 DEF RoomForResume
  <2> QED
    BY <1>2, <2>3, <2>4
<1> QED
  BY <1>9, <1>10, <1>11

LEMMA CountKeeps ==
    ASSUME TypeOK, WindowsSave, FreshAreIdle, DecidedAreEarly, RunsEndLast, CalmInv, CountInv,
           NEW p \in Procs, Acts(p)
    PROVE  CountInv'
<1> SUFFICES ASSUME calm', ~stale' PROVE ResumesResumable' /\ RoomForResume'
  BY DEF CountInv
<1> DEFINE Loses ==
      p \notin decided' \ {Creator} /\ HasRun(todo'[p])
          => p \notin decided \ {Creator} /\ HasRun(todo[p])
           Sees == p \in decided' \ {Creator} /\ Resuming(p)' => last \in Resumable
<1>1. RunCalls' = RunCalls
  BY DEF RunCalls, Acts, StartTask, StopTask, ResumeTask, Decide, Proceed,
     LoadAndChange, BeginWrite, EndWrite, AgentEnds, Crash
<1>2. ASSUME p \in decided, p # Creator
      PROVE  Resuming(p) => last \in Resumable \/ ~calm \/ stale
  BY <1>2 DEF CountInv, ResumesResumable
<1>3. CASE p = Creator /\ StartTask
  <2>1. calm /\ ~stale /\ UNCHANGED <<last, stops>>
    BY <1>3 DEF StartTask, Decide
  <2>2. HasRun(todo[p])
    BY <1>3, CallsTyped DEF HasRun, RunCall, StartTask, AtCall
  <2> QED
    BY <1>3, <2>1, <2>2, NoStatusKeeps
<1>4. ASSUME p \in Commands, NEW b, NEW c, NEW refusal \in {<<>>, <<"log">>},
             Decide(p, b, c, refusal)
      PROVE  calm /\ ~stale /\ UNCHANGED <<last, stops>> /\ Loses
  <2>1. ~HasRun(<<>>) /\ ~HasRun(<<"log">>)
    BY DEF HasRun, RunCall, Terminal
  <2>2. p \in decided' \ {Creator} \/ todo'[p] \in {<<>>, <<"log">>}
    BY <1>4, BgTasksAssumption DEF Decide, Goto, TypeOK
  <2>3. Loses
    BY <2>1, <2>2
  <2> QED
    BY <1>4, <2>3 DEF Decide
<1>5. CASE p \in Commands /\ StopTask(p)
  <2>1. calm /\ ~stale /\ UNCHANGED <<last, stops>> /\ Loses
    BY <1>4, <1>5 DEF StopTask
  <2>2. ~Resuming(p)'
    <3>1. todo'[p] \in {<<>>, <<"log", "stopped">>}
      BY <1>5 DEF StopTask, Decide, Goto, TypeOK
    <3>2. RunCalls \in Seq(Calls)
      BY RunCallsTyped
    <3>3. /\ <<"log", "queued">> \o RunCalls # <<>> /\ <<"queued">> \o RunCalls # <<>>
          /\ <<"log", "queued">> \o RunCalls # <<"log", "stopped">>
          /\ <<"queued">> \o RunCalls # <<"log", "stopped">>
      <4>1. /\ (<<"log", "queued">> \o RunCalls)[2] = "queued"
            /\ <<"log", "stopped">>[2] = "stopped"
            /\ (<<"queued">> \o RunCalls)[1] = "queued"
            /\ <<"log", "stopped">>[1] = "log"
        BY <3>2
      <4>2. <<"log", "queued">> \o RunCalls # <<>> /\ <<"queued">> \o RunCalls # <<>>
        BY <3>2
      <4> QED
        BY <4>1, <4>2
    <3> QED
      BY <1>1, <3>1, <3>3 DEF Resuming
  <2> QED
    BY <2>1, <2>2, NoStatusKeeps
<1>6. CASE p \in Commands /\ ResumeTask(p)
  <2>1. calm /\ ~stale /\ UNCHANGED <<last, stops>> /\ Loses
    BY <1>4, <1>6 DEF ResumeTask
  <2>2. p \in decided' /\ p \notin decided => disk # Null /\ disk.status \in Resumable
    <3>1. ASSUME NEW b, NEW c, NEW d, Decide(p, b, c, d), p \in decided', p \notin decided
          PROVE  b
      BY <3>1 DEF Decide
    <3> QED
      BY <1>6, <3>1 DEF ResumeTask, MayResume
  <2>3. p \notin decided
    <3>1. todo[p] = <<>>
      BY <1>6 DEF FreshAreIdle, ResumeTask
    <3> QED
      BY <3>1, EarlyCalls
  <2>4. p \in decided' => last \in Resumable
    BY <2>1, <2>2, <2>3 DEF CalmInv, CalmKeepsUpdates
  <2> QED
    BY <2>1, <2>4, NoStatusKeeps
<1>7. CASE LoadAndChange(p)
  <2>1. disk # Null
    BY <1>7, LoadsFind
  <2>2. calm /\ ~stale /\ UNCHANGED <<last, stops, todo, decided>>
    BY <1>7, <2>1 DEF LoadAndChange
  <2>3. Loses /\ Sees
    BY <1>1, <1>2, <2>2 DEF Resuming
  <2> QED
    BY <2>2, <2>3, NoStatusKeeps
<1>8. CASE BeginWrite(p)
  <2>1. calm /\ ~stale /\ UNCHANGED <<last, stops, todo, decided>>
    BY <1>8 DEF BeginWrite
  <2>2. Loses /\ Sees
    BY <1>1, <1>2, <2>1 DEF Resuming
  <2> QED
    BY <2>1, <2>2, NoStatusKeeps
<1>9. CASE EndWrite(p) /\ Call(p) = "log"
  <2>1. calm /\ ~stale /\ UNCHANGED <<last, stops, decided>>
        /\ todo'[p] = Tail(todo[p]) /\ todo[p] # <<>>
    BY <1>9 DEF EndWrite, Goto, TypeOK, WindowsSave, InWindow
  <2>2. HasRun(todo'[p]) => HasRun(todo[p])
    BY <2>1, CallsTyped DEF HasRun
  <2>3. Sees
    <3>1. SUFFICES ASSUME p \in decided, p # Creator, Stopping(p) PROVE ~Resuming(p)'
      BY <1>2, <2>1, EarlyCalls
    <3>2. todo'[p] = <<"stopped">>
      BY <1>9, <2>1, <3>1, EarlyCalls
    <3>3. RunCalls \in Seq(Calls)
      BY RunCallsTyped
    <3>4. /\ (<<"log", "queued">> \o RunCalls)[1] = "log"
          /\ (<<"queued">> \o RunCalls)[1] = "queued"
          /\ <<"stopped">>[1] = "stopped"
      BY <3>3
    <3> QED
      BY <1>1, <3>2, <3>4 DEF Resuming
  <2> QED
    BY <2>1, <2>2, <2>3, NoStatusKeeps
<1>10. CASE EndWrite(p) /\ Call(p) # "log"
  BY <1>10, StatusKeeps DEF EndWrite
<1>11. CASE AgentEnds(p)
  <2>1. calm /\ ~stale /\ UNCHANGED <<last, stops, decided>>
        /\ todo[p] # <<>> /\ Call(p) = "agent"
    BY <1>11 DEF AgentEnds, AtCall
  <2>2. p \notin decided
    BY <2>1, EarlyCalls
  <2>3. HasRun(todo[p])
    BY <2>1, CallsTyped DEF HasRun, RunCall
  <2> QED
    BY <2>1, <2>2, <2>3, NoStatusKeeps
<1>12. CASE Crash(p)
  <2>1. calm /\ ~stale /\ UNCHANGED <<last, stops>> /\ todo'[p] = <<>> /\ p \notin decided'
    BY <1>12 DEF Crash, Goto, TypeOK
  <2>2. ~HasRun(<<>>)
    BY DEF HasRun
  <2> QED
    BY <2>1, <2>2, NoStatusKeeps
<1> QED
  BY <1>3, <1>5, <1>6, <1>7, <1>8, <1>9, <1>10, <1>11, <1>12 DEF Acts, Proceed

------------------------------------------------------------------------------
(* What holds of every run.                                                *)

LEMMA InitIInv == Init => IInv
<1> SUFFICES ASSUME Init PROVE IInv
  OBVIOUS
<1>1. \A p \in Procs : /\ todo[p] \in {<<>>, <<"start?">>} /\ pc[p] \in {"ready", "fresh"}
                       /\ pc[p] = "fresh" => todo[p] = <<>>
                       /\ copy[p] = Null /\ logged[p] = 0
  BY DEF Init
<1>2. /\ disk \in Records /\ disk.status = last /\ disk.logs = logged
      /\ disk # Null /\ decided = {} /\ last = "queued" /\ stops = 0
  <2>1. disk \in Records
    BY DEF Init, Records, Statuses
  <2> QED
    BY <2>1, NullIsNoRecord DEF Init
<1>3. TypeOK
  <2>1. \A t \in {<<>>, <<"start?">>} : t \in Seq(Calls)
    <3>1. <<>> \in Seq(Calls) /\ <<"start?">> \in Seq(Calls)
      BY DEF Calls
    <3> QED
      BY <3>1, Zenon
  <2>2. todo \in [Procs -> Seq(Calls)]
    <3>1. todo = [p \in Procs |-> todo[p]]
      BY DEF Init
    <3> QED
      BY <1>1, <2>1, <3>1
  <2>3. /\ pc \in [Procs -> {"fresh", "ready", "saving", "writing"}]
        /\ copy \in [Procs -> Records \cup {Null}]
        /\ logged \in [Procs -> Nat]
    BY DEF Init
  <2>4. kind \in Kinds /\ calm \in BOOLEAN /\ stale \in BOOLEAN /\ crashed \in BOOLEAN
    BY DEF Init
  <2> QED
    BY <1>2, <2>2, <2>3, <2>4 DEF TypeOK, Statuses
<1>4. WindowsSave /\ FreshAreIdle /\ DecidedAreEarly
  BY <1>1, <1>2 DEF WindowsSave, FreshAreIdle, DecidedAreEarly, InWindow
<1>9. RunsEndLast
  <2>1. EndsLast(<<>>) /\ EndsLast(<<"start?">>)
    BY DEF EndsLast, Terminal
  <2> QED
    BY <1>1, <2>1 DEF RunsEndLast, EndsLast
<1>5. CalmKeepsUpdates
  BY <1>2 DEF CalmKeepsUpdates
<1>6. OneInWindow /\ GoneWhileWritten /\ CopyFollows
  BY <1>1, <1>2 DEF OneInWindow, GoneWhileWritten, CopyFollows, InWindow
<1>7. ResumesResumable
  BY <1>2 DEF ResumesResumable
<1>8. RoomForResume
  <2>1. \A p \in Commands : todo[p] = <<>>
    BY BgTasksAssumption DEF Init, Procs
  <2>2. ~HasRun(<<>>)
    BY DEF HasRun
  <2>3. Runs \subseteq {Creator}
    BY <2>1, <2>2, RunsHaveRuns DEF Procs
  <2>4. IsFiniteSet({Creator}) /\ Cardinality({Creator}) = 1
    BY FS_Singleton
  <2>5. Cardinality(Runs) <= 1
    BY <2>3, <2>4, FS_Subset
  <2>6. last \notin Resumable
    BY <1>2 DEF Resumable
  <2>7. Cardinality(Runs) \in Nat
    BY RunsFinite
  <2> QED
    BY <1>2, <2>5, <2>6, <2>7 DEF RoomForResume
<1> QED
  BY <1>3, <1>4, <1>5, <1>6, <1>7, <1>8, <1>9 DEF IInv

(* The invariant survives every interleaving of the store calls, the       *)
(* decisions and the deaths of any number of processes.                    *)
THEOREM InductiveInvariant == Spec => []IInv
<1>1. IInv /\ [Next]_vars => IInv'
  <2> SUFFICES ASSUME IInv, [Next]_vars PROVE IInv'
    OBVIOUS
  <2>1. /\ TypeOK /\ WindowsSave /\ FreshAreIdle /\ DecidedAreEarly
        /\ RunsEndLast /\ CalmInv /\ CountInv
    BY DEF IInv, CalmInv, CountInv
  <2>2. ASSUME NEW p \in Procs, Acts(p) PROVE IInv'
    <3>1. TypeOK' /\ WindowsSave' /\ FreshAreIdle' /\ DecidedAreEarly'
      BY <2>1, <2>2, TypeKeeps, WindowsKeep, FreshKeep, EarlyKeeps
    <3>2. RunsEndLast' /\ CalmInv' /\ CountInv'
      BY <2>1, <2>2, EndLastKeeps, CalmKeeps, CountKeeps
    <3> QED
      BY <3>1, <3>2 DEF IInv, CalmInv, CountInv
  <2>3. CASE UNCHANGED vars
    <3> USE <2>3 DEF IInv, vars
    <3>1. TypeOK' /\ WindowsSave' /\ FreshAreIdle'
      BY DEF TypeOK, WindowsSave, FreshAreIdle, InWindow, Call
    <3>2. DecidedAreEarly' /\ RunsEndLast'
      BY DEF DecidedAreEarly, RunsEndLast, Stopping, Resuming, RunCalls
    <3>3. CalmKeepsUpdates' /\ (calm => OneInWindow /\ GoneWhileWritten /\ CopyFollows)'
      BY DEF CalmKeepsUpdates, OneInWindow, GoneWhileWritten, CopyFollows, InWindow, Call
    <3>4. (calm /\ ~stale => ResumesResumable /\ RoomForResume)'
      BY DEF ResumesResumable, RoomForResume, Resuming, RunCalls, Runs
    <3> QED
      BY <3>1, <3>2, <3>3, <3>4
  <2> QED
    BY <2>2, <2>3, NextActs
<1> QED
  BY InitIInv, <1>1, PTL DEF Spec

(* Undisturbed, the record has the last status and every log line.         *)
THEOREM UpdatesAreKept == Spec => []CalmKeepsUpdates
<1>1. IInv => CalmKeepsUpdates
  BY DEF IInv
<1> QED
  BY InductiveInvariant, <1>1, PTL

(* Undisturbed and with true decisions, at most one run more than there    *)
(* were stops goes on, whatever number of processes stop and resume the    *)
(* task, and however many of its runs have failed.                         *)
THEOREM RunsAreStopped == Spec => []OneMoreRunPerStop
<1>1. IInv => OneMoreRunPerStop
  <2> SUFFICES ASSUME IInv, calm, ~stale PROVE Cardinality(Executing) <= 1 + stops
    BY DEF OneMoreRunPerStop
  <2> USE DEF IInv
  <2>1. Executing = {p \in Procs : /\ \E i \in DOMAIN todo[p] : todo[p][i] \in Terminal \cup {"agent"}
                                  /\ ~\E i \in DOMAIN todo[p] : todo[p][i] = "running"}
    BY DEF Executing, Range
  (* A process that has decided to run has not begun to. *)
  <2>2. \A p \in decided : p \notin Executing
    <3> SUFFICES ASSUME NEW p \in decided, HasRun(todo[p])
                 PROVE  \E i \in DOMAIN todo[p] : todo[p][i] = "running"
      BY <2>1 DEF HasRun, RunCall
    <3>1. /\ RunCalls \in Seq(Calls) /\ Len(RunCalls) > 0 /\ RunCalls[1] = "running"
      BY RunCallsTyped
    <3>2. CASE p = Creator
      BY <3>1, <3>2, RunCallsTyped DEF DecidedAreEarly
    <3>3. CASE p # Creator
      <4>1. Resuming(p)
        BY <3>3, EarlyCalls
      <4>2. CASE todo[p] = <<"log", "queued">> \o RunCalls
        <5>1. 3 \in DOMAIN todo[p] /\ todo[p][3] = "running"
          BY <3>1, <4>2
        <5> QED
          BY <5>1
      <4>3. CASE todo[p] = <<"queued">> \o RunCalls
        <5>1. 2 \in DOMAIN todo[p] /\ todo[p][2] = "running"
          BY <3>1, <4>3
        <5> QED
          BY <5>1
      <4> QED
        BY <4>1, <4>2, <4>3 DEF Resuming
    <3> QED
      BY <3>2, <3>3
  <2>3. Executing \subseteq Runs
    BY <2>1, <2>2, RunsHaveRuns DEF HasRun, RunCall
  <2>4. Cardinality(Executing) \in Nat /\ Cardinality(Executing) <= Cardinality(Runs)
        /\ Cardinality(Runs) \in Nat
    BY <2>3, RunsFinite
  <2>5. Cardinality(Runs) <= 1 + stops
    BY <2>4 DEF RoomForResume, TypeOK
  <2> QED
    BY <2>4, <2>5 DEF TypeOK
<1> QED
  BY InductiveInvariant, <1>1, PTL
===============================================================================
