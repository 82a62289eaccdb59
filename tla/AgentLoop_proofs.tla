--------------------------- MODULE AgentLoop_proofs ---------------------------
(***************************************************************************)
(* Proofs about AgentLoop, for any iteration budget, limit on errors and   *)
(* number of tool calls in a reply.                                        *)
(***************************************************************************)
EXTENDS AgentLoop, Integers, WellFoundedInduction, TLAPS

------------------------------------------------------------------------------
(* The phases.                                                             *)

(* A transition leads to the phase it names or leaves the phase alone. *)
LEMMA ToEither ==
    ASSUME NEW p, NEW q
    PROVE  To(p, q) \in {p, q}
BY DEF To

(* What the runtime controller makes of a phase: only the end of a run     *)
(* that answered is "completed", and each end is terminal.                 *)
LEMMA PhasesMove ==
    ASSUME NEW p \in Phases, p # "completed"
    PROVE  /\ \A q \in Phases \ {"completed"} : To(p, q) \in Phases \ {"completed"}
           /\ \A ok \in BOOLEAN : Recover(p, ok) \in Phases \ {"completed"}
           /\ \A ok \in BOOLEAN : Verify(p, ok) \in Phases \ {"completed"}
           /\ FailRun(p) = "failed"
           /\ CompleteRun(p) \in {"completed", "failed"}
<1>1. \A q \in Phases \ {"completed"} : To(p, q) \in Phases \ {"completed"}
  BY ToEither
<1>2. \A ok \in BOOLEAN : Recover(p, ok) \in Phases \ {"completed"}
  BY DEF Recover, To, Phases
<1>3. \A ok \in BOOLEAN : Verify(p, ok) \in Phases \ {"completed"}
  BY DEF Verify, To, Phases
<1>4. FailRun(p) = "failed"
  BY DEF FailRun, To, Allowed, Phases
<1>5. CompleteRun(p) \in {"completed", "failed"}
  BY DEF CompleteRun, To, Allowed, Phases
<1> QED
  BY <1>1, <1>2, <1>3, <1>4, <1>5

------------------------------------------------------------------------------
(* Counting the errors of a reply.                                         *)

LEMMA LeastNumber ==
    ASSUME NEW T \in SUBSET Nat, T # {}
    PROVE  \E x \in T : \A y \in T : x <= y
<1> DEFINE R == {ss \in Nat \X Nat : ss[1] < ss[2]}
<1>1. IsWellFoundedOn(R, Nat)
  BY NatLessThanWellFounded DEF OpToRel
<1>2. PICK x \in T : \A y \in T : <<y, x>> \notin R
  <2> HIDE DEF R
  <2> QED
    BY <1>1, WFMin
<1>3. ASSUME NEW y \in T PROVE x <= y
  <2>1. <<y, x>> \in Nat \X Nat /\ <<y, x>> \notin R
    BY <1>2
  <2>2. ~(y < x)
    BY <2>1
  <2> QED
    BY <2>2
<1> QED
  BY <1>3

(* Induction over 0..k: a set that has 0 and is closed under +1 has all. *)
LEMMA CountingUp ==
    ASSUME NEW k \in Nat, NEW S, 0 \in S,
           \A n \in 1..k : n - 1 \in S => n \in S
    PROVE  0..k \subseteq S
<1> SUFFICES ASSUME (0..k) \ S # {} PROVE FALSE
  OBVIOUS
<1>0. (0..k) \ S \in SUBSET Nat
  OBVIOUS
<1>1. PICK x \in (0..k) \ S : \A y \in (0..k) \ S : x <= y
  BY <1>0, LeastNumber
<1>2. x \in 1..k /\ x - 1 \in 0..k /\ ~(x <= x - 1)
  BY <1>1
<1> QED
  BY <1>1, <1>2

(* The recursion of ErrorsAfter has a solution, so it is what it says. *)
LEMMA ErrorsAfterRecursion ==
    ErrorsAfter =
        [n \in 0..MaxCalls |->
            IF n = 0 THEN errors
            ELSE IF status[n] \in Returned THEN 0
            ELSE ErrorsAfter[n - 1] + Increment(status[n])]
<1> DEFINE After(g, n) == IF n = 0 THEN errors
                          ELSE IF status[n] \in Returned THEN 0
                          ELSE g[n - 1] + Increment(status[n])
           Upto(k) == \E g : g = [n \in 0..k |-> After(g, n)]
           S == {k \in 0..MaxCalls : Upto(k)}
<1>0. MaxCalls \in Nat
  BY AgentLoopAssumption
<1>1. 0 \in S
  <2> DEFINE g == [n \in 0..0 |-> errors]
  <2>1. g = [n \in 0..0 |-> After(g, n)]
    OBVIOUS
  <2>2. Upto(0)
    <3> HIDE DEF After, g
    <3> QED
      BY <2>1
  <2> QED
    BY <1>0, <2>2
<1>2. ASSUME NEW k \in 1..MaxCalls, k - 1 \in S PROVE k \in S
  <2>1. PICK g : g = [n \in 0..(k - 1) |-> After(g, n)]
    BY <1>2
  <2> DEFINE h == [n \in 0..k |-> IF n = k THEN After(g, k) ELSE g[n]]
  <2>2. ASSUME NEW n \in 0..k PROVE h[n] = After(h, n)
    <3>1. CASE n = k
      <4>1. h[n - 1] = g[n - 1]
        BY <3>1
      <4> QED
        BY <3>1, <4>1
    <3>2. CASE n # k
      <4>1. n \in 0..(k - 1) /\ h[n] = g[n]
        BY <3>2
      <4>2. g[n] = After(g, n)
        BY <2>1, <4>1
      <4>3. n # 0 => h[n - 1] = g[n - 1]
        BY <3>2
      <4> QED
        BY <4>1, <4>2, <4>3
    <3> QED
      BY <3>1, <3>2
  <2>3. h = [n \in 0..k |-> After(h, n)]
    <3> HIDE DEF After
    <3> QED
      BY <2>2
  <2>4. Upto(k)
    <3> HIDE DEF After, h
    <3> QED
      BY <2>3
  <2> QED
    BY <2>4
<1>3. Upto(MaxCalls)
  <2> HIDE DEF S
  <2>1. MaxCalls \in S
    BY <1>0, <1>1, <1>2, CountingUp
  <2> QED
    BY <2>1 DEF S
<1> QED
  BY <1>3 DEF ErrorsAfter

(* Below the limit a reply counts on from errors, and stays below it as    *)
(* long as no call halts the run.                                          *)
LEMMA ErrorsCounted ==
    ASSUME TypeOK, errors < MaxErrors
    PROVE  \A n \in 0..Len(calls) :
              /\ ErrorsAfter[n] \in Nat
              /\ (\A m \in 1..n : ~Halts(m)) => ErrorsAfter[n] < MaxErrors
<1> DEFINE Counted(n) == /\ ErrorsAfter[n] \in Nat
                         /\ (\A m \in 1..n : ~Halts(m)) => ErrorsAfter[n] < MaxErrors
           S == {n \in 0..Len(calls) : Counted(n)}
<1>0. MaxErrors \in Nat /\ Len(calls) \in Nat /\ Len(calls) <= MaxCalls /\ errors \in Nat
         /\ MaxCalls \in Nat
  BY AgentLoopAssumption DEF TypeOK
<1>1. 0 \in S
  BY <1>0, ErrorsAfterRecursion
<1>2. ASSUME NEW n \in 1..Len(calls), n - 1 \in S PROVE n \in S
  <2>1. Increment(status[n]) \in 0..2
    BY DEF Increment
  <2>2. ErrorsAfter[n] = IF status[n] \in Returned THEN 0
                         ELSE ErrorsAfter[n - 1] + Increment(status[n])
    BY <1>0, ErrorsAfterRecursion
  <2>3. ErrorsAfter[n - 1] \in Nat
    BY <1>2
  <2>4. ASSUME \A m \in 1..n : ~Halts(m) PROVE ErrorsAfter[n] < MaxErrors
    <3>1. ErrorsAfter[n - 1] < MaxErrors
      BY <1>2, <2>4
    <3>2. Increment(status[n]) = 0 \/ ~(ErrorsAfter[n] >= MaxErrors)
      BY <2>1, <2>4 DEF Halts
    <3> QED
      BY <1>0, <2>1, <2>2, <2>3, <3>1, <3>2
  <2> QED
    BY <2>1, <2>2, <2>3, <2>4
<1> QED
  <2> HIDE DEF S
  <2>1. 0..Len(calls) \subseteq S
    BY <1>0, <1>1, <1>2, CountingUp
  <2> QED
    BY <2>1 DEF S

(* A reply that halts the run does so at its first call that halts, which  *)
(* is recorded, and goes at most one over the limit.                       *)
LEMMA FirstHalts ==
    ASSUME TypeOK, errors < MaxErrors, Halted
    PROVE  /\ \E n \in Recorded : Halts(n)
           /\ \A n \in Recorded : Halts(n) => ErrorsAfter[n] \in 0..(MaxErrors + 1)
<1>0. MaxErrors \in Nat /\ Len(calls) \in Nat /\ Len(calls) <= MaxCalls
         /\ MaxCalls \in Nat /\ DOMAIN calls = 1..Len(calls)
  BY AgentLoopAssumption DEF TypeOK
<1>1. \E n \in Recorded : Halts(n)
  <2> DEFINE T == {n \in DOMAIN calls : Halts(n)}
  <2>1. T \in SUBSET Nat /\ T # {}
    BY <1>0 DEF Halted
  <2>2. PICK n \in T : \A m \in T : n <= m
    <3> HIDE DEF T
    <3> QED
      BY <2>1, LeastNumber
  <2>3. ASSUME NEW m \in 1..(n - 1) PROVE ~Halts(m)
    <3>1. m \in DOMAIN calls /\ ~(n <= m)
      BY <1>0, <2>2
    <3> QED
      BY <2>2, <3>1
  <2> QED
    BY <2>2, <2>3 DEF Recorded
<1>2. ASSUME NEW n \in Recorded, Halts(n) PROVE ErrorsAfter[n] \in 0..(MaxErrors + 1)
  <2>1. n \in 1..Len(calls) /\ n - 1 \in 0..Len(calls)
    BY <1>0 DEF Recorded
  <2>2. ErrorsAfter[n - 1] \in Nat /\ ErrorsAfter[n - 1] < MaxErrors
    BY <2>1, ErrorsCounted DEF Recorded
  <2>3. ErrorsAfter[n] = IF status[n] \in Returned THEN 0
                         ELSE ErrorsAfter[n - 1] + Increment(status[n])
    BY <1>0, <2>1, ErrorsAfterRecursion
  <2>4. Increment(status[n]) \in 0..2
    BY DEF Increment
  <2> QED
    BY <1>0, <2>2, <2>3, <2>4
<1> QED
  BY <1>1, <1>2

------------------------------------------------------------------------------
(* One step of a tool call.                                                *)

AtWorkOrAsking == {"running", "asking", "approved"}

(* The i-th call moves on to s, as far as the invariants are concerned. *)
Moves(i, s) ==
    /\ status[i] \in Unfinished
    /\ s \in (Unfinished \ {"waiting"}) \cup Finished
    /\ Move(i, s) /\ RestUnchanged
    /\ status[i] = "waiting" =>
          /\ MayStart(i) /\ s # "asking"
          /\ s \in AtWorkOrAsking => calls[i] \notin Checkpointed
    /\ phase' \in Phases \ {"completed"}

(* What becomes of the request in the UI ... *)
SlotMoves(i, s) ==
    \/ slot' = slot /\ status[i] # "asking" /\ s # "asking"
    \/ slot' = i /\ s = "asking"
    \/ slot' = 0 /\ slot = i /\ s # "asking"

(* ... and of the checkpoint and the edits since. *)
UndoMoves(i, s) ==
    \/ /\ UNCHANGED <<checkpoint, undo>>
       /\ s \in AtWorkOrAsking =>
             status[i] \in AtWorkOrAsking \/ calls[i] \notin Checkpointed
    \/ undo' = 0 /\ checkpoint' = TRUE
    \/ undo' = 0 /\ UNCHANGED checkpoint /\ s = "notOk"
    \/ /\ undo' = undo + 1 /\ UNCHANGED checkpoint
       /\ calls[i] \in Checkpointed /\ status[i] \in AtWorkOrAsking /\ s = "ok"

LEMMA ToolStepMoves ==
    ASSUME TypeOK, phase # "completed", NEW i \in DOMAIN calls, ToolStep(i)
    PROVE  \E s : Moves(i, s) /\ SlotMoves(i, s) /\ UndoMoves(i, s)
<1> USE DEF At, Unfinished, Finished, Returned, AtWorkOrAsking
<1>0. /\ phase \in Phases
      /\ \A q \in Phases \ {"completed"} : To(phase, q) \in Phases \ {"completed"}
  BY PhasesMove DEF TypeOK
<1>1. CASE Malformed(i)
  <2>1. Moves(i, "malformed")
    BY <1>0, <1>1, PhasesMove DEF Malformed, Moves
  <2> QED
    BY <1>1, <2>1 DEF Malformed, SlotMoves, UndoMoves
<1>2. CASE Start(i)
  <2>1. CASE calls[i] \in Checkpointed
    <3>1. Moves(i, "checkpointing")
      BY <1>0, <1>2, <2>1 DEF Start, Moves
    <3> QED
      BY <1>2, <2>1, <3>1 DEF Start, SlotMoves, UndoMoves
  <2>2. CASE calls[i] \notin Checkpointed
    <3>1. Moves(i, "running")
      BY <1>0, <1>2, <2>2 DEF Start, Moves, Phases
    <3> QED
      BY <1>2, <2>2, <3>1 DEF Start, SlotMoves, UndoMoves
  <2> QED
    BY <2>1, <2>2
<1>3. CASE Checkpoint(i)
  <2>1. To(To(phase, "checkpointing"), "executing_tool") \in Phases \ {"completed"}
    BY <1>0, PhasesMove DEF Phases
  <2>2. Moves(i, "running")
    BY <1>3, <2>1 DEF Checkpoint, Moves
  <2> QED
    BY <1>3, <2>2 DEF Checkpoint, SlotMoves, UndoMoves
<1>4. CASE CheckpointFails(i)
  <2>1. FailRun(phase) \in Phases \ {"completed"}
    BY <1>0, PhasesMove DEF Phases
  <2>2. Moves(i, "threw")
    BY <1>4, <2>1 DEF CheckpointFails, Moves
  <2> QED
    BY <1>4, <2>2 DEF CheckpointFails, SlotMoves, UndoMoves
<1>5. CASE Ask(i)
  <2>1. Moves(i, "asking")
    BY <1>0, <1>5 DEF Ask, Moves
  <2> QED
    BY <1>5, <2>1 DEF Ask, SlotMoves, UndoMoves
<1>6. CASE AnswerRequest(i)
  <2>1. CASE Move(i, "approved") /\ UNCHANGED phase
    <3>1. Moves(i, "approved")
      BY <1>0, <1>6, <2>1 DEF AnswerRequest, Moves
    <3> QED
      BY <1>6, <3>1 DEF AnswerRequest, SlotMoves, UndoMoves
  <2>2. CASE Move(i, "error") /\ phase' = To(phase, "recovering")
    <3>1. Moves(i, "error")
      BY <1>0, <1>6, <2>2 DEF AnswerRequest, Moves, Phases
    <3> QED
      BY <1>6, <3>1 DEF AnswerRequest, SlotMoves, UndoMoves
  <2> QED
    BY <1>6, <2>1, <2>2 DEF AnswerRequest
<1>7. ASSUME NEW result \in Returned, Return(i, result)
      PROVE  \E s : Moves(i, s) /\ SlotMoves(i, s) /\ UndoMoves(i, s)
  <2> DEFINE p == To(phase, "observing")
             next == IF calls[i] = "verify" /\ result = "notOk" /\ checkpoint
                     THEN "restoring" ELSE result
  <2>1. p \in Phases \ {"completed"}
    BY <1>0 DEF Phases
  <2>2. phase' \in Phases \ {"completed"} /\ Move(i, next)
    <3>1. CASE calls[i] = "verify" /\ result = "notOk" /\ checkpoint
      <4>1. phase' = To(p, "verifying")
        BY <1>7, <3>1 DEF Return
      <4> QED
        BY <1>7, <2>1, <3>1, <4>1, PhasesMove DEF Return, Phases
    <3>2. CASE calls[i] = "verify" /\ ~(result = "notOk" /\ checkpoint)
      <4>1. phase' = Verify(p, result = "ok") /\ Move(i, result)
        BY <1>7, <3>2 DEF Return
      <4> QED
        BY <2>1, <3>2, <4>1, PhasesMove
    <3>3. CASE calls[i] # "verify" /\ result = "notOk"
      <4>1. PICK ok \in BOOLEAN : phase' = Recover(p, ok)
        BY <1>7, <3>3 DEF Return
      <4>2. Move(i, result)
        BY <1>7, <3>3 DEF Return
      <4> QED
        BY <2>1, <3>3, <4>1, <4>2, PhasesMove
    <3>4. CASE calls[i] # "verify" /\ result # "notOk"
      <4>1. phase' = p /\ Move(i, result)
        BY <1>7, <3>4 DEF Return
      <4> QED
        BY <2>1, <3>4, <4>1
    <3> QED
      BY <3>1, <3>2, <3>3, <3>4
  <2>3. Moves(i, next)
    BY <1>7, <2>2 DEF Return, AtWork, Moves
  <2>4. SlotMoves(i, next)
    BY <1>7 DEF Return, AtWork, SlotMoves
  <2>5. UndoMoves(i, next)
    <3>1. calls[i] \in Checkpointed => next = result
      BY DEF Checkpointed
    <3> QED
      BY <1>7, <3>1 DEF Return, AtWork, UndoMoves
  <2> QED
    BY <2>3, <2>4, <2>5
<1>8. CASE Restore(i)
  <2>1. Moves(i, "notOk")
    BY <1>0, <1>8 DEF Restore, Moves, Phases
  <2> QED
    BY <1>8, <2>1 DEF Restore, SlotMoves, UndoMoves
<1>9. ASSUME NEW how \in {"error", "missing"}, Throw(i, how)
      PROVE  \E s : Moves(i, s) /\ SlotMoves(i, s) /\ UndoMoves(i, s)
  <2>1. Moves(i, how)
    BY <1>0, <1>9 DEF Throw, AtWork, Moves, Phases
  <2> QED
    BY <1>9, <2>1 DEF Throw, AtWork, SlotMoves, UndoMoves
<1>10. CASE StartThrows(i)
  <2>1. Moves(i, "threw")
    BY <1>0, <1>10 DEF StartThrows, Moves, TypeOK
  <2> QED
    BY <1>10, <2>1 DEF StartThrows, SlotMoves, UndoMoves
<1> QED
  BY <1>1, <1>2, <1>3, <1>4, <1>5, <1>6, <1>7, <1>8, <1>9, <1>10 DEF ToolStep

------------------------------------------------------------------------------
(* The steps keep the invariant.                                           *)

LEMMA InitIInv == Init => IInv
<1> SUFFICES ASSUME Init PROVE IInv
  OBVIOUS
<1> USE AgentLoopAssumption DEF Init
<1>1. TypeOK
  <2>1. calls \in Seq(Tools) /\ Len(calls) = 0
    OBVIOUS
  <2>2. status \in [1..Len(calls) -> Unfinished \cup Finished]
    BY <2>1
  <2>3. errors \in 0..(MaxErrors + 1) /\ iteration \in 0..(Budget - 1)
    OBVIOUS
  <2>4. Len(calls) <= MaxCalls /\ slot \in 0..Len(calls) /\ stall \in 0..StallWindow
    BY <2>1 DEF StallWindow
  <2>5. phase \in Phases /\ outcome \in Outcomes
    BY DEF Phases, Outcomes
  <2> QED
    BY <2>1, <2>2, <2>3, <2>4, <2>5 DEF TypeOK
<1>2. RunWithinLimits /\ SlotIsAsking
  BY DEF RunWithinLimits, Running, SlotIsAsking, StallWindow
<1>3. EditsAreCheckpointed /\ SerialEffects /\ WritesAreAnswered
  BY DEF EditsAreCheckpointed, SerialEffects, WritesAreAnswered
<1>4. OneEditUndone /\ DroppedEndsRun /\ PhaseAgrees
  BY DEF OneEditUndone, DroppedEndsRun, PhaseAgrees, Running
<1> QED
  BY <1>1, <1>2, <1>3, <1>4 DEF IInv

LEMMA ToolStepKeeps ==
    ASSUME IInv, NEW i \in DOMAIN calls, ToolStep(i)
    PROVE  IInv'
<1> USE DEF IInv
<1>0. Running
  BY DEF RunWithinLimits, TypeOK
<1>1. phase # "completed"
  BY <1>0 DEF PhaseAgrees, Running
<1>2. PICK s : Moves(i, s) /\ SlotMoves(i, s) /\ UndoMoves(i, s)
  BY <1>1, ToolStepMoves
<1> USE <1>2 DEF Moves, Move, RestUnchanged
<1>3. /\ DOMAIN status = DOMAIN calls /\ DOMAIN calls = 1..Len(calls)
      /\ status'[i] = s
      /\ \A j \in DOMAIN calls \ {i} : status'[j] = status[j]
      /\ status[i] \notin Finished /\ s # "waiting"
  BY DEF TypeOK, Unfinished, Finished, Returned
<1>4. TypeOK'
  <2>1. status' \in [1..Len(calls) -> Unfinished \cup Finished]
    BY DEF TypeOK
  <2>2. slot' \in 0..Len(calls)
    BY <1>3 DEF TypeOK, SlotMoves
  <2>3. undo' \in Nat /\ checkpoint' \in BOOLEAN
    <3>1. undo \in Nat /\ checkpoint \in BOOLEAN
      BY DEF TypeOK
    <3>2. undo' \in {undo, 0, undo + 1} /\ checkpoint' \in {checkpoint, TRUE}
      BY DEF UndoMoves
    <3>3. undo' \in Nat
      BY <3>1, <3>2
    <3>4. checkpoint' \in BOOLEAN
      BY <3>1, <3>2, Zenon
    <3> QED
      BY <3>3, <3>4
  <2> QED
    BY <2>1, <2>2, <2>3 DEF TypeOK
<1>5. RunWithinLimits'
  BY DEF RunWithinLimits, Running
<1>6. SlotIsAsking'
  BY <1>3 DEF SlotIsAsking, SlotMoves, At
<1>7. SerialEffects'
  <2> SUFFICES ASSUME NEW j \in DOMAIN calls, NEW k \in DOMAIN calls, j < k,
                      calls[j] \notin ReadOnly \/ calls[k] \notin ReadOnly,
                      status'[k] # "waiting"
               PROVE  status'[j] \in Finished
    BY DEF SerialEffects
  <2>1. CASE status[k] # "waiting"
    BY <1>3, <2>1 DEF SerialEffects
  <2>2. CASE status[k] = "waiting"
    <3>1. k = i
      BY <1>3, <2>2
    <3>2. status[j] \in Finished \/ SameGroup(k, j)
      BY <1>3, <2>2, <3>1 DEF MayStart
    <3>3. ~SameGroup(k, j)
      BY <1>3 DEF SameGroup
    <3> QED
      BY <1>3, <3>1, <3>2, <3>3
  <2> QED
    BY <2>1, <2>2
(* A call that is not a read is alone at work. *)
<1>8. ASSUME NEW j \in DOMAIN calls, j # i, calls[j] \notin ReadOnly,
             status[j] \in AtWorkOrAsking
      PROVE  FALSE
  <2>1. status[j] # "waiting" /\ status[j] \notin Finished
    BY <1>8 DEF AtWorkOrAsking, Finished, Returned
  <2>2. i < j \/ j < i
    BY <1>3, <1>8
  <2>3. j < i
    BY <1>3, <1>8, <2>1, <2>2 DEF SerialEffects
  <2>4. status[i] = "waiting"
    BY <1>8, <2>1, <2>3 DEF SerialEffects
  <2>5. SameGroup(i, j)
    BY <1>3, <2>1, <2>3, <2>4 DEF MayStart
  <2> QED
    BY <1>3, <1>8, <2>3, <2>5 DEF SameGroup
<1>9. EditsAreCheckpointed'
  <2> SUFFICES ASSUME NEW j \in DOMAIN calls, calls[j] \in Checkpointed,
                      status'[j] \in AtWorkOrAsking
               PROVE  checkpoint' /\ undo' = 0
    BY DEF EditsAreCheckpointed, AtWorkOrAsking
  <2>1. j = i
    BY <1>3, <1>8 DEF Checkpointed, ReadOnly
  <2>2. status[i] \in AtWorkOrAsking => checkpoint /\ undo = 0
    BY <2>1 DEF EditsAreCheckpointed, AtWorkOrAsking
  <2>3. s # "ok" /\ s # "notOk"
    BY <1>3, <2>1 DEF AtWorkOrAsking
  <2> QED
    BY <1>3, <2>1, <2>2, <2>3 DEF UndoMoves
<1>10. OneEditUndone'
  <2>1. status[i] \in AtWorkOrAsking /\ calls[i] \in Checkpointed => undo = 0
    BY DEF EditsAreCheckpointed, AtWorkOrAsking
  <2>2. CASE UNCHANGED <<checkpoint, undo>>
    BY <2>2 DEF OneEditUndone
  <2>3. CASE undo' = 0
    BY <2>3 DEF OneEditUndone
  <2>4. CASE undo' = undo + 1 /\ undo = 0
    BY <2>4 DEF OneEditUndone
  <2> QED
    BY <2>1, <2>2, <2>3, <2>4 DEF UndoMoves
<1>11. WritesAreAnswered'
  <2> SUFFICES ASSUME NEW j \in DOMAIN calls, status'[j] = "asking",
                      calls[j] \notin ReadOnly
               PROVE  slot' = j
    BY DEF WritesAreAnswered, At
  <2>1. j = i
    BY <1>3, <1>8 DEF AtWorkOrAsking
  <2>2. s = "asking"
    BY <1>3, <2>1
  <2>3. status[i] = "asking" => slot = i
    BY <1>3, <2>1 DEF WritesAreAnswered, At
  <2> QED
    BY <2>1, <2>2, <2>3 DEF SlotMoves
<1>12. DroppedEndsRun' /\ PhaseAgrees'
  BY <1>0 DEF DroppedEndsRun, PhaseAgrees, Running
<1> QED
  BY <1>4, <1>5, <1>6, <1>7, <1>9, <1>10, <1>11, <1>12

(* The next iteration, or the end after the last one. *)
LEMMA IterateKeeps ==
    ASSUME TypeOK, Running, NEW p \in Phases \ {"completed"}, Iterate(p)
    PROVE  /\ iteration' \in 0..(Budget - 1)
           /\ outcome' \in {"none", "exhausted"}
           /\ phase' \in Phases \ {"completed"}
           /\ outcome' # "none" => phase' = "failed"
<1> USE AgentLoopAssumption DEF TypeOK, Running
<1>1. CASE iteration + 1 < Budget
  <2>1. iteration' = iteration + 1 /\ phase' = To(p, "planning") /\ outcome' = "none"
    BY <1>1 DEF Iterate
  <2>2. phase' \in Phases \ {"completed"}
    BY <2>1, PhasesMove DEF Phases
  <2> QED
    BY <1>1, <2>1, <2>2
<1>2. CASE ~(iteration + 1 < Budget)
  <2>1. iteration' = iteration /\ phase' = "failed" /\ outcome' = "exhausted"
    BY <1>2, PhasesMove DEF Iterate, End
  <2> QED
    BY <2>1 DEF Phases
<1> QED
  BY <1>1, <1>2

(* A step that leaves no calls, and the rest of the state as the invariant *)
(* wants it.                                                               *)
LEMMA WithoutCallsKeeps ==
    ASSUME IInv, calls' = <<>>, status' = <<>>, slot' = 0,
           UNCHANGED <<checkpoint, undo>>,
           errors' \in 0..(MaxErrors + 1), stall' \in 0..StallWindow,
           iteration' \in 0..(Budget - 1), outcome' \in Outcomes,
           phase' \in Phases, dropped' \in BOOLEAN,
           RunWithinLimits', DroppedEndsRun', PhaseAgrees'
    PROVE  IInv'
<1> USE AgentLoopAssumption DEF IInv
<1>1. TypeOK'
  <2>1. calls' \in Seq(Tools) /\ Len(calls') = 0
    OBVIOUS
  <2>2. status' \in [1..Len(calls') -> Unfinished \cup Finished]
    BY <2>1
  <2>3. Len(calls') <= MaxCalls /\ slot' \in 0..Len(calls')
    BY <2>1
  <2> QED
    BY <2>1, <2>2, <2>3 DEF TypeOK
<1>2. SlotIsAsking' /\ EditsAreCheckpointed' /\ SerialEffects' /\ WritesAreAnswered'
  BY DEF SlotIsAsking, EditsAreCheckpointed, SerialEffects, WritesAreAnswered
<1>3. OneEditUndone'
  BY DEF OneEditUndone
<1> QED
  BY <1>1, <1>2, <1>3

LEMMA StreamFailsKeeps == IInv /\ StreamFails => IInv'
<1> SUFFICES ASSUME IInv, StreamFails PROVE IInv'
  OBVIOUS
<1> USE AgentLoopAssumption DEF IInv, StreamFails, AskingModel
<1>1. /\ phase \in Phases \ {"completed"} /\ errors < MaxErrors /\ stall < StallWindow
      /\ outcome = "none" /\ ~dropped
  BY DEF RunWithinLimits, PhaseAgrees, DroppedEndsRun, Running, TypeOK
<1>2. slot = 0 /\ status = <<>>
  BY DEF TypeOK
<1> DEFINE p == To(phase, "recovering")
<1>3. p \in Phases \ {"completed"}
  BY <1>1, PhasesMove DEF Phases
<1>4. \/ outcome' \in {"rejected", "errors"} /\ phase' = "failed" /\ iteration' = iteration
      \/ errors' < MaxErrors /\ Iterate(p)
  BY <1>3, PhasesMove DEF End
<1>5. /\ iteration' \in 0..(Budget - 1) /\ phase' \in Phases \ {"completed"}
      /\ outcome' \in Outcomes
      /\ outcome' = "none" => errors' < MaxErrors
      /\ outcome' # "none" => phase' = "failed"
  <2>1. CASE errors' < MaxErrors /\ Iterate(p)
    <3> HIDE DEF p
    <3> QED
      BY <1>3, <2>1, IterateKeeps DEF Outcomes
  <2>2. CASE outcome' \in {"rejected", "errors"} /\ phase' = "failed" /\ iteration' = iteration
    BY <2>2 DEF TypeOK, Phases, Outcomes
  <2> QED
    BY <1>4, <2>1, <2>2
<1>6. errors' \in 0..(MaxErrors + 1)
  BY <1>1 DEF TypeOK
<1>7. RunWithinLimits'
  BY <1>1, <1>5 DEF RunWithinLimits, Running
<1>8. DroppedEndsRun' /\ PhaseAgrees'
  BY <1>1, <1>5 DEF DroppedEndsRun, PhaseAgrees, Running
<1>9. stall' \in 0..StallWindow /\ dropped' \in BOOLEAN
  BY DEF TypeOK
<1> QED
  BY <1>2, <1>5, <1>6, <1>7, <1>8, <1>9, WithoutCallsKeeps

LEMMA AnswerKeeps == IInv /\ Answer => IInv'
<1> SUFFICES ASSUME IInv, Answer PROVE IInv'
  OBVIOUS
<1> USE AgentLoopAssumption DEF IInv, Answer, AskingModel
<1>1. phase \in Phases \ {"completed"} /\ outcome = "none" /\ ~dropped
  BY DEF PhaseAgrees, DroppedEndsRun, Running, TypeOK
<1>2. slot = 0 /\ status = <<>>
  BY DEF TypeOK
<1>3. phase' \in {"completed", "failed"} /\ outcome' = "answered" /\ iteration' = iteration
  BY <1>1, PhasesMove DEF End
<1>4. RunWithinLimits' /\ DroppedEndsRun' /\ PhaseAgrees'
  BY <1>1, <1>3 DEF RunWithinLimits, DroppedEndsRun, PhaseAgrees, Running
<1>5. phase' \in Phases /\ outcome' \in Outcomes
  BY <1>3 DEF Phases, Outcomes
<1>6. /\ errors' \in 0..(MaxErrors + 1) /\ stall' \in 0..StallWindow
      /\ iteration' \in 0..(Budget - 1) /\ dropped' \in BOOLEAN
  BY <1>3 DEF TypeOK
<1> QED
  BY <1>2, <1>4, <1>5, <1>6, WithoutCallsKeeps

LEMMA ReplyKeeps == IInv /\ Reply => IInv'
<1> SUFFICES ASSUME IInv, Reply PROVE IInv'
  OBVIOUS
<1> USE AgentLoopAssumption DEF IInv, Reply, AskingModel
<1>1. PICK n \in 1..MaxCalls : calls' \in [1..n -> Tools]
  OBVIOUS
<1>2. calls' \in Seq(Tools) /\ Len(calls') = n /\ DOMAIN calls' = 1..n
  BY <1>1
<1>3. status' = [i \in 1..n |-> "waiting"] /\ slot' = 0
  BY <1>2 DEF TypeOK
<1>4. TypeOK'
  <2>1. status' \in [1..Len(calls') -> Unfinished \cup Finished]
    BY <1>2, <1>3 DEF Unfinished
  <2>2. Len(calls') <= MaxCalls /\ slot' \in 0..Len(calls')
    BY <1>2, <1>3
  <2> QED
    BY <1>2, <2>1, <2>2 DEF TypeOK
<1>5. RunWithinLimits' /\ DroppedEndsRun' /\ PhaseAgrees' /\ OneEditUndone'
  BY DEF RunWithinLimits, DroppedEndsRun, PhaseAgrees, OneEditUndone, Running
<1>6. SlotIsAsking' /\ EditsAreCheckpointed' /\ SerialEffects' /\ WritesAreAnswered'
  BY <1>2, <1>3 DEF SlotIsAsking, EditsAreCheckpointed, SerialEffects, WritesAreAnswered, At
<1> QED
  BY <1>4, <1>5, <1>6

LEMMA CollectKeeps == IInv /\ Collect => IInv'
<1> SUFFICES ASSUME IInv, Collect PROVE IInv'
  OBVIOUS
<1> USE AgentLoopAssumption DEF IInv
<1>1. /\ Running /\ outcome = "none" /\ ~dropped
      /\ phase \in Phases \ {"completed"} /\ errors < MaxErrors /\ stall < StallWindow
  BY DEF Collect, RunWithinLimits, PhaseAgrees, DroppedEndsRun, Running, TypeOK
<1>2. slot = 0
  BY DEF Collect, SlotIsAsking, At, Finished, Returned
<1>3. FailRun(phase) = "failed" /\ Len(calls) \in Nat
  BY <1>1, PhasesMove DEF TypeOK
<1>4. CASE Halted
  <2>1. /\ errors' = ErrorsAfter[CHOOSE n \in Recorded : Halts(n)]
        /\ End("errors", FailRun(phase)) /\ UNCHANGED stall
    BY <1>4 DEF Collect
  <2>2. errors' \in 0..(MaxErrors + 1)
    BY <1>1, <1>4, <2>1, FirstHalts
  <2>3. outcome' = "errors" /\ phase' = "failed" /\ iteration' = iteration
    BY <1>3, <2>1 DEF End
  <2>4. calls' = <<>> /\ status' = <<>> /\ slot' = 0 /\ UNCHANGED <<checkpoint, undo>>
    BY <1>2 DEF Collect
  <2>5. RunWithinLimits' /\ DroppedEndsRun' /\ PhaseAgrees'
    BY <2>3, <2>4 DEF RunWithinLimits, DroppedEndsRun, PhaseAgrees, Running
  <2>6. phase' \in Phases /\ outcome' \in Outcomes
    BY <2>3 DEF Phases, Outcomes
  <2>7. stall' \in 0..StallWindow /\ iteration' \in 0..(Budget - 1)
    BY <2>1, <2>3 DEF TypeOK
  <2>8. dropped' \in BOOLEAN
    BY DEF Collect
  <2> QED
    BY <2>2, <2>4, <2>5, <2>6, <2>7, <2>8, WithoutCallsKeeps
<1>5. CASE ~Halted
  <2>1. /\ errors' = ErrorsAfter[Len(calls)]
        /\ \/ End("thrown", phase) /\ UNCHANGED stall
           \/ /\ \E progress \in {FALSE, MayProgress} :
                    stall' = IF progress THEN 0 ELSE stall + 1
              /\ IF IsStalled THEN End("stalled", FailRun(phase)) ELSE Iterate(phase)
    BY <1>5 DEF Collect
  <2>2. stall' \in {stall, 0, stall + 1}
    BY <2>1
  <2>3. stall' \in 0..StallWindow
    BY <1>1, <2>2 DEF TypeOK, StallWindow
  <2>4. errors' \in 0..(MaxErrors + 1) /\ errors' < MaxErrors
    <3>1. \A m \in 1..Len(calls) : ~Halts(m)
      BY <1>5 DEF Halted, TypeOK
    <3>2. ErrorsAfter[Len(calls)] \in Nat /\ ErrorsAfter[Len(calls)] < MaxErrors
      BY <1>1, <1>3, <3>1, ErrorsCounted
    <3> QED
      BY <2>1, <3>2
  <2>5. calls' = <<>> /\ status' = <<>> /\ slot' = 0 /\ UNCHANGED <<checkpoint, undo>>
    BY <1>2 DEF Collect
  <2>6. /\ iteration' \in 0..(Budget - 1) /\ phase' \in Phases \ {"completed"}
        /\ outcome' \in Outcomes
        /\ outcome' = "none" => stall' < StallWindow
        /\ outcome' \notin {"none", "thrown"} => phase' = "failed"
    <3>1. CASE End("thrown", phase)
      <4>1. outcome' = "thrown" /\ phase' = phase /\ iteration' = iteration
        BY <3>1 DEF End
      <4> QED
        BY <1>1, <4>1 DEF TypeOK, Outcomes
    <3>2. CASE IsStalled /\ End("stalled", FailRun(phase))
      <4>1. outcome' = "stalled" /\ phase' = "failed" /\ iteration' = iteration
        BY <1>3, <3>2 DEF End
      <4> QED
        BY <4>1 DEF TypeOK, Phases, Outcomes
    <3>3. CASE ~IsStalled /\ Iterate(phase)
      <4>1. stall' < StallWindow
        BY <2>3, <3>3 DEF IsStalled, StallWindow
      <4> QED
        BY <1>1, <3>3, <4>1, IterateKeeps DEF Outcomes
    <3> QED
      BY <2>1, <3>1, <3>2, <3>3
  (* Every call was recorded. *)
  <2>7. dropped' = FALSE
    <3>1. DOMAIN calls \ Recorded = {}
      BY <1>5 DEF Halted, Recorded, TypeOK
    <3> QED
      BY <1>1, <3>1 DEF Collect
  <2>8. RunWithinLimits' /\ DroppedEndsRun' /\ PhaseAgrees'
    BY <2>4, <2>5, <2>6, <2>7 DEF RunWithinLimits, DroppedEndsRun, PhaseAgrees, Running
  <2> QED
    BY <2>3, <2>4, <2>5, <2>6, <2>7, <2>8, WithoutCallsKeeps
<1> QED
  BY <1>4, <1>5

------------------------------------------------------------------------------
(* What holds of every run.                                                *)

(* The invariant, and with it the types, survives every reply of the model,*)
(* every outcome of a tool and every answer of the user.                   *)
THEOREM InductiveInvariant == Spec => []IInv
<1>1. IInv /\ [Next]_vars => IInv'
  <2> SUFFICES ASSUME IInv, [Next]_vars PROVE IInv'
    OBVIOUS
  <2>1. ASSUME NEW i \in DOMAIN calls, ToolStep(i) PROVE IInv'
    BY <2>1, ToolStepKeeps
  <2>2. CASE UNCHANGED vars
    <3> USE <2>2 DEF IInv, vars
    <3>1. TypeOK'
      BY DEF TypeOK
    <3>2. RunWithinLimits' /\ SlotIsAsking' /\ EditsAreCheckpointed'
      BY DEF RunWithinLimits, SlotIsAsking, EditsAreCheckpointed, Running, At
    <3>3. SerialEffects' /\ OneEditUndone' /\ DroppedEndsRun'
      BY DEF SerialEffects, OneEditUndone, DroppedEndsRun
    <3>4. PhaseAgrees' /\ WritesAreAnswered'
      BY DEF PhaseAgrees, WritesAreAnswered, Running, At
    <3> QED
      BY <3>1, <3>2, <3>3, <3>4
  <2> QED
    BY <2>1, <2>2, StreamFailsKeeps, AnswerKeeps, ReplyKeeps, CollectKeeps DEF Next
<1> QED
  BY InitIInv, <1>1, PTL DEF Spec

(* A call that may change something runs alone, whichever reads are        *)
(* grouped around it.                                                      *)
THEOREM EffectsAreSerial == Spec => []SerialEffects
<1>1. IInv => SerialEffects
  BY DEF IInv
<1> QED
  BY InductiveInvariant, <1>1, PTL

(* A failed verification takes back at most the last edit of the run. *)
THEOREM RollbackIsOneEdit == Spec => []OneEditUndone
<1>1. IInv => OneEditUndone
  BY DEF IInv
<1> QED
  BY InductiveInvariant, <1>1, PTL

(* What a write, a command or a verification asks of the user is never     *)
(* overwritten by another request.                                         *)
THEOREM WritesGetAnswers == Spec => []WritesAreAnswered
<1>1. IInv => WritesAreAnswered
  BY DEF IInv
<1> QED
  BY InductiveInvariant, <1>1, PTL

(* The model is only asked within the limits on errors and on progress,    *)
(* whatever replies came before.                                           *)
THEOREM LimitsHold == Spec => []AsksWithinLimits
<1>1. IInv => AsksWithinLimits
  BY DEF IInv, RunWithinLimits, AsksWithinLimits, AskingModel
<1> QED
  BY InductiveInvariant, <1>1, PTL

(* A reply of which a result was dropped is the last of its run. *)
THEOREM NothingAfterDropped == Spec => []DroppedEndsRun
<1>1. IInv => DroppedEndsRun
  BY DEF IInv
<1> QED
  BY InductiveInvariant, <1>1, PTL

(* The phase shown when a run has returned is terminal and agrees with how *)
(* the run ended.                                                          *)
THEOREM PhaseIsTrue == Spec => []PhaseAgrees
<1>1. IInv => PhaseAgrees
  BY DEF IInv
<1> QED
  BY InductiveInvariant, <1>1, PTL
==============================================================================
