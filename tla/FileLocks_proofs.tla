--------------------------- MODULE FileLocks_proofs ---------------------------
(***************************************************************************)
(* Proofs about FileLocks, for any number of sessions, commands and files. *)
(***************************************************************************)
EXTENDS FileLocks, TLAPS

(* What the operators on lock tables give back. *)
LEMMA TablesTyped ==
    ASSUME NEW locks \in SUBSET FileLock, NEW p \in Paths, NEW s \in Sessions
    PROVE  /\ WithLock(locks, p, s) \in SUBSET FileLock
           /\ WithoutSession(locks, s) \in SUBSET FileLock
           /\ WithoutStale(locks) \in SUBSET FileLock
<1>1. WithLock(locks, p, s) \in SUBSET FileLock
  <2>1. [filePath |-> p, sessionId |-> s, stale |-> FALSE] \in FileLock
    BY DEF FileLock
  <2> QED
    BY <2>1 DEF WithLock
<1>2. WithoutSession(locks, s) \in SUBSET FileLock
  BY DEF WithoutSession
<1>3. WithoutStale(locks) \in SUBSET FileLock
  BY DEF WithoutStale
<1> QED
  BY <1>1, <1>2, <1>3

LEMMA AgedTyped ==
    ASSUME NEW locks \in SUBSET FileLock
    PROVE  Aged(locks) \in SUBSET FileLock
<1>1. ASSUME NEW l \in locks PROVE AgedLock(l) \in FileLock
  BY DEF FileLock, AgedLock
<1> QED
  BY <1>1 DEF Aged

LEMMA InitTypeOK == Init => TypeOK
  BY DEF Init, TypeOK, Procs, PcValues, Ops

LEMMA NextTypeOK == TypeOK /\ Shape /\ [Next]_vars => TypeOK'
<1> SUFFICES ASSUME TypeOK, Shape, [Next]_vars PROVE TypeOK'
  OBVIOUS
<1> USE DEF TypeOK, Procs
<1>1. ASSUME NEW s \in Sessions, ToolCall(s) PROVE TypeOK'
  <2>1. ASSUME NEW p \in Paths, CheckConflict(s, p) PROVE TypeOK'
    BY <2>1 DEF CheckConflict, Overlapped, PcValues
  <2>2. ASSUME NEW p \in Paths, RunWithoutTarget(s, p) PROVE TypeOK'
    BY <2>2 DEF RunWithoutTarget, PcValues
  <2>3. CASE AcquireLoad(s)
    <3>1. target[s] \in Paths
      BY <2>3 DEF AcquireLoad, Shape
    <3>2. WithLock(disk, target[s], s) \in SUBSET FileLock
      BY <3>1, TablesTyped
    <3> QED
      BY <2>3, <3>2 DEF AcquireLoad, StartSave, PcValues, Ops
  <2>4. CASE AcquireRefused(s)
    BY <2>4 DEF AcquireRefused, PcValues
  <2>5. CASE FinishTool(s)
    BY <2>5 DEF FinishTool, PcValues
  <2> QED
    BY <1>1, <2>1, <2>2, <2>3, <2>4, <2>5 DEF ToolCall
<1>2. ASSUME NEW s \in Sessions, EndSession(s) PROVE TypeOK'
  BY <1>2, TablesTyped DEF EndSession, StartSave, PcValues, Ops, WithoutSession
<1>3. ASSUME NEW s \in Sessions, Crash(s) PROVE TypeOK'
  BY <1>3 DEF Crash, StopSaving, PcValues, Ops
<1>4. ASSUME NEW a \in Admins, Admin(a) PROVE TypeOK'
  <2>1. ASSUME NEW s \in Sessions, StopSession(a, s) PROVE TypeOK'
    BY <2>1 DEF StopSession, StartSave, PcValues, Ops, WithoutSession
  <2>2. CASE CleanupStaleLocks(a)
    BY <2>2 DEF CleanupStaleLocks, StartSave, PcValues, Ops, WithoutStale
  <2>3. CASE ListLocks(a)
    BY <2>3 DEF ListLocks, StartSave, PcValues, Ops
  <2> QED
    BY <1>4, <2>1, <2>2, <2>3 DEF Admin
<1>5. ASSUME NEW q \in Procs, Save(q) PROVE TypeOK'
  <2>1. AfterSave(op[q]) \in PcValues
    BY DEF AfterSave, PcValues
  <2>2. CASE BeginWrite(q)
    BY <2>2 DEF BeginWrite, PcValues
  <2>3. CASE EndWrite(q)
    BY <2>1, <2>3 DEF EndWrite, StopSaving, Ops
  <2>4. CASE SaveFails(q)
    BY <2>1, <2>4 DEF SaveFails, StopSaving, Ops, PcValues
  <2> QED
    BY <1>5, <2>2, <2>3, <2>4 DEF Save
<1>6. CASE HourPasses
  <2>1. \A q \in Procs : Aged(store[q]) \in SUBSET FileLock
    BY AgedTyped
  <2>2. Aged(disk) \in SUBSET FileLock
    BY AgedTyped
  <2> QED
    BY <1>6, <2>1, <2>2 DEF HourPasses
<1>7. CASE UNCHANGED vars
  BY <1>7 DEF vars
<1> QED
  BY <1>1, <1>2, <1>3, <1>4, <1>5, <1>6, <1>7 DEF Next

------------------------------------------------------------------------------
(* One entry per path. *)

LEMMA OnePerPathKept ==
    ASSUME NEW locks \in SUBSET FileLock, OnePerPath(locks)
    PROVE  /\ \A kept \in SUBSET locks : OnePerPath(kept)
           /\ OnePerPath(Aged(locks))
           /\ \A p \in Paths, s \in Sessions :
                 ~Conflict(locks, p, s) => OnePerPath(WithLock(locks, p, s))
<1>1. \A kept \in SUBSET locks : OnePerPath(kept)
  BY DEF OnePerPath
<1>2. OnePerPath(Aged(locks))
  <2> SUFFICES ASSUME NEW k \in locks, NEW l \in locks,
                      AgedLock(k).filePath = AgedLock(l).filePath
               PROVE  AgedLock(k) = AgedLock(l)
    BY DEF OnePerPath, Aged
  <2>1. k.filePath = l.filePath
    BY DEF AgedLock
  <2> QED
    BY <2>1 DEF OnePerPath
<1>3. ASSUME NEW p \in Paths, NEW s \in Sessions, ~Conflict(locks, p, s)
      PROVE  OnePerPath(WithLock(locks, p, s))
  <2> DEFINE new == [filePath |-> p, sessionId |-> s, stale |-> FALSE]
  <2>1. \A l \in WithLock(locks, p, s) : l = new \/ (l \in locks /\ l.filePath # p)
    BY <1>3 DEF Conflict, WithLock
  <2>2. new.filePath = p
    OBVIOUS
  <2> QED
    BY <2>1, <2>2 DEF OnePerPath
<1> QED
  BY <1>1, <1>2, <1>3

LEMMA NextUniqueLocks ==
    TypeOK /\ Shape /\ UniqueLocks /\ [Next]_vars => UniqueLocks'
<1> SUFFICES ASSUME TypeOK, Shape, UniqueLocks, [Next]_vars PROVE UniqueLocks'
  OBVIOUS
<1> USE DEF TypeOK, UniqueLocks
<1>0. OnePerPath({})
  BY DEF OnePerPath
(* The two ways a step changes tables: a new copy, made from the file, ... *)
<1>1. ASSUME NEW q \in Procs, NEW kind, NEW locks,
             StartSave(q, kind, locks), OnePerPath(locks), disk' = disk
      PROVE  UniqueLocks'
  BY <1>1 DEF StartSave
(* ... and the end of a save, which drops the copy. *)
<1>2. ASSUME NEW q \in Procs, NEW next, StopSaving(q, next), OnePerPath(disk')
      PROVE  UniqueLocks'
  BY <1>0, <1>2 DEF StopSaving
<1>3. ASSUME NEW s \in Sessions, ToolCall(s) PROVE UniqueLocks'
  <2>1. CASE AcquireLoad(s)
    <3>1. target[s] \in Paths /\ ~Conflict(disk, target[s], s)
      BY <2>1 DEF AcquireLoad, Shape
    <3>2. OnePerPath(WithLock(disk, target[s], s))
      BY <3>1, OnePerPathKept
    <3> QED
      BY <1>1, <2>1, <3>2 DEF AcquireLoad, Procs
  <2>2. CASE ~AcquireLoad(s)
    BY <1>3, <2>2 DEF ToolCall, CheckConflict, RunWithoutTarget, AcquireRefused, FinishTool
  <2> QED
    BY <2>1, <2>2
<1>4. ASSUME NEW s \in Sessions, EndSession(s) PROVE UniqueLocks'
  <2>1. OnePerPath(WithoutSession(disk, s))
    BY OnePerPathKept DEF WithoutSession
  <2> QED
    BY <1>1, <1>4, <2>1 DEF EndSession, Procs
<1>5. ASSUME NEW s \in Sessions, Crash(s) PROVE UniqueLocks'
  BY <1>2, <1>5 DEF Crash, Procs
<1>6. ASSUME NEW a \in Admins, Admin(a) PROVE UniqueLocks'
  <2>1. ASSUME NEW s \in Sessions, StopSession(a, s) PROVE UniqueLocks'
    <3>1. OnePerPath(WithoutSession(disk, s))
      BY OnePerPathKept DEF WithoutSession
    <3> QED
      BY <1>1, <2>1, <3>1 DEF StopSession, Procs
  <2>2. CASE CleanupStaleLocks(a)
    <3>1. OnePerPath(WithoutStale(disk))
      BY OnePerPathKept DEF WithoutStale
    <3> QED
      BY <1>1, <2>2, <3>1 DEF CleanupStaleLocks, Procs
  <2>3. CASE ListLocks(a)
    BY <1>1, <2>3 DEF ListLocks, Procs
  <2> QED
    BY <1>6, <2>1, <2>2, <2>3 DEF Admin
<1>7. ASSUME NEW q \in Procs, Save(q) PROVE UniqueLocks'
  <2>1. CASE BeginWrite(q)
    BY <1>0, <2>1 DEF BeginWrite
  <2>2. CASE EndWrite(q)
    <3>1. OnePerPath(disk')
      BY <1>0, <2>2 DEF EndWrite
    <3> QED
      BY <1>2, <2>2, <3>1 DEF EndWrite
  <2>3. CASE SaveFails(q)
    BY <1>2, <2>3 DEF SaveFails
  <2> QED
    BY <1>7, <2>1, <2>2, <2>3 DEF Save
<1>8. CASE HourPasses
  BY <1>8, OnePerPathKept DEF HourPasses
<1>9. CASE UNCHANGED vars
  BY <1>9 DEF vars
<1> QED
  BY <1>3, <1>4, <1>5, <1>6, <1>7, <1>8, <1>9 DEF Next

------------------------------------------------------------------------------
(* Where processes can be. *)

LEMMA NextShape == TypeOK /\ Shape /\ [Next]_vars => Shape'
<1> SUFFICES ASSUME TypeOK, Shape, [Next]_vars PROVE Shape'
  OBVIOUS
<1> USE FileLocksAssumption DEF TypeOK, Shape, Saving, Procs
<1>1. ASSUME NEW s \in Sessions, ToolCall(s) PROVE Shape'
  <2>1. ASSUME NEW p \in Paths, CheckConflict(s, p) PROVE Shape'
    BY <2>1 DEF CheckConflict
  <2>2. ASSUME NEW p \in Paths, RunWithoutTarget(s, p) PROVE Shape'
    BY <2>2 DEF RunWithoutTarget
  <2>3. CASE AcquireLoad(s)
    BY <2>3 DEF AcquireLoad, StartSave
  <2>4. CASE AcquireRefused(s)
    BY <2>4 DEF AcquireRefused
  <2>5. CASE FinishTool(s)
    BY <2>5 DEF FinishTool
  <2> QED
    BY <1>1, <2>1, <2>2, <2>3, <2>4, <2>5 DEF ToolCall
<1>2. ASSUME NEW s \in Sessions, EndSession(s) PROVE Shape'
  BY <1>2 DEF EndSession, StartSave
<1>3. ASSUME NEW s \in Sessions, Crash(s) PROVE Shape'
  BY <1>3 DEF Crash, StopSaving
<1>4. ASSUME NEW a \in Admins, Admin(a) PROVE Shape'
  <2>1. ASSUME NEW s \in Sessions, StopSession(a, s) PROVE Shape'
    BY <2>1 DEF StopSession, StartSave
  <2>2. CASE CleanupStaleLocks(a)
    BY <2>2 DEF CleanupStaleLocks, StartSave
  <2>3. CASE ListLocks(a)
    BY <2>3 DEF ListLocks, StartSave
  <2> QED
    BY <1>4, <2>1, <2>2, <2>3 DEF Admin
<1>5. ASSUME NEW q \in Procs, Save(q) PROVE Shape'
  <2>2. CASE BeginWrite(q)
    BY <2>2 DEF BeginWrite
  <2>3. CASE EndWrite(q)
    BY <2>3 DEF EndWrite, StopSaving, AfterSave
  <2>4. CASE SaveFails(q)
    BY <2>4 DEF SaveFails, StopSaving, AfterSave
  <2> QED
    BY <1>5, <2>2, <2>3, <2>4 DEF Save
<1>6. CASE HourPasses
  BY <1>6 DEF HourPasses
<1>7. CASE UNCHANGED vars
  BY <1>7 DEF vars
<1> QED
  BY <1>1, <1>2, <1>3, <1>4, <1>5, <1>6, <1>7 DEF Next

------------------------------------------------------------------------------
(* While calm. *)

Calm ==
    /\ OneInWindow
    /\ CopiesFollow
    /\ RunnersHold
    /\ CheckedFree
    /\ EndedHoldNothing

(* What the operators on lock tables keep of a session's entries. *)
LEMMA TablesKeep ==
    ASSUME NEW locks, NEW p, NEW s
    PROVE  /\ \A l \in WithLock(locks, p, s) :
                 l \in locks \/ (l.filePath = p /\ l.sessionId = s)
           /\ \A l \in locks : l.sessionId # s => l \in WithLock(locks, p, s)
           /\ \E l \in WithLock(locks, p, s) : l.filePath = p /\ l.sessionId = s
<1>1. \E l \in WithLock(locks, p, s) : l.filePath = p /\ l.sessionId = s
  <2> DEFINE new == [filePath |-> p, sessionId |-> s, stale |-> FALSE]
  <2>1. new \in WithLock(locks, p, s)
    BY DEF WithLock
  <2> QED
    BY <2>1
<1>2. \A l \in WithLock(locks, p, s) : l \in locks \/ (l.filePath = p /\ l.sessionId = s)
  BY DEF WithLock
<1>3. \A l \in locks : l.sessionId # s => l \in WithLock(locks, p, s)
  BY DEF WithLock
<1> QED
  BY <1>1, <1>2, <1>3

LEMMA AgedKeeps ==
    ASSUME NEW locks
    PROVE  /\ \A l \in locks : \E k \in Aged(locks) :
                 k.filePath = l.filePath /\ k.sessionId = l.sessionId
           /\ \A k \in Aged(locks) : \E l \in locks :
                 k.filePath = l.filePath /\ k.sessionId = l.sessionId
<1>1. \A l : AgedLock(l).filePath = l.filePath /\ AgedLock(l).sessionId = l.sessionId
  BY DEF AgedLock
<1> QED
  BY <1>1 DEF Aged

LEMMA WithLockPairs ==
    ASSUME NEW locks, NEW p, NEW s
    PROVE  PairsOf(WithLock(locks, p, s)) = PairsOf(locks) \cup {<<p, s>>}
<1>1. PairsOf(WithLock(locks, p, s)) \subseteq PairsOf(locks) \cup {<<p, s>>}
  BY TablesKeep DEF PairsOf
<1>2. <<p, s>> \in PairsOf(WithLock(locks, p, s))
  BY TablesKeep DEF PairsOf
<1>3. ASSUME NEW l \in locks
      PROVE  <<l.filePath, l.sessionId>> \in PairsOf(WithLock(locks, p, s))
  <2>1. CASE l.filePath = p /\ l.sessionId = s
    BY <1>2, <2>1
  <2>2. CASE ~(l.filePath = p /\ l.sessionId = s)
    <3>1. l \in WithLock(locks, p, s)
      BY <2>2 DEF WithLock
    <3> QED
      BY <3>1 DEF PairsOf
  <2> QED
    BY <2>1, <2>2
<1>4. PairsOf(locks) \subseteq PairsOf(WithLock(locks, p, s))
  BY <1>3 DEF PairsOf
<1> QED
  BY <1>1, <1>2, <1>4

LEMMA AgedPairs ==
    ASSUME NEW locks
    PROVE  PairsOf(Aged(locks)) = PairsOf(locks)
<1>1. \A l : AgedLock(l).filePath = l.filePath /\ AgedLock(l).sessionId = l.sessionId
  BY DEF AgedLock
<1> QED
  BY <1>1 DEF PairsOf, Aged

LEMMA NextCalm ==
    ASSUME TypeOK, UniqueLocks, Shape, calm => Calm, Next, calm'
    PROVE  Calm'
<1> USE DEF Calm
<1>1. ASSUME NEW s \in Sessions, ToolCall(s) PROVE Calm'
  <2>1. ASSUME NEW p \in Paths, CheckConflict(s, p) PROVE Calm'
    <3>1. calm /\ ~Overlapped(s)
      BY <2>1 DEF CheckConflict
    <3>2. OneInWindow'
      BY <2>1, <3>1 DEF CheckConflict, OneInWindow, Overlapped, InWindow, TypeOK, Procs
    <3>3. CopiesFollow'
      BY <2>1, <3>1 DEF CheckConflict, CopiesFollow, Overlapped, InWindow, Saving, Holds, TypeOK, Procs
    <3>4. RunnersHold'
      BY <2>1, <3>1 DEF CheckConflict, RunnersHold, Saving, Holds, TypeOK, Procs
    <3>5. CheckedFree'
      BY <2>1, <3>1 DEF CheckConflict, CheckedFree, Conflict, TypeOK, Procs
    <3>6. EndedHoldNothing'
      BY <2>1, <3>1 DEF CheckConflict, EndedHoldNothing, HasNoLock, Saving, TypeOK, Procs
    <3> QED
      BY <3>2, <3>3, <3>4, <3>5, <3>6
  <2>2. ASSUME NEW p \in Paths, RunWithoutTarget(s, p) PROVE Calm'
    BY <2>2 DEF RunWithoutTarget
  <2>3. CASE AcquireLoad(s)
    <3> DEFINE new == WithLock(disk, target[s], s)
    <3>1. calm /\ ~Overlapped(s) /\ pc[s] = "checked" /\ target[s] \in Paths
      BY <2>3 DEF AcquireLoad, Shape
    <3>2. OneInWindow'
      BY <2>3, <3>1 DEF AcquireLoad, StartSave, OneInWindow, Overlapped, InWindow, TypeOK, Procs
    <3>3. store'[s] = new /\ disk' = disk /\ target' = target
      BY <2>3 DEF AcquireLoad, StartSave, TypeOK, Procs
    <3>4. \A q \in Procs \ {s} : ~Saving(q) /\ ~Saving(q)'
      BY <2>3, <3>1 DEF AcquireLoad, StartSave, Overlapped, InWindow, Saving, TypeOK, Procs
    <3>5. pc'[s] = "saving" /\ op'[s] = "acquire"
      BY <2>3 DEF AcquireLoad, StartSave, TypeOK, Procs
    <3>6. CopiesFollow'
      <4>1. Holds(new, s)
        BY TablesKeep DEF Holds
      <4>2. PairsOf(new) = PairsOf(disk) \cup {<<target[s], s>>}
        BY WithLockPairs
      <4> QED
        BY <3>3, <3>4, <3>5, <4>1, <4>2 DEF CopiesFollow, Saving, Holds
    <3>7. RunnersHold'
      <4> SUFFICES ASSUME NEW t \in Sessions, pc'[t] = "running"
                   PROVE  (/\ \A q \in Procs : Saving(q) => Holds(store[q], t)
                           /\ (\A q \in Procs : pc[q] # "writing") => Holds(disk, t))'
        BY <3>3 DEF RunnersHold
      <4>1. t # s /\ pc[t] = "running"
        BY <2>3 DEF AcquireLoad, StartSave, TypeOK, Procs
      <4>2. Holds(disk, t)
        BY <3>1, <3>4, <4>1 DEF RunnersHold, Saving
      <4>3. Holds(new, t)
        BY <4>1, <4>2, TablesKeep DEF Holds
      <4> QED
        BY <3>3, <3>4, <4>2, <4>3 DEF Holds
    <3>8. CheckedFree'
      BY <2>3, <3>1 DEF AcquireLoad, StartSave, CheckedFree, Conflict, TypeOK, Procs
    <3>9. EndedHoldNothing'
      <4> SUFFICES ASSUME NEW t \in Sessions, pc'[t] = "ended"
                   PROVE  /\ HasNoLock(disk, t)
                          /\ \A q \in Procs : Saving(q)' => HasNoLock(store'[q], t)
        BY <3>3 DEF EndedHoldNothing, HasNoLock
      <4>1. t # s /\ pc[t] = "ended"
        BY <2>3 DEF AcquireLoad, StartSave, TypeOK, Procs
      <4>2. HasNoLock(disk, t)
        BY <3>1, <4>1 DEF EndedHoldNothing
      <4>3. HasNoLock(new, t)
        BY <4>1, <4>2, TablesKeep DEF HasNoLock
      <4> QED
        BY <3>3, <3>4, <4>2, <4>3
    <3> QED
      BY <3>2, <3>6, <3>7, <3>8, <3>9
  <2>4. CASE AcquireRefused(s)
    BY <2>4 DEF AcquireRefused, CheckedFree
  <2>5. CASE FinishTool(s)
    <3>1. calm
      BY <2>5 DEF FinishTool
    <3>2. OneInWindow' /\ CheckedFree'
      BY <2>5, <3>1 DEF FinishTool, OneInWindow, InWindow, CheckedFree, Conflict, TypeOK, Procs
    <3>3. CopiesFollow'
      BY <2>5, <3>1 DEF FinishTool, CopiesFollow, Saving, Holds, TypeOK, Procs
    <3>4. RunnersHold'
      BY <2>5, <3>1 DEF FinishTool, RunnersHold, Saving, Holds, TypeOK, Procs
    <3>5. EndedHoldNothing'
      BY <2>5, <3>1 DEF FinishTool, EndedHoldNothing, HasNoLock, Saving, TypeOK, Procs
    <3> QED
      BY <3>2, <3>3, <3>4, <3>5
  <2> QED
    BY <1>1, <2>1, <2>2, <2>3, <2>4, <2>5 DEF ToolCall
(* Copies of part of the file: releases, revocations, cleanups, lists. *)
<1>2. ASSUME NEW q \in Procs, NEW kind, NEW locks \in SUBSET disk,
             StartSave(q, kind, locks), kind # "acquire",
             calm, ~Overlapped(q), disk' = disk, target' = target,
             pc[q] \in {"idle", "ended", "listing"},
             kind = "release" => HasNoLock(locks, q),
             \A t \in Sessions : pc[t] = "running" /\ Holds(disk, t) => Holds(locks, t)
      PROVE  Calm'
  <2>1. pc' = [pc EXCEPT ![q] = "saving"] /\ store'[q] = locks /\ op'[q] = kind
    BY <1>2 DEF StartSave, TypeOK
  <2>2. \A r \in Procs \ {q} : ~InWindow(r) /\ ~InWindow(r)' /\ ~Saving(r) /\ ~Saving(r)'
    BY <1>2, <2>1 DEF Overlapped, InWindow, Saving, TypeOK
  <2>3. OneInWindow'
    BY <2>2 DEF OneInWindow
  <2>4. pc'[q] = "saving"
    BY <2>1 DEF TypeOK
  <2>5. CopiesFollow'
    <3>1. PairsOf(locks) \subseteq PairsOf(disk)
      BY DEF PairsOf
    <3> QED
      BY <1>2, <2>1, <2>2, <2>4, <3>1 DEF CopiesFollow, Saving, HasNoLock
  <2>6. RunnersHold'
    <3> SUFFICES ASSUME NEW t \in Sessions, pc'[t] = "running"
                 PROVE  (/\ \A r \in Procs : Saving(r) => Holds(store[r], t)
                         /\ (\A r \in Procs : pc[r] # "writing") => Holds(disk, t))'
      BY DEF RunnersHold
    <3>1. pc[t] = "running"
      BY <2>1 DEF TypeOK, Procs
    <3>2. Holds(disk, t)
      BY <1>2, <2>2, <3>1 DEF RunnersHold, Saving
    <3>3. Holds(locks, t)
      BY <1>2, <3>1, <3>2
    <3> QED
      BY <1>2, <2>1, <2>2, <3>2, <3>3 DEF Holds
  <2>7. CheckedFree'
    BY <1>2, <2>1 DEF CheckedFree, Conflict, TypeOK, Procs
  <2>8. EndedHoldNothing'
    <3> SUFFICES ASSUME NEW t \in Sessions, pc'[t] = "ended"
                 PROVE  (/\ HasNoLock(disk, t)
                         /\ \A r \in Procs : Saving(r) => HasNoLock(store[r], t))'
      BY DEF EndedHoldNothing
    <3>1. pc[t] = "ended"
      BY <2>1 DEF TypeOK, Procs
    <3>2. HasNoLock(disk, t)
      BY <1>2, <3>1 DEF EndedHoldNothing
    <3> QED
      BY <1>2, <2>1, <2>2, <3>2 DEF HasNoLock
  <2> QED
    BY <2>3, <2>5, <2>6, <2>7, <2>8
<1>3. ASSUME NEW s \in Sessions, EndSession(s) PROVE Calm'
  <2>1. calm /\ ~Overlapped(s) /\ pc[s] \in {"idle", "ended"}
    BY <1>3 DEF EndSession
  <2>2. CASE WithoutSession(disk, s) # disk
    <3>1. StartSave(s, "release", WithoutSession(disk, s)) /\ disk' = disk /\ target' = target
      BY <1>3, <2>2 DEF EndSession
    <3>2. WithoutSession(disk, s) \in SUBSET disk /\ HasNoLock(WithoutSession(disk, s), s)
      BY DEF WithoutSession, HasNoLock
    <3>3. \A t \in Sessions : pc[t] = "running" /\ Holds(disk, t)
                              => Holds(WithoutSession(disk, s), t)
      BY <2>1 DEF Holds, WithoutSession
    <3> QED
      BY <1>2, <2>1, <3>1, <3>2, <3>3 DEF Procs
  <2>3. CASE WithoutSession(disk, s) = disk
    <3>1. pc' = [pc EXCEPT ![s] = "ended"] /\ UNCHANGED <<disk, op, store, target>>
      BY <1>3, <2>3 DEF EndSession
    <3>2. HasNoLock(disk, s)
      BY <2>3 DEF WithoutSession, HasNoLock
    <3>3. \A q \in Procs : ~Saving(q) /\ ~Saving(q)'
      BY <2>1, <3>1 DEF Overlapped, InWindow, Saving, TypeOK
    <3>4. OneInWindow' /\ CheckedFree'
      BY <2>1, <3>1 DEF OneInWindow, InWindow, CheckedFree, Conflict, TypeOK, Procs
    <3>5. CopiesFollow'
      BY <3>3 DEF CopiesFollow, Saving
    <3>6. RunnersHold'
      BY <2>1, <3>1, <3>3 DEF RunnersHold, Saving, Holds, TypeOK, Procs
    <3>7. EndedHoldNothing'
      BY <2>1, <3>1, <3>2, <3>3 DEF EndedHoldNothing, HasNoLock, TypeOK, Procs
    <3> QED
      BY <3>4, <3>5, <3>6, <3>7
  <2> QED
    BY <2>2, <2>3
<1>4. ASSUME NEW s \in Sessions, Crash(s) PROVE Calm'
  <2>1. calm /\ pc[s] # "writing" /\ disk' = disk
    BY <1>4 DEF Crash
  <2>2. pc' = [pc EXCEPT ![s] = "dead"]
    BY <1>4 DEF Crash, StopSaving
  <2>3. \A q \in Procs : InWindow(q)' => InWindow(q) /\ q # s
    BY <2>2 DEF InWindow, TypeOK
  <2>4. OneInWindow'
    BY <2>1, <2>3 DEF OneInWindow
  <2>5. CopiesFollow'
    BY <1>4, <2>1, FileLocksAssumption
    DEF Crash, StopSaving, CopiesFollow, Saving, Holds, HasNoLock, TypeOK, Procs
  <2>6. RunnersHold'
    BY <1>4, <2>1, FileLocksAssumption
    DEF Crash, StopSaving, RunnersHold, Saving, Holds, TypeOK, Procs
  <2>7. CheckedFree'
    BY <1>4, <2>1 DEF Crash, StopSaving, CheckedFree, Conflict, TypeOK, Procs
  <2>8. EndedHoldNothing'
    BY <1>4, <2>1 DEF Crash, StopSaving, EndedHoldNothing, HasNoLock, Saving, TypeOK, Procs
  <2> QED
    BY <2>4, <2>5, <2>6, <2>7, <2>8
<1>5. ASSUME NEW a \in Admins, Admin(a) PROVE Calm'
  <2>1. ASSUME NEW s \in Sessions, StopSession(a, s) PROVE Calm'
    <3>1. /\ calm /\ ~Overlapped(a) /\ ~InUse(disk \ WithoutSession(disk, s))
          /\ StartSave(a, "revoke", WithoutSession(disk, s))
          /\ disk' = disk /\ target' = target /\ pc[a] = "idle"
      BY <2>1 DEF StopSession
    <3>2. WithoutSession(disk, s) \in SUBSET disk
      BY DEF WithoutSession
    <3>3. \A t \in Sessions : pc[t] = "running" /\ Holds(disk, t)
                              => Holds(WithoutSession(disk, s), t)
      BY <3>1 DEF Holds, InUse
    <3> QED
      BY <1>2, <3>1, <3>2, <3>3 DEF Procs
  <2>2. CASE CleanupStaleLocks(a)
    <3>1. /\ calm /\ ~Overlapped(a) /\ ~InUse(disk \ WithoutStale(disk))
          /\ disk' = disk /\ target' = target /\ pc[a] = "idle"
      BY <2>2 DEF CleanupStaleLocks
    <3>2. CASE WithoutStale(disk) # disk
      <4>1. StartSave(a, "cleanup", WithoutStale(disk))
        BY <2>2, <3>2 DEF CleanupStaleLocks
      <4>2. WithoutStale(disk) \in SUBSET disk
        BY DEF WithoutStale
      <4>3. \A t \in Sessions : pc[t] = "running" /\ Holds(disk, t)
                                => Holds(WithoutStale(disk), t)
        BY <3>1 DEF Holds, InUse
      <4> QED
        BY <1>2, <3>1, <4>1, <4>2, <4>3 DEF Procs
    <3>3. CASE WithoutStale(disk) = disk
      <4>1. pc' = [pc EXCEPT ![a] = "listing"] /\ UNCHANGED <<disk, op, store, target>>
        BY <2>2, <3>3 DEF CleanupStaleLocks
      <4>2. OneInWindow' /\ CheckedFree'
        BY <3>1, <4>1 DEF OneInWindow, InWindow, CheckedFree, Conflict, TypeOK, Procs
      <4>3. CopiesFollow'
        BY <3>1, <4>1 DEF CopiesFollow, Saving, Holds, HasNoLock, TypeOK, Procs
      <4>4. RunnersHold'
        BY <3>1, <4>1 DEF RunnersHold, Saving, Holds, TypeOK, Procs
      <4>5. EndedHoldNothing'
        BY <3>1, <4>1 DEF EndedHoldNothing, HasNoLock, Saving, TypeOK, Procs
      <4> QED
        BY <4>2, <4>3, <4>4, <4>5
    <3> QED
      BY <3>2, <3>3
  <2>3. CASE ListLocks(a)
    <3>1. /\ calm /\ ~Overlapped(a) /\ StartSave(a, "list", disk)
          /\ disk' = disk /\ target' = target /\ pc[a] \in {"idle", "listing"}
      BY <2>3 DEF ListLocks
    <3> QED
      BY <1>2, <3>1 DEF Procs
  <2> QED
    BY <1>5, <2>1, <2>2, <2>3 DEF Admin
<1>6. ASSUME NEW q \in Procs, Save(q) PROVE Calm'
  <2>1. CASE BeginWrite(q)
    <3>1. /\ calm /\ pc[q] = "saving" /\ pc' = [pc EXCEPT ![q] = "writing"]
          /\ disk' = {} /\ UNCHANGED <<op, store, target>>
      BY <2>1 DEF BeginWrite
    <3>2. \A r \in Procs : (InWindow(r)' <=> InWindow(r)) /\ (Saving(r)' <=> Saving(r))
      BY <3>1 DEF InWindow, Saving, TypeOK
    <3>3. OneInWindow'
      BY <3>1, <3>2 DEF OneInWindow
    <3>4. \A r \in Procs \ {q} : ~InWindow(r)
      BY <3>1 DEF OneInWindow, InWindow
    <3>5. CopiesFollow'
      BY <3>1, <3>2, <3>4 DEF CopiesFollow, InWindow, Saving, Holds, HasNoLock, TypeOK
    <3>6. RunnersHold'
      BY <3>1, <3>2 DEF RunnersHold, Saving, Holds, TypeOK, Procs
    <3>7. CheckedFree' /\ EndedHoldNothing'
      BY <3>1, <3>2 DEF CheckedFree, Conflict, EndedHoldNothing, HasNoLock, TypeOK, Procs
    <3> QED
      BY <3>3, <3>5, <3>6, <3>7
  <2>2. CASE EndWrite(q)
    <3>1. calm /\ pc[q] = "writing" /\ target' = target
      BY <2>2 DEF EndWrite
    <3>2. disk = {} /\ disk' = store[q]
      BY <2>2, <3>1 DEF EndWrite, CopiesFollow
    <3>3. pc' = [pc EXCEPT ![q] = AfterSave(op[q])]
      BY <2>2 DEF EndWrite, StopSaving
    <3>4. \A r \in Procs \ {q} : ~InWindow(r)
      BY <3>1 DEF OneInWindow, InWindow
    <3>5. AfterSave(op[q]) \in {"running", "ended", "listing", "idle"}
      BY DEF AfterSave
    <3>6. \A r \in Procs : ~InWindow(r)' /\ ~Saving(r)'
      BY <3>3, <3>4, <3>5 DEF InWindow, Saving, TypeOK
    <3>7. OneInWindow' /\ CheckedFree' /\ CopiesFollow'
      BY <3>6 DEF OneInWindow, CheckedFree, CopiesFollow, InWindow, Saving, Procs
    <3>8. RunnersHold'
      <4> SUFFICES ASSUME NEW t \in Sessions, pc'[t] = "running" PROVE Holds(disk, t)'
        BY <3>6 DEF RunnersHold
      <4>1. CASE t # q
        BY <3>1, <3>2, <3>3, <4>1 DEF RunnersHold, Saving, Holds, TypeOK, Procs
      <4>2. CASE t = q
        <5>1. op[q] = "acquire"
          BY <3>3, <4>2 DEF AfterSave, TypeOK, Procs
        <5> QED
          BY <3>1, <3>2, <4>2, <5>1 DEF CopiesFollow, Saving, Holds
      <4> QED
        BY <4>1, <4>2
    <3>9. EndedHoldNothing'
      <4> SUFFICES ASSUME NEW t \in Sessions, pc'[t] = "ended" PROVE HasNoLock(disk, t)'
        BY <3>6 DEF EndedHoldNothing
      <4>1. CASE t # q
        BY <3>1, <3>2, <3>3, <4>1 DEF EndedHoldNothing, Saving, HasNoLock, TypeOK, Procs
      <4>2. CASE t = q
        <5>1. op[q] = "release"
          BY <3>3, <4>2 DEF AfterSave, TypeOK, Procs
        <5> QED
          BY <3>1, <3>2, <4>2, <5>1 DEF CopiesFollow, Saving, HasNoLock
      <4> QED
        BY <4>1, <4>2
    <3> QED
      BY <3>7, <3>8, <3>9
  <2>3. CASE SaveFails(q)
    BY <2>3 DEF SaveFails
  <2> QED
    BY <1>6, <2>1, <2>2, <2>3 DEF Save
<1>7. CASE HourPasses
  <2>1. /\ calm /\ disk' = Aged(disk) /\ store' = [q \in Procs |-> Aged(store[q])]
        /\ UNCHANGED <<pc, op, target>>
    BY <1>7 DEF HourPasses
  <2>2. OneInWindow'
    BY <2>1 DEF OneInWindow, InWindow
  <2>3. \A t, locks : Holds(locks, t) => Holds(Aged(locks), t)
    BY AgedKeeps DEF Holds
  <2>4. \A t, locks : HasNoLock(locks, t) => HasNoLock(Aged(locks), t)
    BY AgedKeeps DEF HasNoLock
  <2>5. \A p, t, locks : Conflict(Aged(locks), p, t) => Conflict(locks, p, t)
    BY AgedKeeps DEF Conflict
  <2>6. CopiesFollow'
    <3> SUFFICES ASSUME NEW q \in Procs
                 PROVE  (/\ pc[q] = "writing" => disk = {}
                         /\ pc[q] = "saving" /\ op[q] # "acquire"
                               => PairsOf(store[q]) \subseteq PairsOf(disk)
                         /\ pc[q] = "saving" /\ op[q] = "acquire"
                               => PairsOf(store[q]) = PairsOf(disk) \cup {<<target[q], q>>}
                         /\ Saving(q) /\ op[q] = "acquire" => Holds(store[q], q)
                         /\ Saving(q) /\ op[q] = "release" => HasNoLock(store[q], q))'
      BY DEF CopiesFollow
    <3>1. Aged({}) = {}
      BY DEF Aged
    <3>2. /\ PairsOf(Aged(store[q])) = PairsOf(store[q])
          /\ PairsOf(Aged(disk)) = PairsOf(disk)
      BY AgedPairs
    <3>3. store'[q] = Aged(store[q])
      BY <2>1
    <3>4. Saving(q) /\ op[q] = "acquire" => Holds(Aged(store[q]), q)
      BY <2>1, <2>3 DEF CopiesFollow
    <3>5. Saving(q) /\ op[q] = "release" => HasNoLock(Aged(store[q]), q)
      BY <2>1, <2>4 DEF CopiesFollow
    <3>6. (Saving(q) /\ op[q] = "acquire" => Holds(store[q], q))'
      BY <2>1, <3>3, <3>4 DEF Saving, Holds
    <3>7. (Saving(q) /\ op[q] = "release" => HasNoLock(store[q], q))'
      BY <2>1, <3>3, <3>5 DEF Saving, HasNoLock
    <3>8. (pc[q] = "writing" => disk = {})'
      BY <2>1, <3>1 DEF CopiesFollow
    <3>9. (pc[q] = "saving" /\ op[q] # "acquire"
              => PairsOf(store[q]) \subseteq PairsOf(disk))'
      BY <2>1, <3>2, <3>3 DEF CopiesFollow
    <3>10. (pc[q] = "saving" /\ op[q] = "acquire"
              => PairsOf(store[q]) = PairsOf(disk) \cup {<<target[q], q>>})'
      BY <2>1, <3>2, <3>3 DEF CopiesFollow
    <3> QED
      BY <3>6, <3>7, <3>8, <3>9, <3>10
  <2>7. RunnersHold'
    <3> SUFFICES ASSUME NEW t \in Sessions, pc'[t] = "running"
                 PROVE  (/\ \A q \in Procs : Saving(q) => Holds(store[q], t)
                         /\ (\A q \in Procs : pc[q] # "writing") => Holds(disk, t))'
      BY DEF RunnersHold
    <3>1. \A q \in Procs : Saving(q) => Holds(Aged(store[q]), t)
      BY <2>1, <2>3 DEF RunnersHold
    <3>2. (\A q \in Procs : pc[q] # "writing") => Holds(Aged(disk), t)
      BY <2>1, <2>3 DEF RunnersHold
    <3> QED
      BY <2>1, <3>1, <3>2 DEF Saving, Holds
  <2>8. CheckedFree'
    BY <2>1, <2>5 DEF CheckedFree
  <2>9. EndedHoldNothing'
    BY <2>1, <2>4 DEF EndedHoldNothing, Saving, Procs
  <2> QED
    BY <2>2, <2>6, <2>7, <2>8, <2>9
<1> QED
  BY <1>1, <1>3, <1>4, <1>5, <1>6, <1>7 DEF Next

------------------------------------------------------------------------------
(* The inductive invariant, and what follows from it. *)

LEMMA InitIInv == Init => IInv
<1> SUFFICES ASSUME Init PROVE IInv
  OBVIOUS
<1> USE FileLocksAssumption DEF Init, Procs
<1>1. TypeOK
  BY InitTypeOK
<1>2. UniqueLocks /\ Shape
  BY DEF UniqueLocks, OnePerPath, Shape, Saving
<1>3. OneInWindow /\ CopiesFollow /\ RunnersHold /\ CheckedFree /\ EndedHoldNothing
  BY DEF OneInWindow, CopiesFollow, RunnersHold, CheckedFree, EndedHoldNothing,
         InWindow, Saving
<1> QED
  BY <1>1, <1>2, <1>3 DEF IInv

LEMMA NextIInv == IInv /\ [Next]_vars => IInv'
<1> SUFFICES ASSUME IInv, [Next]_vars PROVE IInv'
  OBVIOUS
<1>1. TypeOK' /\ UniqueLocks' /\ Shape'
  BY NextTypeOK, NextUniqueLocks, NextShape DEF IInv
<1>2. ASSUME calm' PROVE Calm'
  <2>1. CASE Next
    BY <1>2, <2>1, NextCalm DEF IInv, Calm
  <2>2. CASE UNCHANGED vars
    BY <1>2, <2>2 DEF vars, IInv, Calm, OneInWindow, CopiesFollow, RunnersHold,
       CheckedFree, EndedHoldNothing, InWindow, Saving, Holds, HasNoLock, Conflict
  <2> QED
    BY <2>1, <2>2
<1> QED
  BY <1>1, <1>2 DEF IInv, Calm

(* Every reachable state satisfies the inductive invariant: the types, one *)
(* entry per path, and, while lock operations are undisturbed, that every  *)
(* copy of locks.json keeps the running tools' locks.                      *)
THEOREM InductiveInvariant == Spec => []IInv
<1>1. Init => IInv
  BY InitIInv
<1>2. IInv /\ [Next]_vars => IInv'
  BY NextIInv
<1> QED
  BY <1>1, <1>2, PTL DEF Spec

(* locks.json and the copies on their way into it never hold two entries   *)
(* for one path, whatever interleaves, crashes or fails.                   *)
THEOREM OneEntryPerPath == Spec => []UniqueLocks
<1>1. IInv => UniqueLocks
  BY DEF IInv
<1> QED
  BY <1>1, InductiveInvariant, PTL

(* No two sessions run a modifying tool on the same file, for as long as   *)
(* nothing has disturbed a lock operation.                                 *)
THEOREM Exclusion == Spec => []CalmExclusion
<1>1. IInv => CalmExclusion
  <2> SUFFICES ASSUME IInv, calm,
                      NEW s \in Sessions, NEW t \in Sessions,
                      pc[s] = "running", pc[t] = "running", target[s] = target[t]
               PROVE  s = t
    BY DEF CalmExclusion, ToolsExclude
  <2>1. \A locks : OnePerPath(locks) /\ Holds(locks, s) /\ Holds(locks, t) => s = t
    BY DEF OnePerPath, Holds
  <2>2. CASE \E q \in Procs : pc[q] = "writing"
    BY <2>1, <2>2 DEF IInv, UniqueLocks, RunnersHold, Saving
  <2>3. CASE ~\E q \in Procs : pc[q] = "writing"
    BY <2>1, <2>3 DEF IInv, UniqueLocks, RunnersHold
  <2> QED
    BY <2>2, <2>3
<1> QED
  BY <1>1, InductiveInvariant, PTL

(* A session that has completed or failed has no entry in locks.json, for  *)
(* as long as nothing has disturbed a lock operation.                      *)
THEOREM Release == Spec => []CalmRelease
<1>1. IInv => CalmRelease
  BY DEF IInv, CalmRelease, EndedHoldNothing
<1> QED
  BY <1>1, InductiveInvariant, PTL

------------------------------------------------------------------------------
(* Undisturbed, the file implements the lock table. *)

(* The committed table is the copy being written, or else the file. *)
CommittedIs ==
    /\ \A q \in Procs : pc[q] = "writing" => OwnedPairs = PairsOf(store[q])
    /\ (\A q \in Procs : pc[q] # "writing") => OwnedPairs = PairsOf(disk)

LEMMA OwnedPairsAre == IInv /\ calm => CommittedIs
<1> SUFFICES ASSUME IInv, calm PROVE CommittedIs
  OBVIOUS
<1>1. ASSUME NEW q \in Procs, pc[q] = "writing" PROVE OwnedPairs = PairsOf(store[q])
  <2>1. disk = {}
    BY <1>1 DEF IInv, CopiesFollow
  <2>2. {r \in Procs : pc[r] = "writing"} = {q}
    BY <1>1 DEF IInv, OneInWindow, InWindow
  <2>3. Committed = store[q]
    BY <2>1, <2>2 DEF Committed
  <2> QED
    BY <2>3 DEF OwnedPairs
<1>2. ASSUME \A q \in Procs : pc[q] # "writing" PROVE OwnedPairs = PairsOf(disk)
  <2>1. Committed = disk
    BY <1>2 DEF Committed
  <2> QED
    BY <2>1 DEF OwnedPairs
<1> QED
  BY <1>1, <1>2 DEF CommittedIs

LEMMA OwnedPairsNext == IInv' /\ calm' => CommittedIs'
<1>1. (IInv /\ calm => CommittedIs)'
  BY OwnedPairsAre, PTL
<1> QED
  BY <1>1

LEMMA StepImplements ==
    ASSUME IInv, IInv', calm, calm', Next
    PROVE  [Table!Step]_(Table!ownership)
<1> USE FileLocksAssumption DEF Table!ownership
<1>0. TypeOK /\ TypeOK' /\ Shape
  BY DEF IInv
(* Steps that touch neither the file nor a copy being written, nor start   *)
(* or end a tool, are stutters of the table.                               *)
<1>1. ASSUME NEW q \in Procs, disk' = disk,
             pc' = [pc EXCEPT ![q] = pc'[q]], pc[q] # "writing", pc'[q] # "writing",
             \A r \in Procs \ {q} : store'[r] = store[r],
             \A s \in Sessions \ {q} : target'[s] = target[s]
      PROVE  OwnedPairs' = OwnedPairs
  <2>1. {r \in Procs : pc'[r] = "writing"} = {r \in Procs : pc[r] = "writing"}
    BY <1>0, <1>1 DEF TypeOK
  <2>2. \A r \in Procs : pc[r] = "writing" => store'[r] = store[r]
    BY <1>1
  <2>3. Committed' = Committed
    BY <1>1, <2>1, <2>2 DEF Committed
  <2> QED
    BY <2>3 DEF OwnedPairs
<1>2. ASSUME NEW q \in Procs, pc' = [pc EXCEPT ![q] = pc'[q]],
             pc[q] # "running", pc'[q] # "running",
             \A s \in Sessions \ {q} : target'[s] = target[s]
      PROVE  RunningOn' = RunningOn
  <2>1. \A s \in Sessions : (IF pc'[s] = "running" THEN target'[s] ELSE NoPath)
                             = (IF pc[s] = "running" THEN target[s] ELSE NoPath)
    BY <1>0, <1>2 DEF TypeOK, Procs
  <2> QED
    BY <2>1 DEF RunningOn
<1>3. ASSUME NEW s \in Sessions, pc[s] = "running", pc' = [pc EXCEPT ![s] = pc'[s]],
             pc'[s] # "running", OwnedPairs' = OwnedPairs,
             \A t \in Sessions \ {s} : target'[t] = target[t]
      PROVE  Table!Step
  <2>1. RunningOn[s] # NoPath
    BY <1>0, <1>3 DEF RunningOn, Shape
  <2>2. RunningOn' = [RunningOn EXCEPT ![s] = NoPath]
    BY <1>0, <1>3 DEF RunningOn, TypeOK, Procs
  <2>3. Table!Done(s)
    BY <1>3, <2>1, <2>2 DEF Table!Done
  <2> QED
    BY <2>3 DEF Table!Step
<1>4. ASSUME NEW s \in Sessions, ToolCall(s) PROVE [Table!Step]_(Table!ownership)
  <2> s \in Procs
    BY DEF Procs
  <2>1. ASSUME NEW p \in Paths, CheckConflict(s, p) PROVE UNCHANGED Table!ownership
    BY <1>0, <1>1, <1>2, <2>1 DEF CheckConflict, TypeOK
  <2>2. ASSUME NEW p \in Paths, RunWithoutTarget(s, p) PROVE FALSE
    BY <2>2 DEF RunWithoutTarget
  <2>3. CASE AcquireLoad(s)
    BY <1>0, <1>1, <1>2, <2>3 DEF AcquireLoad, StartSave, TypeOK
  <2>4. CASE AcquireRefused(s)
    BY <2>4 DEF AcquireRefused, IInv, CheckedFree
  <2>5. CASE FinishTool(s)
    BY <1>0, <1>1, <1>3, <2>5 DEF FinishTool, TypeOK
  <2> QED
    BY <1>4, <2>1, <2>2, <2>3, <2>4, <2>5 DEF ToolCall
<1>5. ASSUME NEW s \in Sessions, EndSession(s) PROVE UNCHANGED Table!ownership
  BY <1>0, <1>1, <1>2, <1>5 DEF EndSession, StartSave, TypeOK, Procs
<1>6. ASSUME NEW s \in Sessions, Crash(s) PROVE [Table!Step]_(Table!ownership)
  <2>1. s \in Procs /\ pc[s] # "writing"
    BY <1>6 DEF Crash, Procs
  <2>2. OwnedPairs' = OwnedPairs
    BY <1>0, <1>1, <1>6, <2>1 DEF Crash, StopSaving, TypeOK
  <2>3. CASE pc[s] = "running"
    BY <1>0, <1>3, <1>6, <2>1, <2>2, <2>3 DEF Crash, StopSaving, TypeOK
  <2>4. CASE pc[s] # "running"
    BY <1>0, <1>2, <1>6, <2>1, <2>2, <2>4 DEF Crash, StopSaving, TypeOK
  <2> QED
    BY <2>3, <2>4
<1>7. ASSUME NEW a \in Admins, Admin(a) PROVE UNCHANGED Table!ownership
  <2> a \in Procs
    BY DEF Procs
  <2>1. ASSUME NEW s \in Sessions, StopSession(a, s) PROVE UNCHANGED Table!ownership
    BY <1>0, <1>1, <1>2, <2>1 DEF StopSession, StartSave, TypeOK
  <2>2. CASE CleanupStaleLocks(a)
    BY <1>0, <1>1, <1>2, <2>2 DEF CleanupStaleLocks, StartSave, TypeOK
  <2>3. CASE ListLocks(a)
    BY <1>0, <1>1, <1>2, <2>3 DEF ListLocks, StartSave, TypeOK
  <2> QED
    BY <1>7, <2>1, <2>2, <2>3 DEF Admin
<1>8. ASSUME NEW q \in Procs, BeginWrite(q) PROVE [Table!Step]_(Table!ownership)
  <2>1. /\ pc[q] = "saving" /\ pc'[q] = "writing" /\ pc' = [pc EXCEPT ![q] = "writing"]
        /\ UNCHANGED <<op, store, target>>
    BY <1>0, <1>8 DEF BeginWrite, TypeOK
  <2>2. \A r \in Procs : pc[r] # "writing"
    BY <2>1 DEF IInv, OneInWindow, InWindow
  <2>3. OwnedPairs = PairsOf(disk)
    BY <2>2, OwnedPairsAre DEF CommittedIs
  <2>4. OwnedPairs' = PairsOf(store[q])
    <3>1. OwnedPairs' = PairsOf(store[q])'
      BY <2>1, OwnedPairsNext DEF CommittedIs
    <3> QED
      BY <2>1, <3>1 DEF PairsOf
  <2>5. RunningOn' = RunningOn
    BY <1>2, <2>1
  <2>6. CASE op[q] = "acquire"
    <3>1. q \in Sessions /\ target[q] \in Paths
      BY <1>0, <2>1, <2>6 DEF Shape, Saving, Procs
    <3>2. OwnedPairs' = OwnedPairs \cup {<<target[q], q>>}
      BY <2>1, <2>3, <2>4, <2>6 DEF IInv, CopiesFollow
    <3>3. \A t \in Sessions \ {q} : <<target[q], t>> \notin OwnedPairs
      <4> SUFFICES ASSUME NEW t \in Sessions, <<target[q], t>> \in OwnedPairs PROVE t = q
        OBVIOUS
      <4>1. PICK l \in store[q] : l.filePath = target[q] /\ l.sessionId = t
        BY <2>4, <3>2 DEF PairsOf
      <4>2. PICK k \in store[q] : k.filePath = target[q] /\ k.sessionId = q
        BY <2>1, <2>6 DEF IInv, CopiesFollow, Saving, Holds
      <4> QED
        BY <4>1, <4>2 DEF IInv, UniqueLocks, OnePerPath
    <3>4. Table!Take(q, target[q])
      BY <2>5, <3>2, <3>3 DEF Table!Take
    <3> QED
      BY <3>1, <3>4 DEF Table!Step
  <2>7. CASE op[q] # "acquire"
    <3> DEFINE gone == OwnedPairs \ OwnedPairs'
    <3>1. OwnedPairs' \subseteq OwnedPairs
      BY <2>1, <2>3, <2>4, <2>7 DEF IInv, CopiesFollow
    <3>2. \A s \in Sessions : <<RunningOn[s], s>> \notin gone
      <4> SUFFICES ASSUME NEW s \in Sessions, <<RunningOn[s], s>> \in OwnedPairs
                   PROVE  <<RunningOn[s], s>> \in OwnedPairs'
        OBVIOUS
      <4>1. NoPath # RunningOn[s]
        BY <1>0, <2>3 DEF PairsOf, TypeOK, FileLock
      <4>2. pc[s] = "running" /\ RunningOn[s] = target[s]
        BY <4>1 DEF RunningOn
      <4>3. Holds(store[q], s)
        BY <2>1, <4>2 DEF IInv, RunnersHold, Saving
      <4> QED
        BY <2>4, <4>2, <4>3 DEF Holds, PairsOf
    <3>3. CASE gone = {}
      BY <2>5, <3>1, <3>3
    <3>4. CASE gone # {}
      <4>1. Table!GiveBack(gone)
        BY <2>5, <3>1, <3>2, <3>4 DEF Table!GiveBack
      <4> QED
        BY <4>1 DEF Table!Step
    <3> QED
      BY <3>3, <3>4
  <2> QED
    BY <2>6, <2>7
<1>9. ASSUME NEW q \in Procs, EndWrite(q) PROVE [Table!Step]_(Table!ownership)
  <2>1. /\ pc[q] = "writing" /\ disk' = store[q] /\ target' = target
        /\ pc' = [pc EXCEPT ![q] = AfterSave(op[q])]
    BY <1>9 DEF EndWrite, StopSaving, IInv, CopiesFollow
  <2>2. pc'[q] = AfterSave(op[q]) /\ pc'[q] # "writing"
    BY <1>0, <2>1 DEF AfterSave, TypeOK
  <2>3. \A r \in Procs : pc'[r] # "writing"
    BY <1>0, <2>1, <2>2 DEF IInv, OneInWindow, InWindow, TypeOK
  <2>4. OwnedPairs = PairsOf(store[q])
    BY <2>1, OwnedPairsAre DEF CommittedIs
  <2>5. OwnedPairs' = OwnedPairs
    <3>1. OwnedPairs' = PairsOf(disk)'
      BY <2>3, OwnedPairsNext DEF CommittedIs
    <3> QED
      BY <2>1, <2>4, <3>1 DEF PairsOf
  <2>6. CASE op[q] = "acquire"
    <3>1. q \in Sessions /\ target[q] \in Paths /\ pc'[q] = "running"
      BY <1>0, <2>1, <2>2, <2>6 DEF Shape, Saving, Procs, AfterSave
    <3>2. <<target[q], q>> \in OwnedPairs
      BY <2>1, <2>4, <2>6 DEF IInv, CopiesFollow, Saving, Holds, PairsOf
    <3>3. RunningOn[q] = NoPath
      BY <2>1, <3>1 DEF RunningOn
    <3>4. RunningOn' = [RunningOn EXCEPT ![q] = target[q]]
      BY <1>0, <2>1, <3>1 DEF RunningOn, TypeOK, Procs
    <3>5. Table!Use(q, target[q])
      BY <2>5, <3>2, <3>3, <3>4 DEF Table!Use
    <3> QED
      BY <3>1, <3>5 DEF Table!Step
  <2>7. CASE op[q] # "acquire"
    <3>1. pc'[q] # "running"
      BY <2>2, <2>7 DEF AfterSave
    <3> QED
      BY <1>2, <2>1, <2>2, <2>5, <3>1
  <2> QED
    BY <2>6, <2>7
<1>10. ASSUME NEW q \in Procs, SaveFails(q) PROVE FALSE
  BY <1>10 DEF SaveFails
<1>11. CASE HourPasses
  <2>1. /\ disk' = Aged(disk) /\ store' = [q \in Procs |-> Aged(store[q])]
        /\ UNCHANGED <<pc, op, target>>
    BY <1>11 DEF HourPasses
  <2>2. RunningOn' = RunningOn
    BY <2>1 DEF RunningOn
  <2>3. OwnedPairs' = OwnedPairs
    <3>1. CASE \E q \in Procs : pc[q] = "writing"
      <4>1. PICK q \in Procs : pc[q] = "writing"
        BY <3>1
      <4>2. OwnedPairs = PairsOf(store[q])
        BY <4>1, OwnedPairsAre DEF CommittedIs
      <4>3. OwnedPairs' = PairsOf(store[q])'
        BY <2>1, <4>1, OwnedPairsNext DEF CommittedIs
      <4>4. PairsOf(store[q])' = PairsOf(Aged(store[q]))
        BY <2>1 DEF PairsOf
      <4> QED
        BY <4>2, <4>3, <4>4, AgedPairs
    <3>2. CASE \A q \in Procs : pc[q] # "writing"
      <4>1. OwnedPairs = PairsOf(disk)
        BY <3>2, OwnedPairsAre DEF CommittedIs
      <4>2. OwnedPairs' = PairsOf(disk)'
        BY <2>1, <3>2, OwnedPairsNext DEF CommittedIs
      <4>3. PairsOf(disk)' = PairsOf(Aged(disk))
        BY <2>1 DEF PairsOf
      <4> QED
        BY <4>1, <4>2, <4>3, AgedPairs
    <3> QED
      BY <3>1, <3>2
  <2> QED
    BY <2>2, <2>3
<1> QED
  BY <1>4, <1>5, <1>6, <1>7, <1>8, <1>9, <1>10, <1>11 DEF Next, Save

(* Once disturbed, a lock operation stays so. *)
LEMMA CalmOnlyEnds == ASSUME [Next]_vars, calm' PROVE calm
BY DEF vars, Next, ToolCall, CheckConflict, RunWithoutTarget, AcquireLoad,
       AcquireRefused, FinishTool, EndSession, Crash, Admin, StopSession,
       CleanupStaleLocks, ListLocks, Save, BeginWrite, EndWrite, SaveFails,
       HourPasses

(* The load-change-save of locks.json implements the atomic lock table,    *)
(* step by step, as long as nothing disturbs it.                           *)
THEOREM Refinement == Spec => ImplementsLockTable
<1>1. Init => Table!Init
  <2> SUFFICES ASSUME Init PROVE Table!Init
    OBVIOUS
  <2>1. Committed = {}
    BY DEF Init, Committed
  <2>2. OwnedPairs = {}
    BY <2>1 DEF OwnedPairs, PairsOf
  <2>3. RunningOn = [s \in Sessions |-> NoPath]
    BY DEF Init, RunningOn, Procs
  <2> QED
    BY <2>2, <2>3 DEF Table!Init, Init
<1>2. IInv /\ IInv' /\ [Next]_vars => [Table!Next]_(Table!tableVars)
  <2> SUFFICES ASSUME IInv, IInv', [Next]_vars PROVE [Table!Next]_(Table!tableVars)
    OBVIOUS
  <2>1. calm \in BOOLEAN /\ calm' \in BOOLEAN
    BY DEF IInv, TypeOK
  <2>2. CASE UNCHANGED vars
    BY <2>2 DEF vars, Table!tableVars, OwnedPairs, PairsOf, Committed, RunningOn
  <2>3. CASE ~calm'
    BY <2>1, <2>3 DEF Table!Next, Table!Disturbed
  <2>4. CASE Next /\ calm'
    <3>1. calm /\ calm' = calm
      BY <2>1, <2>4, CalmOnlyEnds
    <3>2. [Table!Step]_(Table!ownership)
      BY <2>4, <3>1, StepImplements
    <3> QED
      BY <3>1, <3>2 DEF Table!Next, Table!tableVars, Table!ownership
  <2> QED
    BY <2>2, <2>3, <2>4
<1> QED
  BY <1>1, <1>2, InductiveInvariant, PTL DEF Spec, ImplementsLockTable, Table!Spec

------------------------------------------------------------------------------
(* What the atomic lock table gives every program that implements it.      *)

VARIABLES owns, using, kept

Atomic == INSTANCE LockTable

TableInv == Atomic!TableTypeOK /\ Atomic!SingleOwner /\ Atomic!UsersOwn

LEMMA StepTableInv == TableInv /\ [Atomic!Step]_(Atomic!ownership) => TableInv'
<1> USE DEF TableInv, Atomic!TableTypeOK, Atomic!SingleOwner, Atomic!UsersOwn
<1> SUFFICES ASSUME TableInv, [Atomic!Step]_(Atomic!ownership) PROVE TableInv'
  OBVIOUS
<1>1. ASSUME NEW s \in Sessions, NEW p \in Paths, Atomic!Take(s, p) PROVE TableInv'
  BY <1>1 DEF Atomic!Take
<1>2. ASSUME NEW s \in Sessions, NEW p \in Paths, Atomic!Use(s, p) PROVE TableInv'
  BY <1>2 DEF Atomic!Use
<1>3. ASSUME NEW s \in Sessions, Atomic!Done(s) PROVE TableInv'
  BY <1>3 DEF Atomic!Done
<1>4. ASSUME NEW pairs \in SUBSET owns, Atomic!GiveBack(pairs) PROVE TableInv'
  BY <1>4 DEF Atomic!GiveBack
<1>5. CASE UNCHANGED Atomic!ownership
  BY <1>5 DEF Atomic!ownership
<1> QED
  BY <1>1, <1>2, <1>3, <1>4, <1>5 DEF Atomic!Step

(* While the promise of the atomic table is kept a file has one owner, and *)
(* a tool runs only on a file of its session's own.                        *)
THEOREM TableInvariant == Atomic!Spec => [](kept => TableInv)
<1>1. Atomic!Init => (kept => TableInv)
  BY DEF Atomic!Init, TableInv, Atomic!TableTypeOK, Atomic!SingleOwner, Atomic!UsersOwn
<1>2. (kept => TableInv) /\ [Atomic!Next]_(Atomic!tableVars) => (kept => TableInv)'
  <2> SUFFICES ASSUME kept => TableInv, [Atomic!Next]_(Atomic!tableVars), kept' PROVE TableInv'
    OBVIOUS
  <2>1. kept /\ [Atomic!Step]_(Atomic!ownership)
    BY DEF Atomic!Next, Atomic!Disturbed, Atomic!tableVars, Atomic!ownership
  <2> QED
    BY <2>1, StepTableInv
<1> QED
  BY <1>1, <1>2, PTL DEF Atomic!Spec

(* While the promise is kept no two sessions modify the same file at the   *)
(* same time.                                                              *)
THEOREM TableExclusive == Atomic!Spec => [](kept => Atomic!Exclusive)
<1>1. (kept => TableInv) => (kept => Atomic!Exclusive)
  BY DEF TableInv, Atomic!TableTypeOK, Atomic!SingleOwner, Atomic!UsersOwn, Atomic!Exclusive
<1> QED
  BY <1>1, TableInvariant, PTL
==============================================================================
