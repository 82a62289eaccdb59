------------------------------ MODULE FileLocks ------------------------------
(***************************************************************************)
(* The file-lock manager of src/src/multisession/locks.ts as the tool      *)
(* executor and the CLI use it.  The table lives in one file, locks.json.  *)
(* Every operation loads the whole file, changes the copy in memory and    *)
(* saves the whole copy; the file system runs between those steps whatever *)
(* the other processes (detached session workers, other CLI invocations)   *)
(* or the other async calls of the same process do.  A save first          *)
(* truncates the file and then writes it (fs.writeFile), and a reader that *)
(* cannot parse the file takes it for an empty table (readJsonFile), so a  *)
(* truncated or garbled file is the empty set here.                        *)
(*                                                                         *)
(* A session runs one modifying tool at a time (the tool-call orchestrator *)
(* serialises writes), under a lock it takes and never gives back before   *)
(* it ends.  An admin is a short-lived CLI command: session stop/delete,   *)
(* session locks, session unlock --all.                                    *)
(***************************************************************************)
EXTENDS FiniteSets

CONSTANTS
    Sessions,   \* agent sessions, each run by one process
    Admins,     \* processes that run one CLI command after another
    Paths,      \* files the tools modify
    NoPath      \* "no tool call"

ASSUME FileLocksAssumption ==
    /\ Sessions \cap Admins = {}
    /\ NoPath \notin Paths

Procs == Sessions \cup Admins

VARIABLES
    disk,       \* what a reader of locks.json gets: a set of FileLock entries
    pc,         \* where each process is
    op,         \* the operation a process is saving for
    store,      \* the LockStore a process changed in memory and is saving
    target,     \* the file of a session's tool call
    calm        \* history: nothing has disturbed a lock operation so far

vars == <<disk, pc, op, store, target, calm>>

(* expiresAt is left out: acquireLock, the only writer of entries, never   *)
(* sets it.  stale says that createdAt is more than maxAgeMs, one hour, in *)
(* the past.                                                               *)
FileLock == [filePath : Paths, sessionId : Sessions, stale : BOOLEAN]

Ops == {"none", "acquire", "release", "revoke", "list", "cleanup"}

PcValues == {"idle", "checked", "saving", "writing", "running",
             "listing", "ended", "dead"}

TypeOK ==
    /\ disk \subseteq FileLock
    /\ pc \in [Procs -> PcValues]
    /\ op \in [Procs -> Ops]
    /\ store \in [Procs -> SUBSET FileLock]
    /\ target \in [Sessions -> Paths \cup {NoPath}]
    /\ calm \in BOOLEAN

Init ==
    /\ disk = {}
    /\ pc = [q \in Procs |-> "idle"]
    /\ op = [q \in Procs |-> "none"]
    /\ store = [q \in Procs |-> {}]
    /\ target = [s \in Sessions |-> NoPath]
    /\ calm = TRUE

------------------------------------------------------------------------------
(* The operators the handlers are built from.                              *)

(* Mutant of Conflict: an entry past its hour counts as expired. *)
ConflictFresh(locks, p, s) ==
    \E l \in locks : l.filePath = p /\ l.sessionId # s /\ ~l.stale

(* isLocked and checkConflicts: an entry of another session for the file. *)
Conflict(locks, p, s) ==
    \E l \in locks : l.filePath = p /\ l.sessionId # s

(* Mutant of WithLock: the session's older entry is not removed. *)
WithLockAgain(locks, p, s) ==
    locks \cup {[filePath |-> p, sessionId |-> s, stale |-> FALSE]}

(* Mutant of WithLock: stale entries are cleaned up on the way. *)
WithLockPruned(locks, p, s) ==
    {l \in locks : ~l.stale /\ ~(l.filePath = p /\ l.sessionId = s)}
        \cup {[filePath |-> p, sessionId |-> s, stale |-> FALSE]}

(* acquireLock, after the conflict test: the session's own entry for the   *)
(* file is replaced by a new one.                                          *)
WithLock(locks, p, s) ==
    {l \in locks : ~(l.filePath = p /\ l.sessionId = s)}
        \cup {[filePath |-> p, sessionId |-> s, stale |-> FALSE]}

(* Mutant of WithoutSession: entries past their hour are overlooked. *)
WithoutFreshLocks(locks, s) == {l \in locks : l.sessionId # s \/ l.stale}

(* releaseAllForSession. *)
WithoutSession(locks, s) == {l \in locks : l.sessionId # s}

(* cleanupStaleLocks. *)
WithoutStale(locks) == {l \in locks : ~l.stale}

AgedLock(l) ==
    [filePath |-> l.filePath, sessionId |-> l.sessionId, stale |-> TRUE]

Aged(locks) == {AgedLock(l) : l \in locks}

(* A process between the load that decided its operation and the end of    *)
(* the save: from checkFileConflict to the end of acquireLock for a tool.  *)
InWindow(q) == pc[q] \in {"checked", "saving", "writing"}

Overlapped(q) == \E r \in Procs \ {q} : InWindow(r)

(* A tool of the session is running on one of these locks. *)
InUse(locks) ==
    \E l \in locks : pc[l.sessionId] = "running" /\ target[l.sessionId] = l.filePath

(* The process q has changed its copy and goes on to saveStore. *)
StartSave(q, kind, locks) ==
    /\ pc' = [pc EXCEPT ![q] = "saving"]
    /\ op' = [op EXCEPT ![q] = kind]
    /\ store' = [store EXCEPT ![q] = locks]

(* Where a process goes when its save has returned. *)
AfterSave(kind) ==
    CASE kind = "acquire" -> "running"
      [] kind = "release" -> "ended"
      [] kind = "cleanup" -> "listing"
      [] OTHER -> "idle"

StopSaving(q, next) ==
    /\ pc' = [pc EXCEPT ![q] = next]
    /\ op' = [op EXCEPT ![q] = "none"]
    /\ store' = [store EXCEPT ![q] = {}]

------------------------------------------------------------------------------
(* The tool executor: checkAndAcquireFileLocks, then the tool.             *)

(* checkFileConflict found no other holder.  When it finds one the tool    *)
(* call returns the conflict and nothing changes.                          *)
CheckConflict(s, p) ==
    /\ pc[s] = "idle"
    /\ ~Conflict(disk, p, s)
    /\ pc' = [pc EXCEPT ![s] = "checked"]
    /\ target' = [target EXCEPT ![s] = p]
    /\ calm' = (calm /\ ~Overlapped(s))
    /\ UNCHANGED <<disk, op, store>>

(* revert_patch with an editId, or with target=last, names no path:        *)
(* extractToolLockTargets returns no file and the tool runs unlocked.      *)
RunWithoutTarget(s, p) ==
    /\ pc[s] = "idle"
    /\ pc' = [pc EXCEPT ![s] = "running"]
    /\ target' = [target EXCEPT ![s] = p]
    /\ calm' = FALSE
    /\ UNCHANGED <<disk, op, store>>

(* acquireLock up to saveStore. *)
AcquireLoad(s) ==
    /\ pc[s] = "checked"
    /\ ~Conflict(disk, target[s], s)
    /\ StartSave(s, "acquire", WithLock(disk, target[s], s))
    /\ calm' = (calm /\ ~Overlapped(s))
    /\ UNCHANGED <<disk, target>>

(* acquireLock returns false when another session got there after the      *)
(* check; the executor only remembers not to list the file as locked, and  *)
(* runs the tool.                                                          *)
AcquireRefused(s) ==
    /\ pc[s] = "checked"
    /\ Conflict(disk, target[s], s)
    /\ pc' = [pc EXCEPT ![s] = "running"]
    /\ calm' = (calm /\ ~Overlapped(s))
    /\ UNCHANGED <<disk, op, store, target>>

(* tool.run returns or throws.  The lock stays. *)
FinishTool(s) ==
    /\ pc[s] = "running"
    /\ pc' = [pc EXCEPT ![s] = "idle"]
    /\ target' = [target EXCEPT ![s] = NoPath]
    /\ UNCHANGED <<disk, op, store, calm>>

(* completeSession or failSession in the session's own process.  A worker  *)
(* releases up to three times: in Agent.run, in completeSession and in     *)
(* releaseSessionLocks.                                                    *)
EndSession(s) ==
    /\ pc[s] \in {"idle", "ended"}
    /\ IF WithoutSession(disk, s) # disk
       THEN StartSave(s, "release", WithoutSession(disk, s))
       ELSE /\ pc' = [pc EXCEPT ![s] = "ended"]
            /\ UNCHANGED <<op, store>>
    /\ calm' = (calm /\ ~Overlapped(s))
    /\ UNCHANGED <<disk, target>>

------------------------------------------------------------------------------
(* CLI commands of other processes.                                        *)

(* session stop and session delete: releaseAllForSession, whatever the     *)
(* session's process is doing.                                             *)
StopSession(a, s) ==
    /\ pc[a] = "idle"
    /\ WithoutSession(disk, s) # disk
    /\ StartSave(a, "revoke", WithoutSession(disk, s))
    /\ calm' = (calm /\ ~Overlapped(a) /\ ~InUse(disk \ WithoutSession(disk, s)))
    /\ UNCHANGED <<disk, target>>

(* session unlock --all: cleanupStaleLocks saves only when it removed      *)
(* something, and listLocks follows.                                       *)
CleanupStaleLocks(a) ==
    /\ pc[a] = "idle"
    /\ IF WithoutStale(disk) # disk
       THEN StartSave(a, "cleanup", WithoutStale(disk))
       ELSE /\ pc' = [pc EXCEPT ![a] = "listing"]
            /\ UNCHANGED <<op, store>>
    /\ calm' = (calm /\ ~Overlapped(a) /\ ~InUse(disk \ WithoutStale(disk)))
    /\ UNCHANGED <<disk, target>>

(* listLocks, for session locks and at the end of session unlock --all: a  *)
(* command that only shows the locks saves the file it read.               *)
ListLocks(a) ==
    /\ pc[a] \in {"idle", "listing"}
    /\ StartSave(a, "list", disk)
    /\ calm' = (calm /\ ~Overlapped(a))
    /\ UNCHANGED <<disk, target>>

------------------------------------------------------------------------------
(* saveStore, and what can go wrong with it.                               *)

(* fs.writeFile opens the file with truncation ... *)
BeginWrite(q) ==
    /\ pc[q] = "saving"
    /\ pc' = [pc EXCEPT ![q] = "writing"]
    /\ disk' = {}
    /\ UNCHANGED <<op, store, target, calm>>

(* ... and writes from offset 0.  If another save landed in between, what  *)
(* is left of a longer text behind this one makes the file unreadable.     *)
EndWrite(q) ==
    /\ pc[q] = "writing"
    /\ disk' \in {store[q]} \cup (IF disk = {} THEN {} ELSE {{}})
    /\ StopSaving(q, AfterSave(op[q]))
    /\ UNCHANGED <<target, calm>>

(* mkdir, open or write throws.  The executor fails open and runs the      *)
(* tool; a session or a command gives up.                                  *)
SaveFails(q) ==
    /\ pc[q] \in {"saving", "writing"}
    /\ StopSaving(q, IF op[q] = "cleanup" THEN "idle" ELSE AfterSave(op[q]))
    /\ calm' = FALSE
    /\ UNCHANGED <<disk, target>>

(* The process of a session dies: a crash, a reboot, or the SIGTERM that   *)
(* session stop sends to a worker.  Its locks stay in the file.  In the    *)
(* middle of a write it leaves the file truncated.                         *)
Crash(s) ==
    /\ pc[s] \notin {"ended", "dead"}
    /\ StopSaving(s, "dead")
    /\ target' = [target EXCEPT ![s] = NoPath]
    /\ calm' = (calm /\ pc[s] # "writing")
    /\ UNCHANGED disk

(* More than an hour passes. *)
HourPasses ==
    /\ disk' = Aged(disk)
    /\ store' = [q \in Procs |-> Aged(store[q])]
    /\ UNCHANGED <<pc, op, target, calm>>

------------------------------------------------------------------------------
ToolCall(s) ==
    \/ \E p \in Paths : CheckConflict(s, p) \/ RunWithoutTarget(s, p)
    \/ AcquireLoad(s) \/ AcquireRefused(s) \/ FinishTool(s)

Admin(a) ==
    \/ \E s \in Sessions : StopSession(a, s)
    \/ CleanupStaleLocks(a) \/ ListLocks(a)

Save(q) == BeginWrite(q) \/ EndWrite(q) \/ SaveFails(q)

Next ==
    \/ \E s \in Sessions : ToolCall(s) \/ EndSession(s) \/ Crash(s)
    \/ \E a \in Admins : Admin(a)
    \/ \E q \in Procs : Save(q)
    \/ HourPasses

Spec == Init /\ [][Next]_vars

------------------------------------------------------------------------------
(* What holds.                                                             *)

OnePerPath(locks) ==
    \A k, l \in locks : k.filePath = l.filePath => k = l

(* However loads and saves of locks.json interleave, crash or fail, the    *)
(* file never holds two entries for one path, and neither does any copy    *)
(* about to be saved: isLocked and acquireLock look only at the first      *)
(* entry they find.                                                        *)
UniqueLocks ==
    /\ OnePerPath(disk)
    /\ \A q \in Procs : OnePerPath(store[q])

ToolsExclude ==
    \A s, t \in Sessions :
        pc[s] = "running" /\ pc[t] = "running" /\ target[s] = target[t] => s = t

(* As long as the lock operations have not been disturbed, no two sessions *)
(* run a modifying tool on the same file (executor.checkAndAcquire-        *)
(* FileLocks): the exclusion the locks give, and exactly when they give    *)
(* it.                                                                     *)
CalmExclusion == calm => ToolsExclude

HasNoLock(locks, s) == \A l \in locks : l.sessionId # s

(* As long as the lock operations have not been disturbed, a session that  *)
(* completed or failed has no entry left in the file, whatever the other   *)
(* processes save after it (releaseAllForSession).                         *)
CalmRelease ==
    calm => \A s \in Sessions : pc[s] = "ended" => HasNoLock(disk, s)

------------------------------------------------------------------------------
(* The inductive invariant behind them.                                    *)

Saving(q) == pc[q] \in {"saving", "writing"}

Holds(locks, s) ==
    \E l \in locks : l.filePath = target[s] /\ l.sessionId = s

PairsOf(locks) == {<<l.filePath, l.sessionId>> : l \in locks}

(* Which operations and places a session and a command can be at. *)
Shape ==
    /\ \A s \in Sessions :
          /\ pc[s] # "listing"
          /\ Saving(s) => op[s] \in {"acquire", "release"}
          /\ pc[s] \in {"checked", "running"} => target[s] \in Paths
          /\ Saving(s) /\ op[s] = "acquire" => target[s] \in Paths
          /\ pc[s] \notin {"checked", "running"} /\ ~(Saving(s) /\ op[s] = "acquire")
                => target[s] = NoPath
    /\ \A a \in Admins :
          /\ pc[a] \in {"idle", "saving", "writing", "listing"}
          /\ Saving(a) => op[a] \in {"revoke", "list", "cleanup"}

(* One lock operation at a time. *)
OneInWindow == \A q, r \in Procs : InWindow(q) /\ InWindow(r) => q = r

(* What a copy about to be saved has that the file has not, and what every *)
(* such copy keeps.                                                        *)
CopiesFollow ==
    \A q \in Procs :
        /\ pc[q] = "writing" => disk = {}
        /\ pc[q] = "saving" /\ op[q] # "acquire"
              => PairsOf(store[q]) \subseteq PairsOf(disk)
        /\ pc[q] = "saving" /\ op[q] = "acquire"
              => PairsOf(store[q]) = PairsOf(disk) \cup {<<target[q], q>>}
        /\ Saving(q) /\ op[q] = "acquire" => Holds(store[q], q)
        /\ Saving(q) /\ op[q] = "release" => HasNoLock(store[q], q)

(* A running tool's lock is in the file, or in the copy replacing it, and  *)
(* in every copy about to replace it.                                      *)
RunnersHold ==
    \A s \in Sessions : pc[s] = "running" =>
        /\ \A q \in Procs : Saving(q) => Holds(store[q], s)
        /\ (\A q \in Procs : pc[q] # "writing") => Holds(disk, s)

CheckedFree ==
    \A s \in Sessions : pc[s] = "checked" => ~Conflict(disk, target[s], s)

EndedHoldNothing ==
    \A s \in Sessions : pc[s] = "ended" =>
        /\ HasNoLock(disk, s)
        /\ \A q \in Procs : Saving(q) => HasNoLock(store[q], s)

(* While nothing has disturbed a lock operation there is one at a time,    *)
(* and every copy on its way into the file keeps the locks of the running  *)
(* tools and brings back none of an ended session.  With the types and     *)
(* UniqueLocks it is preserved by every step, and it implies CalmExclusion *)
(* and CalmRelease.                                                        *)
IInv ==
    /\ TypeOK
    /\ UniqueLocks
    /\ Shape
    /\ calm => /\ OneInWindow
               /\ CopiesFollow
               /\ RunnersHold
               /\ CheckedFree
               /\ EndedHoldNothing

------------------------------------------------------------------------------
(* The committed table: the file, or the copy that is replacing it. *)
Committed == disk \cup UNION {store[q] : q \in {r \in Procs : pc[r] = "writing"}}

OwnedPairs == PairsOf(Committed)

RunningOn == [s \in Sessions |-> IF pc[s] = "running" THEN target[s] ELSE NoPath]

Table == INSTANCE LockTable
             WITH owns <- OwnedPairs, using <- RunningOn, kept <- calm

(* As long as lock operations do not overlap, no save fails or is cut      *)
(* short, no lock is taken away under a running tool and every modifying   *)
(* tool names its file, load-change-save of locks.json is as good as one   *)
(* atomic operation on the lock table.                                     *)
ImplementsLockTable == Table!Spec
==============================================================================
