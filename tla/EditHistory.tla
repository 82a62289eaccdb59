----------------------------- MODULE EditHistory -----------------------------
(***************************************************************************)
(* The edits of files by tools, their history and their revert.  Sources:  *)
(* the files of src/src/tools/patch/, called by edit_file, write_file,     *)
(* patch_file and revert_patch in src/src/tools/.                          *)
(*                                                                         *)
(* An edit is prepared from the file as it is, shown to the user for       *)
(* approval, checked against the file once more, backed up, written and    *)
(* appended to edit-history.jsonl.  A revert takes a record of the history *)
(* whose result the file still has, asks, and writes what was there before *)
(* the edit, as a further edit with a record of its own.  Several          *)
(* processes do this in one project, and the user edits files meanwhile.   *)
(* The file locks of agent sessions are not relied on: a single agent and  *)
(* the revert command take none.                                           *)
(*                                                                         *)
(* A content is what tells contents apart here: its text and whether its   *)
(* lines end with \n, with \r\n or with both.  Hashes are taken for the    *)
(* contents they are made of.                                              *)
(***************************************************************************)
EXTENDS Naturals, Sequences

CONSTANTS
    Processes, \* processes that run tools
    Files,
    Texts,     \* what a file can say
    OneLine,   \* those of them without a line ending
    Empty,     \* the empty text
    Absent,    \* there is no such file
    None,      \* no record
    MaxCalls,  \* bound: tool calls
    MaxEdits   \* bound: edits of the user

ASSUME EditHistoryAssumption ==
    /\ Empty \in OneLine /\ OneLine \subseteq Texts
    /\ Absent \notin [text : Texts, ends : {"lf", "crlf", "mixed"}]
    /\ MaxCalls \in Nat /\ MaxEdits \in Nat

Contents == {c \in [text : Texts, ends : {"lf", "crlf", "mixed"}] :
                c.text \in OneLine => c.ends = "lf"}
EmptyFile == [text |-> Empty, ends |-> "lf"]

VARIABLES
    disk,     \* the files
    history,  \* edit-history.jsonl: its whole records, and whether a line is torn
    process,  \* the tool call of each process
    calls,    \* number of tool calls so far
    edits,    \* number of edits of the user so far
    calm,     \* history: no two processes were writing and recording at once,
              \* and none died there
    recorded, \* history: the calls that have ended after their write
    touched   \* history: files the user has changed since a tool wrote them

vars == <<disk, history, process, calls, edits, calm, recorded, touched>>

(* A record; old and new stand for oldHash with the backup, and newHash.   *)
Records == [id : 1..MaxCalls, file : Files, old : Contents \cup {Absent},
            new : Contents \cup {Absent}, create : BOOLEAN]

ASSUME NoneAssumption == None \notin Records

NoHistory == [records |-> <<>>, torn |-> FALSE]

(* target is the record a revert takes back, copy the history it appends   *)
(* to; fresh: nobody has changed the file since the call last looked at it.*)
Idle == [pc |-> "idle", edit |-> None, target |-> None, copy |-> NoHistory,
         fresh |-> FALSE]

Histories == [records : Seq(Records), torn : BOOLEAN]

Calls ==
    [pc : {"asked", "approved", "checked", "written", "loaded", "saving"},
     edit : Records, target : Records \cup {None}, copy : Histories,
     fresh : BOOLEAN]

TypeOK ==
    /\ disk \in [Files -> Contents \cup {Absent}]
    /\ history \in Histories
    /\ process \in [Processes -> Calls \cup {Idle}]
    /\ calls \in 0..MaxCalls /\ edits \in 0..MaxEdits
    /\ calm \in BOOLEAN
    /\ recorded \subseteq 1..MaxCalls
    /\ touched \subseteq Files

Init ==
    /\ disk \in [Files -> Contents \cup {Absent}]
    /\ history = NoHistory
    /\ process = [p \in Processes |-> Idle]
    /\ calls = 0 /\ edits = 0
    /\ calm = TRUE
    /\ recorded = {} /\ touched = {}

------------------------------------------------------------------------------
(* Contents.                                                               *)

(* Mutant of Normalised: a text without line endings counts as \r\n, too.  *)
NormalisedAlways(original, c) ==
    [c EXCEPT !.ends = IF original # Absent /\ original.ends # "lf"
                       THEN "crlf" ELSE "lf"]

(* preserveLineEndings. *)
Normalised(original, c) ==
    [c EXCEPT !.ends = IF /\ original # Absent /\ original.ends # "lf"
                          /\ c.text \notin OneLine
                       THEN "crlf" ELSE "lf"]

(* applyOperations: what the operations of a call can make of a file.  A   *)
(* file that is not there must first be created, and a deletion is the     *)
(* last operation.  create: the call does nothing but create the file.     *)
Outcomes(before) ==
    [new : {Normalised(before, c) : c \in Contents},
     create : IF before = Absent THEN BOOLEAN ELSE {FALSE}]
        \cup [new : {Absent}, create : {FALSE}]

(* Mutant of Restored: the revert of a created file is a reverse diff, too.*)
RestoredByDiff(e, current) ==
    IF e.old # Absent THEN Normalised(current, e.old) ELSE EmptyFile

(* resolveRestoredContent: the backup; without one, which is when there    *)
(* was no file, nothing if the edit created it, or else the reverse diff,  *)
(* which takes away all text.                                              *)
Restored(e, current) ==
    IF e.old # Absent THEN Normalised(current, e.old)
    ELSE IF e.create THEN Absent ELSE EmptyFile

------------------------------------------------------------------------------
(* A call of a tool, up to the approval.                                   *)

Call(p, file, new, create, target) ==
    /\ process[p].pc = "idle"
    /\ calls < MaxCalls /\ calls' = calls + 1
    /\ process' = [process EXCEPT ![p] =
          [pc |-> "asked", target |-> target, copy |-> NoHistory, fresh |-> TRUE,
           edit |-> [id |-> calls', file |-> file, old |-> disk[file],
                     new |-> new, create |-> create]]]
    /\ UNCHANGED <<disk, history, edits, calm, recorded, touched>>

(* preparePatch.  Operations that do not fit the file end the call.        *)
PrepareEdit(p) ==
    \E f \in Files : \E o \in Outcomes(disk[f]) : Call(p, f, o.new, o.create, None)

IsCurrent(e) == disk[e.file] = e.new

(* revertPatchRequest: a record by its id, the last one, or the last one   *)
(* of a file.  A torn line anywhere ends the call, as does a file that is  *)
(* not as the edit has left it.                                            *)
PrepareRevert(p) ==
    /\ ~history.torn
    /\ \E i \in DOMAIN history.records :
          LET e == history.records[i]
          IN  /\ IsCurrent(e)
              /\ Call(p, e.file, Restored(e, disk[e.file]), FALSE, e)

Goes(p, pc) == process' = [process EXCEPT ![p].pc = pc]

(* A revert is not checked again once it is approved. *)
Approve(p) ==
    /\ process[p].pc = "asked"
    /\ Goes(p, IF process[p].target = None THEN "approved" ELSE "checked")
    /\ UNCHANGED <<disk, history, calls, edits, calm, recorded, touched>>

(* Mutant of Matches: the file is not read again after the approval. *)
MatchesAlways(p) == TRUE

Matches(p) == disk[process[p].edit.file] = process[p].edit.old

(* The file must be as the user saw it in the preview. *)
Recheck(p) ==
    /\ process[p].pc = "approved"
    /\ process' = [process EXCEPT ![p] =
          IF Matches(p) THEN [@ EXCEPT !.pc = "checked", !.fresh = TRUE] ELSE Idle]
    /\ UNCHANGED <<disk, history, calls, edits, calm, recorded, touched>>

------------------------------------------------------------------------------
(* The write and its record.                                               *)

Recording(p) == process[p].pc \in {"written", "loaded", "saving"}

(* The processes whose file has been changed under them. *)
Overtaken(f) ==
    [p \in Processes |->
        IF process[p].edit # None /\ process[p].edit.file = f
        THEN [process[p] EXCEPT !.fresh = FALSE] ELSE process[p]]

(* createEditBackup, and the file is renamed into place or removed.        *)
WriteFile(p) ==
    /\ process[p].pc = "checked"
    /\ LET e == process[p].edit
       IN  /\ disk' = [disk EXCEPT ![e.file] = e.new]
           /\ process' = [Overtaken(e.file) EXCEPT ![p].pc = "written"]
           /\ touched' = touched \ {e.file}
    /\ calm' = (calm /\ \A q \in Processes \ {p} : ~Recording(q))
    /\ UNCHANGED <<history, calls, edits, recorded>>

(* appendEditHistoryRecord reads the whole history ... *)
LoadHistory(p) ==
    /\ process[p].pc = "written"
    /\ process' = [process EXCEPT ![p].pc = "loaded", ![p].copy = history]
    /\ UNCHANGED <<disk, history, calls, edits, calm, recorded, touched>>

(* Mutant of WithRecord: the record replaces the history. *)
WithRecordAlone(h, e) == [h EXCEPT !.records = <<e>>]

(* Mutant of WithRecord: the record goes before the others. *)
WithRecordFirst(h, e) == [h EXCEPT !.records = <<e>> \o @]

(* What is appended to a torn line is part of it. *)
WithRecord(h, e) == [h EXCEPT !.records = Append(@, e)]

Saved(p) == WithRecord(process[p].copy, process[p].edit)

(* What is in the file while h is written to it, or if that is cut short.  *)
(* Where in h an older torn line is, is left open.                         *)
Cuts(h) ==
    {[records |-> SubSeq(h.records, 1, n), torn |-> t] :
        n \in 0..Len(h.records), t \in BOOLEAN}

(* ... and writes it back with the record. *)
BeginSave(p) ==
    /\ process[p].pc = "loaded"
    /\ history' \in Cuts(Saved(p))
    /\ Goes(p, "saving")
    /\ UNCHANGED <<disk, calls, edits, calm, recorded, touched>>

EndSave(p) ==
    /\ process[p].pc = "saving"
    /\ history' = Saved(p)
    /\ recorded' = recorded \cup {process[p].edit.id}
    /\ process' = [process EXCEPT ![p] = Idle]
    /\ UNCHANGED <<disk, calls, edits, calm, touched>>

(* The user refuses, a call of the file system throws, or the process dies.*)
Abort(p) ==
    /\ process[p].pc # "idle"
    /\ calm' = (calm /\ ~Recording(p))
    /\ process' = [process EXCEPT ![p] = Idle]
    /\ UNCHANGED <<disk, history, calls, edits, recorded, touched>>

UserEdits ==
    /\ edits < MaxEdits /\ edits' = edits + 1
    /\ \E f \in Files : \E c \in (Contents \cup {Absent}) \ {disk[f]} :
          /\ disk' = [disk EXCEPT ![f] = c]
          /\ process' = Overtaken(f)
          /\ touched' = touched \cup {f}
    /\ UNCHANGED <<history, calls, calm, recorded>>

Step(p) ==
    \/ PrepareEdit(p) \/ PrepareRevert(p) \/ Approve(p) \/ Recheck(p)
    \/ WriteFile(p) \/ LoadHistory(p) \/ BeginSave(p) \/ EndSave(p) \/ Abort(p)

Next == UserEdits \/ \E p \in Processes : Step(p)

Spec == Init /\ [][Next]_vars

------------------------------------------------------------------------------
Writes(p) == process[p].pc = "checked" /\ process'[p].pc = "written"

(* What a tool overwrites or deletes is what the user saw in the preview   *)
(* and what the backup has, however long the approval took and whatever    *)
(* the user and other processes did meanwhile.  Not covered is the time    *)
(* after the last look: after the check for an edit, but for a revert,     *)
(* which is not checked after its approval, all of the approval.           *)
EditsAsShown ==
    [][\A p \in Processes : Writes(p) /\ process[p].fresh =>
          disk[process[p].edit.file] = process[p].edit.old]_vars

(* A revert takes a file from what the edit has left to what was there     *)
(* before, after any chain of edits, reverts and reverts of reverts; but   *)
(* two losses.  Line endings are not restored if they were mixed, or if    *)
(* the edit has left none to go by.  An edit that did more than create its *)
(* file, or that is itself a revert, leaves an empty file when reverted,   *)
(* where there was none.                                                   *)
RevertRestores ==
    [][\A p \in Processes : Writes(p) /\ process[p].fresh /\ process[p].target # None =>
          LET e == process[p].target
              was == e.old
              is == disk'[e.file]
          IN  /\ disk[e.file] = e.new
              /\ \/ is = was
                 \/ was = Absent /\ ~e.create /\ is = EmptyFile
                 \/ /\ was # Absent /\ is # Absent /\ is.text = was.text
                    /\ \/ was.ends = "mixed"
                       \/ e.new = Absent \/ e.new.text \in OneLine]_vars

(* As long as no two processes write and record at once and none dies      *)
(* there, the history can be read and has every edit that was made: an     *)
(* append rewrites the whole file and loses none.                          *)
CalmHistory ==
    calm => /\ history.torn => \E p \in Processes : process[p].pc = "saving"
            /\ \A id \in recorded :
                  \/ \E i \in DOMAIN history.records : history.records[i].id = id
                  \/ \E p \in Processes :
                        /\ process[p].pc = "saving"
                        /\ \E i \in DOMAIN Saved(p).records :
                              Saved(p).records[i].id = id

(* Then the last edit of a file can be reverted by the name of the file,   *)
(* unless the user has changed the file since: order of the records and    *)
(* order of the writes agree.                                              *)
IsLatest(records, i) ==
    \A j \in DOMAIN records : j > i => records[j].file # records[i].file

LatestCurrent(records) ==
    \A i \in DOMAIN records :
        records[i].file \notin touched /\ IsLatest(records, i) => IsCurrent(records[i])

LatestReverts ==
    calm /\ (\A p \in Processes : ~Recording(p)) => LatestCurrent(history.records)

------------------------------------------------------------------------------
(* The inductive invariant from which the above follow.                    *)

(* A file nobody has changed is as the call saw it. *)
FreshIsSeen ==
    \A p \in Processes :
        process[p].pc \in {"asked", "approved", "checked"} /\ process[p].fresh
            => Matches(p)

(* A record has the line endings that preserveLineEndings gives. *)
KeepsEndings(e) ==
    e.old # Absent /\ e.new # Absent => e.new = Normalised(e.old, e.new)

RecordsKeepEndings ==
    /\ \A i \in DOMAIN history.records : KeepsEndings(history.records[i])
    /\ \A p \in Processes : process[p].pc # "idle" =>
          /\ KeepsEndings(process[p].edit)
          /\ \A i \in DOMAIN process[p].copy.records :
                KeepsEndings(process[p].copy.records[i])

(* A revert takes back what its target has done. *)
RevertsInvert ==
    \A p \in Processes : process[p].target # None =>
        LET e == process[p].target
        IN  /\ KeepsEndings(e)
            /\ process[p].edit.file = e.file
            /\ process[p].edit.old = e.new
            /\ process[p].edit.new = Restored(e, e.new)

(* One process records at a time, and what it is about to save is the      *)
(* history, whole, with its edit at the end.                               *)
OneRecords ==
    \A p, q \in Processes : Recording(p) /\ Recording(q) => p = q

CopyFollows ==
    \A p \in Processes :
        /\ process[p].pc = "loaded" => process[p].copy = history
        /\ process[p].pc = "saving" =>
              /\ ~process[p].copy.torn
              /\ \A id \in recorded :
                    \E i \in DOMAIN process[p].copy.records :
                        process[p].copy.records[i].id = id

LatestWillRevert ==
    \A p \in Processes :
        /\ process[p].pc = "written" =>
              LatestCurrent(Append(history.records, process[p].edit))
        /\ process[p].pc \in {"loaded", "saving"} => LatestCurrent(Saved(p).records)

IInv ==
    /\ TypeOK
    /\ FreshIsSeen
    /\ RecordsKeepEndings
    /\ RevertsInvert
    /\ calm => OneRecords /\ CopyFollows /\ LatestWillRevert
    /\ CalmHistory
    /\ LatestReverts
==============================================================================
