-------------------------- MODULE EditHistory_proofs --------------------------
(***************************************************************************)
(* Proofs about EditHistory, for any number of processes, files, texts,    *)
(* tool calls and edits of the user.                                       *)
(***************************************************************************)
EXTENDS EditHistory, TLAPS

------------------------------------------------------------------------------
(* Contents.                                                               *)

LEMMA AbsentIsNoContent == Absent \notin Contents /\ EmptyFile \in Contents
BY EditHistoryAssumption DEF Contents, EmptyFile

LEMMA NormalisedIsContent ==
    ASSUME NEW c \in Contents, NEW original \in Contents \cup {Absent}
    PROVE  /\ Normalised(original, c) \in Contents
           /\ Normalised(original, c).text = c.text
           /\ Normalised(original, Normalised(original, c)) = Normalised(original, c)
           /\ Normalised(original, c).ends = c.ends => Normalised(original, c) = c
<1>1. c = [text |-> c.text, ends |-> c.ends] /\ c.text \in Texts
  BY DEF Contents
<1>2. /\ Normalised(original, c).text = c.text
      /\ Normalised(original, c).ends \in {"crlf", "lf"}
      /\ c.text \in OneLine => Normalised(original, c).ends = "lf"
      /\ Normalised(original, c) = [text |-> c.text, ends |-> Normalised(original, c).ends]
  BY <1>1 DEF Normalised
<1>3. Normalised(original, c) \in Contents
  BY <1>1, <1>2 DEF Contents
<1>4. Normalised(original, Normalised(original, c)) = Normalised(original, c)
  BY <1>1, <1>2 DEF Normalised
<1> QED
  BY <1>1, <1>2, <1>3, <1>4

(* What a call may make of a file is a content that keeps its endings. *)
LEMMA OutcomesTyped ==
    ASSUME NEW before \in Contents \cup {Absent}, NEW o \in Outcomes(before)
    PROVE  /\ o.new \in Contents \cup {Absent} /\ o.create \in BOOLEAN
           /\ before # Absent /\ o.new # Absent => o.new = Normalised(before, o.new)
<1>1. CASE o.new = Absent
  BY <1>1 DEF Outcomes
<1>2. CASE o.new # Absent
  <2>1. PICK c \in Contents : o.new = Normalised(before, c)
    BY <1>2 DEF Outcomes
  <2>2. o.create \in BOOLEAN
    BY DEF Outcomes
  <2> QED
    BY <2>1, <2>2, NormalisedIsContent
<1> QED
  BY <1>1, <1>2

(* And so is what a revert restores. *)
LEMMA RestoredTyped ==
    ASSUME NEW e \in Records
    PROVE  /\ Restored(e, e.new) \in Contents \cup {Absent}
           /\ e.new # Absent /\ Restored(e, e.new) # Absent
                 => Restored(e, e.new) = Normalised(e.new, Restored(e, e.new))
<1>1. e.old \in Contents \cup {Absent} /\ e.new \in Contents \cup {Absent}
  BY DEF Records
<1>2. CASE e.old # Absent
  BY <1>1, <1>2, NormalisedIsContent DEF Restored
<1>3. CASE e.old = Absent
  <2>1. Normalised(e.new, EmptyFile) = EmptyFile
    BY EditHistoryAssumption DEF Normalised, EmptyFile
  <2> QED
    BY <1>3, <2>1, AbsentIsNoContent DEF Restored
<1> QED
  BY <1>2, <1>3

(* What the revert of an edit can lose. *)
LEMMA RestoredLoses ==
    ASSUME NEW e \in Records, KeepsEndings(e)
    PROVE  LET is == Restored(e, e.new)
           IN  \/ is = e.old
               \/ e.old = Absent /\ ~e.create /\ is = EmptyFile
               \/ /\ e.old # Absent /\ is # Absent /\ is.text = e.old.text
                  /\ \/ e.old.ends = "mixed"
                     \/ e.new = Absent \/ e.new.text \in OneLine
<1>1. e.old \in Contents \cup {Absent} /\ e.new \in Contents \cup {Absent}
  BY DEF Records
<1>2. CASE e.old = Absent
  BY <1>2 DEF Restored
<1>3. CASE e.old # Absent
  <2> DEFINE is == Normalised(e.new, e.old)
  <2>1. Restored(e, e.new) = is /\ is # Absent /\ is.text = e.old.text
    BY <1>1, <1>3, NormalisedIsContent, AbsentIsNoContent DEF Restored
  <2>2. ASSUME e.old.ends # "mixed", e.new # Absent, e.new.text \notin OneLine
        PROVE  is = e.old
    <3>1. e.new.ends = IF e.old.ends # "lf" THEN "crlf" ELSE "lf"
      <4>1. e.new = Normalised(e.old, e.new)
        BY <1>3, <2>2 DEF KeepsEndings
      <4>2. e.new = [text |-> e.new.text, ends |-> e.new.ends]
        BY <1>1, <2>2 DEF Contents
      <4> QED
        BY <1>3, <2>2, <4>1, <4>2 DEF Normalised
    <3>2. e.old.ends \in {"lf", "crlf"} /\ (e.old.text \in OneLine => e.old.ends = "lf")
      BY <1>1, <1>3, <2>2 DEF Contents
    <3>3. e.old = [text |-> e.old.text, ends |-> e.old.ends]
      BY <1>1, <1>3 DEF Contents
    <3>4. is.ends = e.old.ends
      BY <2>2, <3>1, <3>2, <3>3 DEF Normalised
    <3> QED
      BY <1>1, <1>3, <3>4, NormalisedIsContent
  <2> QED
    BY <1>3, <2>1, <2>2
<1> QED
  BY <1>2, <1>3

------------------------------------------------------------------------------
(* Types.                                                                  *)

(* A process is idle or has a call, with an edit. *)
LEMMA CallOrIdle ==
    ASSUME TypeOK, NEW p \in Processes
    PROVE  /\ process[p].pc = "idle" => process[p] = Idle
           /\ process[p].pc # "idle" =>
                 /\ process[p] \in Calls
                 /\ process[p].edit \in Records /\ process[p].edit # None
                 /\ process[p].copy \in Histories
           /\ process[p].target # None => process[p].target \in Records
<1>1. process[p] \in Calls \cup {Idle}
  BY DEF TypeOK
<1>2. ASSUME process[p] \in Calls
      PROVE  /\ process[p].pc # "idle"
             /\ process[p].edit \in Records /\ process[p].edit # None
             /\ process[p].copy \in Histories
             /\ process[p].target # None => process[p].target \in Records
  BY <1>2, NoneAssumption DEF Calls
<1>3. CASE process[p] \in Calls
  BY <1>2, <1>3
<1>4. CASE process[p] = Idle
  BY <1>4 DEF Idle
<1> QED
  BY <1>1, <1>3, <1>4

(* What would be saved is a history. *)
LEMMA WithRecordTyped ==
    ASSUME NEW h \in Histories, NEW e \in Records
    PROVE  /\ WithRecord(h, e) \in Histories
           /\ WithRecord(h, e).torn = h.torn
           /\ WithRecord(h, e).records = Append(h.records, e)
BY DEF WithRecord, Histories

LEMMA SavedTyped ==
    ASSUME TypeOK, NEW p \in Processes, process[p].pc # "idle"
    PROVE  /\ Saved(p) \in Histories
           /\ Saved(p).torn = process[p].copy.torn
           /\ Saved(p).records = Append(process[p].copy.records, process[p].edit)
BY CallOrIdle, WithRecordTyped DEF Saved

(* A part of a history is one. *)
LEMMA CutsTyped ==
    ASSUME NEW h \in Histories, NEW c \in Cuts(h)
    PROVE  /\ c \in Histories
           /\ \A i \in DOMAIN c.records :
                 i \in DOMAIN h.records /\ c.records[i] = h.records[i]
<1>1. h.records \in Seq(Records)
  BY DEF Histories
<1>2. PICK n \in 0..Len(h.records), t \in BOOLEAN :
        c = [records |-> SubSeq(h.records, 1, n), torn |-> t]
  BY DEF Cuts
<1>3. SubSeq(h.records, 1, n) \in Seq(Records)
  BY <1>1
<1>4. /\ DOMAIN SubSeq(h.records, 1, n) = 1..n
      /\ \A i \in 1..n : i \in DOMAIN h.records /\ SubSeq(h.records, 1, n)[i] = h.records[i]
  BY <1>1
<1> QED
  BY <1>2, <1>3, <1>4 DEF Histories

(* The processes go on with a call or without. *)
LEMMA OneChangeTyped ==
    ASSUME TypeOK, NEW p \in Processes, NEW c \in Calls \cup {Idle},
           process' = [process EXCEPT ![p] = c]
    PROVE  process' \in [Processes -> Calls \cup {Idle}]
BY DEF TypeOK

LEMMA GoesTyped ==
    ASSUME TypeOK, NEW p \in Processes, process[p].pc # "idle",
           NEW pc \in {"approved", "checked", "written", "saving"}, Goes(p, pc)
    PROVE  process' \in [Processes -> Calls \cup {Idle}]
<1>1. process[p] \in Calls
  BY CallOrIdle
<1>2. [process[p] EXCEPT !.pc = pc] \in Calls
  BY <1>1 DEF Calls
<1> QED
  BY <1>2 DEF Goes, TypeOK

LEMMA OvertakenTyped ==
    ASSUME TypeOK, NEW f
    PROVE  /\ Overtaken(f) \in [Processes -> Calls \cup {Idle}]
           /\ \A p \in Processes :
                 /\ Overtaken(f)[p].pc = process[p].pc
                 /\ Overtaken(f)[p].edit = process[p].edit
                 /\ Overtaken(f)[p].target = process[p].target
                 /\ Overtaken(f)[p].copy = process[p].copy
                 /\ Overtaken(f)[p].fresh =>
                       /\ process[p].fresh
                       /\ process[p].edit # None => process[p].edit.file # f
<1> SUFFICES ASSUME NEW p \in Processes
             PROVE  /\ Overtaken(f)[p] \in Calls \cup {Idle}
                    /\ Overtaken(f)[p].pc = process[p].pc
                    /\ Overtaken(f)[p].edit = process[p].edit
                    /\ Overtaken(f)[p].target = process[p].target
                    /\ Overtaken(f)[p].copy = process[p].copy
                    /\ Overtaken(f)[p].fresh =>
                          /\ process[p].fresh
                          /\ process[p].edit # None => process[p].edit.file # f
  BY DEF Overtaken
<1>1. process[p] \in Calls \cup {Idle}
  BY DEF TypeOK
<1>2. CASE process[p].edit # None /\ process[p].edit.file = f
  <2>1. process[p] \in Calls
    BY <1>1, <1>2 DEF Idle
  <2>2. Overtaken(f)[p] = [process[p] EXCEPT !.fresh = FALSE]
    BY <1>2 DEF Overtaken
  <2> QED
    BY <2>1, <2>2 DEF Calls
<1>3. CASE ~(process[p].edit # None /\ process[p].edit.file = f)
  BY <1>1, <1>3 DEF Overtaken
<1> QED
  BY <1>2, <1>3

(* What a call that begins has: an edit of its file from what that is now, *)
(* which keeps the line endings or inverts its target.                     *)
LEMMA BeginsWith ==
    ASSUME TypeOK, RecordsKeepEndings, NEW p \in Processes,
           PrepareEdit(p) \/ PrepareRevert(p)
    PROVE  \E file \in Files, new \in Contents \cup {Absent}, create \in BOOLEAN,
              target \in Records \cup {None} :
              LET e == [id |-> calls', file |-> file, old |-> disk[file],
                        new |-> new, create |-> create]
              IN  /\ Call(p, file, new, create, target)
                  /\ e \in Records
                  /\ KeepsEndings(e)
                  /\ target # None => /\ KeepsEndings(target)
                                      /\ file = target.file
                                      /\ disk[file] = target.new
                                      /\ new = Restored(target, target.new)
<1> DEFINE Edit(file, new, create) ==
             [id |-> calls', file |-> file, old |-> disk[file], new |-> new,
              create |-> create]
<1>1. ASSUME NEW file \in Files, NEW new \in Contents \cup {Absent},
             NEW create \in BOOLEAN, NEW target, Call(p, file, new, create, target)
      PROVE  Edit(file, new, create) \in Records
  <2>1. calls' \in 1..MaxCalls
    BY <1>1, EditHistoryAssumption DEF Call, TypeOK
  <2>2. disk[file] \in Contents \cup {Absent}
    BY DEF TypeOK
  <2> QED
    BY <2>1, <2>2 DEF Records
<1>2. CASE PrepareEdit(p)
  <2>1. PICK file \in Files : \E o \in Outcomes(disk[file]) :
               Call(p, file, o.new, o.create, None)
    BY <1>2 DEF PrepareEdit
  <2>2. PICK o \in Outcomes(disk[file]) : Call(p, file, o.new, o.create, None)
    BY <2>1
  <2>3. disk[file] \in Contents \cup {Absent}
    BY DEF TypeOK
  <2>4. /\ o.new \in Contents \cup {Absent} /\ o.create \in BOOLEAN
        /\ disk[file] # Absent /\ o.new # Absent => o.new = Normalised(disk[file], o.new)
    BY <2>3, OutcomesTyped
  <2>5. Edit(file, o.new, o.create) \in Records
    BY <1>1, <2>2, <2>4
  <2>6. KeepsEndings(Edit(file, o.new, o.create))
    BY <2>4 DEF KeepsEndings
  <2> QED
    BY <2>2, <2>4, <2>5, <2>6
<1>3. CASE PrepareRevert(p)
  <2> DEFINE records == history.records
  <2>1. PICK i \in DOMAIN records :
               /\ IsCurrent(records[i])
               /\ Call(p, records[i].file, Restored(records[i], disk[records[i].file]),
                       FALSE, records[i])
    BY <1>3 DEF PrepareRevert
  <2> DEFINE e == records[i]
  <2>2. e \in Records /\ KeepsEndings(e)
    BY DEF TypeOK, Histories, RecordsKeepEndings
  <2>3. disk[e.file] = e.new
    BY <2>1 DEF IsCurrent
  <2>4. e.file \in Files /\ e \in Records \cup {None}
    BY <2>2 DEF Records
  <2> DEFINE new == Restored(e, e.new)
  <2>5. /\ new \in Contents \cup {Absent}
        /\ e.new # Absent /\ new # Absent => new = Normalised(e.new, new)
    BY <2>2, RestoredTyped
  <2>6. Call(p, e.file, new, FALSE, e)
    BY <2>1, <2>3
  <2>7. Edit(e.file, new, FALSE) \in Records
    BY <1>1, <2>4, <2>5, <2>6
  <2>8. KeepsEndings(Edit(e.file, new, FALSE))
    BY <2>3, <2>5 DEF KeepsEndings
  <2> HIDE DEF e, new
  <2>9. Call(p, e.file, new, FALSE, e) /\ new = Restored(e, e.new)
    BY <2>6 DEF new
  <2> QED
    BY <2>2, <2>3, <2>4, <2>5, <2>7, <2>8, <2>9
<1> QED
  BY <1>2, <1>3

(* A call that begins is typed. *)
LEMMA CallTyped ==
    ASSUME TypeOK, NEW p \in Processes, NEW file, NEW new, NEW create,
           NEW target \in Records \cup {None}, Call(p, file, new, create, target),
           [id |-> calls', file |-> file, old |-> disk[file], new |-> new,
            create |-> create] \in Records
    PROVE  TypeOK'
<1>1. NoHistory \in Histories
  BY DEF NoHistory, Histories
<1>2. process'[p] \in Calls /\ process' = [process EXCEPT ![p] = process'[p]]
  BY <1>1 DEF Call, Calls, TypeOK
<1>3. process' \in [Processes -> Calls \cup {Idle}]
  BY <1>2 DEF TypeOK
<1>4. calls' \in 0..MaxCalls
  BY EditHistoryAssumption DEF Call, TypeOK
<1> QED
  BY <1>3, <1>4 DEF Call, TypeOK

(* Types are kept by every step. *)
LEMMA TypeKeeps ==
    ASSUME TypeOK, RecordsKeepEndings, Next
    PROVE  TypeOK'
<1>1. CASE UserEdits
  <2>1. PICK f \in Files, c \in Contents \cup {Absent} :
             /\ disk' = [disk EXCEPT ![f] = c]
             /\ process' = Overtaken(f)
             /\ touched' = touched \cup {f}
    BY <1>1 DEF UserEdits
  <2>2. disk' \in [Files -> Contents \cup {Absent}] /\ touched' \subseteq Files
    BY <2>1 DEF TypeOK
  <2>3. process' \in [Processes -> Calls \cup {Idle}]
    BY <2>1, OvertakenTyped
  <2>4. edits' \in 0..MaxEdits
    BY <1>1, EditHistoryAssumption DEF UserEdits, TypeOK
  <2> QED
    BY <1>1, <2>2, <2>3, <2>4 DEF UserEdits, TypeOK
<1>2. ASSUME NEW p \in Processes, Step(p)
      PROVE  TypeOK'
  <2>1. CASE PrepareEdit(p) \/ PrepareRevert(p)
    BY <2>1, BeginsWith, CallTyped
  <2>2. CASE Approve(p)
    <3>1. process' \in [Processes -> Calls \cup {Idle}]
      BY <2>2, GoesTyped DEF Approve
    <3> QED
      BY <2>2, <3>1 DEF Approve, TypeOK
  <2>3. CASE Recheck(p)
    <3>1. process[p] \in Calls
      BY <2>3, CallOrIdle DEF Recheck
    <3>2. [process[p] EXCEPT !.pc = "checked", !.fresh = TRUE] \in Calls
      BY <3>1 DEF Calls
    <3>3. process' \in [Processes -> Calls \cup {Idle}]
      BY <2>3, <3>2 DEF Recheck, TypeOK
    <3> QED
      BY <2>3, <3>3 DEF Recheck, TypeOK
  <2>4. CASE WriteFile(p)
    <3> DEFINE e == process[p].edit
    <3>1. process[p].pc # "idle" /\ e \in Records
      BY <2>4, CallOrIdle DEF WriteFile
    <3>2. /\ Overtaken(e.file) \in [Processes -> Calls \cup {Idle}]
          /\ Overtaken(e.file)[p].pc = process[p].pc
      BY OvertakenTyped
    <3>3. Overtaken(e.file)[p] \in Calls
      BY <3>1, <3>2 DEF Idle
    <3>4. [Overtaken(e.file)[p] EXCEPT !.pc = "written"] \in Calls
      BY <3>3 DEF Calls
    <3>5. process' \in [Processes -> Calls \cup {Idle}]
      BY <2>4, <3>2, <3>4 DEF WriteFile
    <3>6. disk' \in [Files -> Contents \cup {Absent}]
      BY <2>4, <3>1 DEF WriteFile, TypeOK, Records
    <3>7. calm' \in BOOLEAN /\ touched' \subseteq Files
      BY <2>4 DEF WriteFile, TypeOK
    <3> QED
      BY <2>4, <3>5, <3>6, <3>7 DEF WriteFile, TypeOK
  <2>5. CASE LoadHistory(p)
    <3>1. process[p] \in Calls
      BY <2>5, CallOrIdle DEF LoadHistory
    <3>2. [process[p] EXCEPT !.pc = "loaded", !.copy = history] \in Calls
      BY <3>1 DEF Calls, TypeOK
    <3>3. process' = [process EXCEPT ![p] = [process[p] EXCEPT !.pc = "loaded", !.copy = history]]
      BY <2>5 DEF LoadHistory, TypeOK
    <3>4. process' \in [Processes -> Calls \cup {Idle}]
      BY <3>2, <3>3, OneChangeTyped
    <3> QED
      BY <2>5, <3>4 DEF LoadHistory, TypeOK
  <2>6. CASE BeginSave(p)
    <3>1. process[p].pc # "idle" /\ process' \in [Processes -> Calls \cup {Idle}]
      BY <2>6, GoesTyped DEF BeginSave
    <3>2. history' \in Histories
      BY <2>6, <3>1, SavedTyped, CutsTyped DEF BeginSave
    <3> QED
      BY <2>6, <3>1, <3>2 DEF BeginSave, TypeOK
  <2>7. CASE EndSave(p)
    <3>1. process[p].pc # "idle"
      BY <2>7 DEF EndSave
    <3>2. history' \in Histories /\ process[p].edit \in Records
      BY <2>7, <3>1, SavedTyped, CallOrIdle DEF EndSave
    <3>3. recorded' \subseteq 1..MaxCalls
      BY <2>7, <3>2 DEF EndSave, TypeOK, Records
    <3>4. process' \in [Processes -> Calls \cup {Idle}]
      BY <2>7 DEF EndSave, TypeOK
    <3> QED
      BY <2>7, <3>2, <3>3, <3>4 DEF EndSave, TypeOK
  <2>8. CASE Abort(p)
    <3>1. process' \in [Processes -> Calls \cup {Idle}] /\ calm' \in BOOLEAN
      BY <2>8 DEF Abort, TypeOK, Recording
    <3> QED
      BY <2>8, <3>1 DEF Abort, TypeOK
  <2> QED
    BY <1>2, <2>1, <2>2, <2>3, <2>4, <2>5, <2>6, <2>7, <2>8 DEF Step
<1> QED
  BY <1>1, <1>2 DEF Next

------------------------------------------------------------------------------
(* What the calls know.                                                    *)

(* A step of a process is its own: it leaves the other processes and, but  *)
(* for a write, the files alone.                                           *)
LEMMA StepIsOwn ==
    ASSUME TypeOK, NEW p \in Processes, Step(p), NEW q \in Processes, q # p
    PROVE  /\ ~WriteFile(p) => process'[q] = process[q] /\ disk' = disk
           /\ WriteFile(p) => process'[q] = Overtaken(process[p].edit.file)[q]
<1>1. process \in [Processes -> Calls \cup {Idle}]
  BY DEF TypeOK
<1>2. CASE PrepareEdit(p) \/ PrepareRevert(p)
  BY <1>1, <1>2 DEF PrepareEdit, PrepareRevert, Call, WriteFile
<1>3. CASE Approve(p) \/ BeginSave(p)
  BY <1>1, <1>3 DEF Approve, BeginSave, Goes, WriteFile
<1>4. CASE Recheck(p) \/ LoadHistory(p) \/ EndSave(p)
  BY <1>1, <1>4 DEF Recheck, LoadHistory, EndSave, WriteFile
<1>5. CASE WriteFile(p)
  BY <1>1, <1>5, OvertakenTyped DEF WriteFile
<1>6. CASE Abort(p) /\ ~WriteFile(p)
  BY <1>1, <1>6 DEF Abort
<1> QED
  BY <1>2, <1>3, <1>4, <1>5, <1>6 DEF Step

(* The step of a process that has a call, and what it leaves of it.        *)
LEMMA GoesOn ==
    ASSUME TypeOK, NEW p \in Processes, Step(p), ~PrepareEdit(p), ~PrepareRevert(p)
    PROVE  /\ process[p].pc # "idle"
           /\ \/ process'[p] = Idle
              \/ /\ process'[p].pc # "idle"
                 /\ process'[p].edit = process[p].edit
                 /\ process'[p].target = process[p].target
                 /\ ~LoadHistory(p) => process'[p].copy = process[p].copy
                 /\ LoadHistory(p) => process'[p].copy = history
                 /\ process'[p].pc \in {"asked", "approved", "checked"} /\ process'[p].fresh =>
                       /\ disk' = disk
                       /\ process[p].pc \in {"asked", "approved", "checked"}
                       /\ process[p].fresh \/ Matches(p)
<1>1. process \in [Processes -> Calls \cup {Idle}]
  BY DEF TypeOK
<1>2. ASSUME process[p].pc # "idle"
      PROVE  process[p] \in Calls
  BY <1>2, CallOrIdle
<1>3. CASE Approve(p)
  BY <1>1, <1>2, <1>3 DEF Approve, Goes, Calls, LoadHistory
<1>4. CASE BeginSave(p)
  BY <1>1, <1>2, <1>4 DEF BeginSave, Goes, Calls, LoadHistory
<1>5. CASE Recheck(p)
  BY <1>1, <1>2, <1>5 DEF Recheck, Calls, LoadHistory
<1>6. CASE LoadHistory(p)
  BY <1>1, <1>2, <1>6 DEF LoadHistory, Calls
<1>7. CASE EndSave(p) \/ Abort(p)
  BY <1>1, <1>7 DEF EndSave, Abort
<1>8. CASE WriteFile(p)
  <2> DEFINE f == process[p].edit.file
  <2>1. Overtaken(f)[p] \in Calls \cup {Idle} /\ Overtaken(f)[p].pc = process[p].pc
    BY OvertakenTyped
  <2>2. Overtaken(f)[p] \in Calls
    BY <1>8, <2>1 DEF WriteFile, Idle
  <2>3. process'[p] = [Overtaken(f)[p] EXCEPT !.pc = "written"]
    BY <1>8, OvertakenTyped DEF WriteFile
  <2>4. /\ process'[p].pc = "written"
        /\ process'[p].edit = Overtaken(f)[p].edit
        /\ process'[p].target = Overtaken(f)[p].target
        /\ process'[p].copy = Overtaken(f)[p].copy
    BY <2>2, <2>3 DEF Calls
  <2> QED
    BY <1>8, <2>4, OvertakenTyped DEF WriteFile, LoadHistory
<1> QED
  BY <1>3, <1>4, <1>5, <1>6, <1>7, <1>8 DEF Step

(* A file nobody has changed since is as the call saw it. *)
LEMMA FreshKeeps ==
    ASSUME TypeOK, RecordsKeepEndings, FreshIsSeen, Next
    PROVE  FreshIsSeen'
<1> SUFFICES ASSUME NEW q \in Processes,
                    process'[q].pc \in {"asked", "approved", "checked"},
                    process'[q].fresh
             PROVE  disk'[process'[q].edit.file] = process'[q].edit.old
  BY DEF FreshIsSeen, Matches
(* Only if its file was not written. *)
<1>1. ASSUME NEW f, process'[q] = Overtaken(f)[q],
             \A g \in Files \ {f} : disk'[g] = disk[g]
      PROVE  disk'[process'[q].edit.file] = process'[q].edit.old
  <2>1. /\ process[q].pc \in {"asked", "approved", "checked"}
        /\ process'[q].edit = process[q].edit
        /\ process[q].fresh
        /\ process[q].edit # None => process[q].edit.file # f
    BY <1>1, OvertakenTyped
  <2>2. process[q].edit \in Records /\ process[q].edit # None
    BY <2>1, CallOrIdle
  <2>3. process[q].edit.file \in Files \ {f}
    BY <2>1, <2>2 DEF Records
  <2>4. disk[process[q].edit.file] = process[q].edit.old
    BY <2>1 DEF FreshIsSeen, Matches
  <2> QED
    BY <1>1, <2>1, <2>3, <2>4
<1>2. CASE UserEdits
  <2>1. PICK f \in Files, c \in Contents \cup {Absent} : disk' = [disk EXCEPT ![f] = c] /\ process' = Overtaken(f)
    BY <1>2 DEF UserEdits
  <2>2. \A g \in Files \ {f} : disk'[g] = disk[g]
    BY <2>1 DEF TypeOK
  <2> QED
    BY <1>1, <2>1, <2>2
<1>3. ASSUME NEW p \in Processes, Step(p)
      PROVE  disk'[process'[q].edit.file] = process'[q].edit.old
  <2>1. CASE q # p /\ ~WriteFile(p)
    BY <1>3, <2>1, StepIsOwn DEF FreshIsSeen, Matches
  <2>2. CASE q # p /\ WriteFile(p)
    <3> DEFINE f == process[p].edit.file
    <3>1. process'[q] = Overtaken(f)[q]
      BY <1>3, <2>2, StepIsOwn
    <3>2. \A g \in Files \ {f} : disk'[g] = disk[g]
      BY <2>2 DEF WriteFile, TypeOK
    <3> QED
      BY <1>1, <3>1, <3>2
  <2>3. CASE q = p /\ (PrepareEdit(p) \/ PrepareRevert(p))
    <3>1. PICK file \in Files, new \in Contents \cup {Absent}, create \in BOOLEAN,
               target \in Records \cup {None} :
               Call(p, file, new, create, target)
      BY <2>3, BeginsWith
    <3>2. process'[p].edit.file = file /\ process'[p].edit.old = disk[file] /\ disk' = disk
      BY <3>1 DEF Call, TypeOK
    <3> QED
      BY <2>3, <3>2
  <2>4. CASE q = p /\ ~PrepareEdit(p) /\ ~PrepareRevert(p)
    <3>1. /\ process'[p].edit = process[p].edit /\ disk' = disk
          /\ process[p].pc \in {"asked", "approved", "checked"}
          /\ process[p].fresh \/ Matches(p)
      BY <1>3, <2>4, GoesOn DEF Idle
    <3> QED
      BY <2>4, <3>1 DEF FreshIsSeen, Matches
  <2> QED
    BY <2>1, <2>2, <2>3, <2>4
<1> QED
  BY <1>2, <1>3 DEF Next

(* What a step leaves of the calls of the processes it is not of.          *)
LEMMA OthersKeep ==
    ASSUME TypeOK, NEW q \in Processes,
           \/ UserEdits
           \/ \E p \in Processes \ {q} : Step(p)
    PROVE  /\ process'[q].pc = process[q].pc
           /\ process'[q].edit = process[q].edit
           /\ process'[q].target = process[q].target
           /\ process'[q].copy = process[q].copy
<1>1. CASE UserEdits
  BY <1>1, OvertakenTyped DEF UserEdits
<1>2. ASSUME NEW p \in Processes \ {q}, Step(p)
      PROVE  \/ process'[q] = process[q]
             \/ \E f : process'[q] = Overtaken(f)[q]
  BY <1>2, StepIsOwn
<1> QED
  BY <1>1, <1>2, OvertakenTyped

(* Records, and the edits to be recorded, keep the line endings. *)
LEMMA EndingsKeep ==
    ASSUME TypeOK, RecordsKeepEndings, Next
    PROVE  RecordsKeepEndings'
<1> DEFINE Keeps(h) == \A i \in DOMAIN h.records : KeepsEndings(h.records[i])
           Good(c) == c.pc # "idle" => KeepsEndings(c.edit) /\ Keeps(c.copy)
<1>1. ASSUME NEW p \in Processes, process[p].pc # "idle"
      PROVE  Keeps(Saved(p)) /\ \A c \in Cuts(Saved(p)) : Keeps(c)
  <2> DEFINE records == process[p].copy.records
             e == process[p].edit
  <2>1. records \in Seq(Records) /\ e \in Records /\ Saved(p) \in Histories
    BY <1>1, CallOrIdle, SavedTyped DEF Histories
  <2>2. KeepsEndings(e) /\ \A i \in DOMAIN records : KeepsEndings(records[i])
    BY <1>1 DEF RecordsKeepEndings
  <2>3. \A i \in DOMAIN Append(records, e) :
           \/ Append(records, e)[i] = e
           \/ i \in DOMAIN records /\ Append(records, e)[i] = records[i]
    BY <2>1
  <2>4. Keeps(Saved(p))
    BY <1>1, <2>2, <2>3, SavedTyped
  <2> QED
    BY <2>1, <2>4, CutsTyped
<1>2. Keeps(history')
  <2>1. ASSUME NEW p \in Processes, BeginSave(p) \/ EndSave(p)
        PROVE  Keeps(history')
    BY <1>1, <2>1 DEF BeginSave, EndSave
  <2>2. CASE UNCHANGED history
    BY <2>2 DEF RecordsKeepEndings
  <2> QED
    BY <2>1, <2>2 DEF Next, Step, UserEdits, PrepareEdit, PrepareRevert, Call, Approve,
       Recheck, WriteFile, LoadHistory, Abort
<1>3. ASSUME NEW q \in Processes
      PROVE  Good(process'[q])
  <2>1. CASE UserEdits \/ \E p \in Processes \ {q} : Step(p)
    BY <2>1, OthersKeep DEF RecordsKeepEndings
  <2>2. CASE Step(q) /\ (PrepareEdit(q) \/ PrepareRevert(q))
    <3>1. PICK file \in Files, new \in Contents \cup {Absent}, create \in BOOLEAN,
               target \in Records \cup {None} :
               /\ Call(q, file, new, create, target)
               /\ KeepsEndings([id |-> calls', file |-> file, old |-> disk[file],
                                new |-> new, create |-> create])
      BY <2>2, BeginsWith
    <3>2. /\ KeepsEndings(process'[q].edit)
          /\ process'[q].copy.records = <<>>
      BY <3>1 DEF Call, TypeOK, NoHistory
    <3> QED
      BY <3>2
  <2>3. CASE Step(q) /\ ~PrepareEdit(q) /\ ~PrepareRevert(q)
    BY <2>3, GoesOn DEF RecordsKeepEndings, Idle
  <2> QED
    BY <2>1, <2>2, <2>3 DEF Next
<1> QED
  BY <1>2, <1>3 DEF RecordsKeepEndings

(* A revert takes back what its target has done. *)
LEMMA InvertKeeps ==
    ASSUME TypeOK, RecordsKeepEndings, RevertsInvert, Next
    PROVE  RevertsInvert'
<1> DEFINE Inverts(e, edit) ==
             /\ KeepsEndings(e)
             /\ edit.file = e.file
             /\ edit.old = e.new
             /\ edit.new = Restored(e, e.new)
<1> SUFFICES ASSUME NEW q \in Processes, process'[q].target # None
             PROVE  Inverts(process'[q].target, process'[q].edit)
  BY DEF RevertsInvert
<1>1. CASE UserEdits \/ \E p \in Processes \ {q} : Step(p)
  BY <1>1, OthersKeep DEF RevertsInvert
<1>2. CASE Step(q) /\ (PrepareEdit(q) \/ PrepareRevert(q))
  <2>1. PICK file \in Files, new \in Contents \cup {Absent}, create \in BOOLEAN,
             target \in Records \cup {None} :
             LET e == [id |-> calls', file |-> file, old |-> disk[file],
                       new |-> new, create |-> create]
             IN  /\ Call(q, file, new, create, target)
                 /\ e \in Records
                 /\ KeepsEndings(e)
                 /\ target # None => /\ KeepsEndings(target)
                                     /\ file = target.file
                                     /\ disk[file] = target.new
                                     /\ new = Restored(target, target.new)
    BY <1>2, BeginsWith
  <2>2. /\ process'[q].target = target
        /\ process'[q].edit.file = file
        /\ process'[q].edit.old = disk[file]
        /\ process'[q].edit.new = new
    BY <2>1 DEF Call, TypeOK
  <2> QED
    BY <2>1, <2>2
<1>3. CASE Step(q) /\ ~PrepareEdit(q) /\ ~PrepareRevert(q)
  BY <1>3, GoesOn DEF RevertsInvert, Idle
<1> QED
  BY <1>1, <1>2, <1>3 DEF Next

------------------------------------------------------------------------------
(* The history while calm.                                                 *)

CalmInv ==
    /\ calm => OneRecords /\ CopyFollows /\ LatestWillRevert
    /\ CalmHistory
    /\ LatestReverts

(* LatestCurrent of files and touched files that are given.                *)
Current(records, files, changed) ==
    \A i \in DOMAIN records :
        records[i].file \notin changed /\ IsLatest(records, i)
            => files[records[i].file] = records[i].new

LEMMA CurrentIs ==
    ASSUME NEW records
    PROVE  LatestCurrent(records) <=> Current(records, disk, touched)
BY DEF LatestCurrent, Current, IsCurrent

(* A record at the end of the history is the latest of its file, and the   *)
(* latest of the other files stay so.                                      *)
LEMMA CurrentAppends ==
    ASSUME NEW records \in Seq(Records), NEW e \in Records, NEW files,
           e.file \in DOMAIN files, NEW changed, Current(records, files, changed)
    PROVE  Current(Append(records, e), [files EXCEPT ![e.file] = e.new], changed \ {e.file})
<1> DEFINE r == Append(records, e)
           d == [files EXCEPT ![e.file] = e.new]
<1> SUFFICES ASSUME NEW i \in DOMAIN r, r[i].file \notin changed \ {e.file}, IsLatest(r, i)
             PROVE  d[r[i].file] = r[i].new
  BY DEF Current
<1>1. /\ DOMAIN r = 1..(Len(records) + 1) /\ DOMAIN records = 1..Len(records)
      /\ r[Len(records) + 1] = e
      /\ \A j \in DOMAIN records : r[j] = records[j]
      /\ Len(records) \in Nat
  OBVIOUS
<1>2. CASE i = Len(records) + 1
  BY <1>1, <1>2
<1>3. CASE i # Len(records) + 1
  <2>1. i \in DOMAIN records /\ r[i] = records[i]
    BY <1>1, <1>3
  <2>2. r[i].file # e.file
    <3>1. Len(records) + 1 \in DOMAIN r /\ Len(records) + 1 > i
      BY <1>1, <2>1
    <3> QED
      BY <1>1, <3>1 DEF IsLatest
  <2>3. IsLatest(records, i)
    BY <1>1, <2>1 DEF IsLatest
  <2>4. files[records[i].file] = records[i].new
    BY <2>1, <2>2, <2>3 DEF Current
  <2> QED
    BY <2>1, <2>2, <2>4
<1> QED
  BY <1>2, <1>3

(* A step of a process that neither writes nor records leaves the history  *)
(* as it is.                                                               *)
LEMMA QuietKeeps ==
    ASSUME TypeOK, CalmInv, UNCHANGED <<disk, history, recorded, touched>>,
           calm' => calm,
           \A q \in Processes : \/ process'[q] = process[q]
                                \/ ~Recording(q) /\ ~Recording(q)'
    PROVE  CalmInv'
<1> USE DEF Recording
<1>1. CASE ~calm'
  BY <1>1 DEF CalmInv, CalmHistory, LatestReverts
<1>2. CASE calm'
  <2>1. calm
    BY <1>2
  <2>2. OneRecords' /\ CopyFollows'
    BY <2>1 DEF CalmInv, OneRecords, CopyFollows
  <2>3. LatestWillRevert'
    BY <2>1 DEF CalmInv, LatestWillRevert, Saved, LatestCurrent, IsCurrent
  <2>4. ASSUME NEW q \in Processes, process[q].pc = "saving"
        PROVE  process'[q].pc = "saving" /\ Saved(q)' = Saved(q)
    BY <2>4 DEF Saved
  <2>5. CalmHistory'
    <3>1. history'.torn => \E q \in Processes : process'[q].pc = "saving"
      BY <2>1, <2>4 DEF CalmInv, CalmHistory
    <3>2. ASSUME NEW id \in recorded
          PROVE  \/ \E i \in DOMAIN history'.records : history'.records[i].id = id
                 \/ \E q \in Processes :
                       /\ process'[q].pc = "saving"
                       /\ \E i \in DOMAIN Saved(q)'.records : Saved(q)'.records[i].id = id
      <4>1. CASE \E i \in DOMAIN history.records : history.records[i].id = id
        BY <4>1
      <4>2. CASE \E q \in Processes :
                    /\ process[q].pc = "saving"
                    /\ \E i \in DOMAIN Saved(q).records : Saved(q).records[i].id = id
        BY <2>4, <4>2
      <4> QED
        BY <2>1, <4>1, <4>2 DEF CalmInv, CalmHistory
    <3> QED
      BY <3>1, <3>2 DEF CalmHistory
  <2>6. LatestReverts'
    BY <2>1 DEF CalmInv, LatestReverts, LatestCurrent, IsCurrent
  <2> QED
    BY <2>2, <2>3, <2>5, <2>6 DEF CalmInv
<1> QED
  BY <1>1, <1>2

(* The write of a file goes with its record to be. *)
LEMMA WriteKeeps ==
    ASSUME TypeOK, CalmInv, NEW p \in Processes, WriteFile(p)
    PROVE  CalmInv'
<1> DEFINE e == process[p].edit
<1>1. CASE ~calm'
  BY <1>1 DEF CalmInv, CalmHistory, LatestReverts
<1>2. CASE calm'
  <2>1. calm /\ \A q \in Processes : ~Recording(q)
    BY <1>2 DEF WriteFile, Recording
  <2>2. e \in Records /\ e # None
    BY CallOrIdle DEF WriteFile
  <2>3. /\ process'[p].pc = "written" /\ process'[p].edit = e
        /\ \A q \in Processes \ {p} : process'[q].pc = process[q].pc
    <3>1. process'[p] = [Overtaken(e.file)[p] EXCEPT !.pc = "written"]
      BY OvertakenTyped DEF WriteFile
    <3>2. Overtaken(e.file)[p] \in Calls
      BY OvertakenTyped DEF WriteFile, Idle
    <3>3. process'[p].pc = "written" /\ process'[p].edit = e
      BY <3>1, <3>2, OvertakenTyped DEF Calls
    <3>4. \A q \in Processes \ {p} : process'[q].pc = process[q].pc
      BY OvertakenTyped DEF WriteFile
    <3> QED
      BY <3>3, <3>4
  <2>4. Current(history.records, disk, touched)
    BY <2>1, CurrentIs DEF CalmInv, LatestReverts
  <2>5. Current(Append(history.records, e), disk', touched')
    <3>1. history.records \in Seq(Records) /\ e.file \in DOMAIN disk
      BY <2>2 DEF TypeOK, Histories, Records
    <3> QED
      BY <2>2, <2>4, <3>1, CurrentAppends DEF WriteFile
  <2>6. \A q \in Processes : process'[q].pc \in {"written", "loaded", "saving"} => q = p
    BY <2>1, <2>3 DEF Recording
  <2>7. OneRecords' /\ CopyFollows'
    BY <2>3, <2>6 DEF OneRecords, CopyFollows, Recording
  <2>8. LatestWillRevert'
    <3>1. LatestCurrent(Append(history.records, process[p].edit))'
      BY <2>3, <2>5 DEF WriteFile, LatestCurrent, IsCurrent, Current
    <3> QED
      BY <2>3, <2>6, <3>1 DEF LatestWillRevert
  <2>9. CalmHistory'
    <3>1. \A q \in Processes : process[q].pc # "saving"
      BY <2>1 DEF Recording
    <3> QED
      BY <2>1, <3>1 DEF CalmInv, CalmHistory, WriteFile
  <2>10. LatestReverts'
    BY <2>3 DEF LatestReverts, Recording
  <2> QED
    BY <2>7, <2>8, <2>9, <2>10 DEF CalmInv
<1> QED
  BY <1>1, <1>2

(* While calm, one process records, and the history is whole until it      *)
(* saves.                                                                  *)
LEMMA AloneWhileCalm ==
    ASSUME CalmInv, calm, NEW p \in Processes, Recording(p)
    PROVE  /\ \A q \in Processes \ {p} : ~Recording(q) /\ process[q].pc # "saving"
           /\ process[p].pc # "saving" =>
                 /\ history.torn # TRUE
                 /\ \A id \in recorded :
                       \E i \in DOMAIN history.records : history.records[i].id = id
<1>1. \A q \in Processes \ {p} : ~Recording(q) /\ process[q].pc # "saving"
  BY DEF CalmInv, OneRecords, Recording
<1> QED
  BY <1>1 DEF CalmInv, CalmHistory

LEMMA LoadKeeps ==
    ASSUME TypeOK, CalmInv, NEW p \in Processes, LoadHistory(p)
    PROVE  CalmInv'
<1>1. CASE ~calm'
  BY <1>1 DEF CalmInv, CalmHistory, LatestReverts
<1>2. CASE calm'
  <2>1. calm /\ Recording(p) /\ process[p].pc # "saving"
    BY <1>2 DEF LoadHistory, Recording
  <2>2. /\ process'[p].pc = "loaded" /\ process'[p].edit = process[p].edit
        /\ process'[p].copy = history
        /\ \A q \in Processes \ {p} : process'[q] = process[q]
    <3>1. process[p] \in Calls
      BY CallOrIdle DEF LoadHistory
    <3> QED
      BY <3>1 DEF LoadHistory, Calls, TypeOK
  <2>3. \A q \in Processes : process'[q].pc \in {"written", "loaded", "saving"} => q = p
    BY <2>1, <2>2, AloneWhileCalm DEF Recording
  <2>4. OneRecords' /\ CopyFollows'
    BY <2>2, <2>3 DEF OneRecords, CopyFollows, Recording, LoadHistory
  <2>5. LatestWillRevert'
    <3>1. LatestCurrent(Append(history.records, process[p].edit))
      BY <2>1 DEF CalmInv, LatestWillRevert, LoadHistory
    <3>2. history \in Histories /\ process[p].edit \in Records
      BY CallOrIdle DEF TypeOK, LoadHistory
    <3>3. Saved(p)'.records = Append(history.records, process[p].edit)
      BY <2>2, <3>2, WithRecordTyped DEF Saved
    <3>4. LatestCurrent(Saved(p).records)'
      BY <3>1, <3>3 DEF LatestCurrent, IsCurrent, LoadHistory
    <3> QED
      BY <2>2, <2>3, <3>4 DEF LatestWillRevert
  <2>6. CalmHistory'
    BY <2>1, AloneWhileCalm DEF CalmHistory, LoadHistory, TypeOK, Histories
  <2>7. LatestReverts'
    BY <2>2 DEF LatestReverts, Recording
  <2> QED
    BY <2>4, <2>5, <2>6, <2>7 DEF CalmInv
<1> QED
  BY <1>1, <1>2

LEMMA BeginKeeps ==
    ASSUME TypeOK, CalmInv, NEW p \in Processes, BeginSave(p)
    PROVE  CalmInv'
<1>1. CASE ~calm'
  BY <1>1 DEF CalmInv, CalmHistory, LatestReverts
<1>2. CASE calm'
  <2>1. calm /\ Recording(p) /\ process[p].pc = "loaded"
    BY <1>2 DEF BeginSave, Recording
  <2>2. /\ process'[p].pc = "saving" /\ process'[p].edit = process[p].edit
        /\ process'[p].copy = process[p].copy
        /\ \A q \in Processes \ {p} : process'[q] = process[q]
    <3>1. process[p] \in Calls
      BY <2>1, CallOrIdle
    <3> QED
      BY <3>1 DEF BeginSave, Goes, Calls, TypeOK
  <2>3. \A q \in Processes : process'[q].pc \in {"written", "loaded", "saving"} => q = p
    BY <2>1, <2>2, AloneWhileCalm DEF Recording
  <2>4. process[p].copy = history /\ Saved(p)' = Saved(p)
    BY <2>1, <2>2 DEF CalmInv, CopyFollows, Saved
  <2>5. /\ ~process[p].copy.torn
        /\ \A id \in recorded :
              \E i \in DOMAIN process[p].copy.records : process[p].copy.records[i].id = id
    BY <2>1, <2>4, AloneWhileCalm DEF TypeOK, Histories
  <2>6. OneRecords' /\ CopyFollows'
    BY <2>2, <2>3, <2>5 DEF OneRecords, CopyFollows, Recording, BeginSave
  <2>7. LatestWillRevert'
    <3>1. LatestCurrent(Saved(p).records)
      BY <2>1 DEF CalmInv, LatestWillRevert
    <3>2. LatestCurrent(Saved(p).records)'
      BY <2>4, <3>1 DEF LatestCurrent, IsCurrent, BeginSave
    <3> QED
      BY <2>2, <2>3, <3>2 DEF LatestWillRevert
  <2>8. CalmHistory'
    <3>1. \A id \in recorded :
             \E i \in DOMAIN Saved(p).records : Saved(p).records[i].id = id
      <4>1. /\ process[p].copy.records \in Seq(Records) /\ process[p].edit \in Records
            /\ Saved(p).records = Append(process[p].copy.records, process[p].edit)
        BY <2>1, CallOrIdle, SavedTyped DEF Histories
      <4>2. \A i \in DOMAIN process[p].copy.records :
               /\ i \in DOMAIN Saved(p).records
               /\ Saved(p).records[i] = process[p].copy.records[i]
        BY <4>1
      <4> QED
        BY <2>5, <4>2
    <3> QED
      BY <2>2, <2>4, <3>1 DEF CalmHistory, BeginSave
  <2>9. LatestReverts'
    BY <2>2 DEF LatestReverts, Recording
  <2> QED
    BY <2>6, <2>7, <2>8, <2>9 DEF CalmInv
<1> QED
  BY <1>1, <1>2

(* The history is whole again, with one record more. *)
LEMMA EndKeeps ==
    ASSUME TypeOK, CalmInv, NEW p \in Processes, EndSave(p)
    PROVE  CalmInv'
<1>1. CASE ~calm'
  BY <1>1 DEF CalmInv, CalmHistory, LatestReverts
<1>2. CASE calm'
  <2>1. calm /\ Recording(p) /\ process[p].pc = "saving"
    BY <1>2 DEF EndSave, Recording
  <2>2. \A q \in Processes : process'[q].pc \notin {"written", "loaded", "saving"}
    <3>1. process'[p].pc = "idle" /\ \A q \in Processes \ {p} : process'[q] = process[q]
      BY DEF EndSave, TypeOK, Idle
    <3> QED
      BY <2>1, <3>1, AloneWhileCalm DEF Recording
  <2>3. OneRecords' /\ CopyFollows' /\ LatestWillRevert'
    BY <2>2 DEF OneRecords, CopyFollows, LatestWillRevert, Recording
  <2> DEFINE records == process[p].copy.records
             e == process[p].edit
  <2>4. /\ records \in Seq(Records) /\ e \in Records
        /\ Saved(p).records = Append(records, e) /\ Saved(p).torn = process[p].copy.torn
    BY <2>1, CallOrIdle, SavedTyped DEF Histories
  <2>5. CalmHistory'
    <3>1. ~history'.torn
      BY <2>1, <2>4 DEF CalmInv, CopyFollows, EndSave
    <3>2. ASSUME NEW id \in recorded'
          PROVE  \E i \in DOMAIN Append(records, e) : Append(records, e)[i].id = id
      <4>1. CASE id = e.id
        <5>1. /\ Len(records) + 1 \in DOMAIN Append(records, e)
              /\ Append(records, e)[Len(records) + 1] = e
          BY <2>4
        <5> QED
          BY <4>1, <5>1
      <4>2. CASE id \in recorded
        <5>1. PICK i \in DOMAIN records : records[i].id = id
          BY <2>1, <4>2 DEF CalmInv, CopyFollows
        <5>2. i \in DOMAIN Append(records, e) /\ Append(records, e)[i] = records[i]
          BY <2>4
        <5> QED
          BY <5>1, <5>2
      <4> QED
        BY <3>2, <4>1, <4>2 DEF EndSave
    <3>3. history'.records = Append(records, e)
      BY <2>4 DEF EndSave
    <3> QED
      BY <3>1, <3>2, <3>3 DEF CalmHistory
  <2>6. LatestReverts'
    <3>1. LatestCurrent(Saved(p).records)
      BY <2>1 DEF CalmInv, LatestWillRevert
    <3>2. LatestCurrent(history.records)'
      BY <3>1 DEF LatestCurrent, IsCurrent, EndSave
    <3> QED
      BY <3>2 DEF LatestReverts
  <2> QED
    BY <2>3, <2>5, <2>6 DEF CalmInv
<1> QED
  BY <1>1, <1>2

(* What the user changes is not asked to be as a tool has left it. *)
LEMMA UserKeeps ==
    ASSUME TypeOK, CalmInv, UserEdits
    PROVE  CalmInv'
<1>1. PICK f \in Files, c \in Contents \cup {Absent} :
              /\ disk' = [disk EXCEPT ![f] = c]
              /\ process' = Overtaken(f)
              /\ touched' = touched \cup {f}
  BY DEF UserEdits
<1>2. UNCHANGED <<history, calm, recorded>>
  BY DEF UserEdits
<1>3. \A q \in Processes : /\ process'[q].pc = process[q].pc
                           /\ process'[q].edit = process[q].edit
                           /\ process'[q].copy = process[q].copy
  BY <1>1, OvertakenTyped
<1>4. \A q \in Processes : (Recording(q)' <=> Recording(q)) /\ Saved(q)' = Saved(q)
  BY <1>3 DEF Recording, Saved
<1>5. ASSUME NEW records \in Seq(Records), Current(records, disk, touched)
      PROVE  Current(records, disk', touched')
  <2>1. \A i \in DOMAIN records : records[i].file \in Files
    <3>1. \A i \in DOMAIN records : records[i] \in Records
      OBVIOUS
    <3> QED
      BY <3>1 DEF Records
  <2>2. \A g \in Files \ {f} : disk'[g] = disk[g]
    BY <1>1 DEF TypeOK
  <2> QED
    BY <1>1, <1>5, <2>1, <2>2 DEF Current
<1>6. CASE calm
  <2>1. OneRecords' /\ CopyFollows'
    BY <1>2, <1>3, <1>4, <1>6 DEF CalmInv, OneRecords, CopyFollows
  <2>2. LatestWillRevert'
    <3>1. ASSUME NEW q \in Processes, process[q].pc = "written"
          PROVE  LatestCurrent(Append(history.records, process[q].edit))'
      <4>1. process[q].edit \in Records /\ history.records \in Seq(Records)
        BY <3>1, CallOrIdle DEF TypeOK, Histories
      <4>2. Append(history.records, process[q].edit) \in Seq(Records)
        BY <4>1
      <4>3. Current(Append(history.records, process[q].edit), disk, touched)
        BY <1>6, <3>1, CurrentIs DEF CalmInv, LatestWillRevert
      <4>4. Current(Append(history.records, process[q].edit), disk', touched')
        BY <1>5, <4>2, <4>3
      <4> QED
        BY <1>2, <1>3, <4>4 DEF LatestCurrent, IsCurrent, Current
    <3>2. ASSUME NEW q \in Processes, process[q].pc \in {"loaded", "saving"}
          PROVE  LatestCurrent(Saved(q).records)'
      <4>1. Saved(q).records \in Seq(Records)
        BY <3>2, SavedTyped DEF Histories
      <4>2. Current(Saved(q).records, disk, touched)
        BY <1>6, <3>2, CurrentIs DEF CalmInv, LatestWillRevert
      <4>3. Current(Saved(q).records, disk', touched')
        BY <1>5, <4>1, <4>2
      <4> QED
        BY <1>4, <4>3 DEF LatestCurrent, IsCurrent, Current
    <3> QED
      BY <1>3, <3>1, <3>2 DEF LatestWillRevert
  <2>3. CalmHistory'
    BY <1>2, <1>3, <1>4, <1>6 DEF CalmInv, CalmHistory
  <2>4. LatestReverts'
    <3>1. SUFFICES ASSUME \A q \in Processes : ~Recording(q)
                   PROVE  LatestCurrent(history.records)'
      BY <1>4 DEF LatestReverts
    <3>2. Current(history.records, disk, touched)
      BY <1>6, <3>1, CurrentIs DEF CalmInv, LatestReverts
    <3>3. Current(history.records, disk', touched')
      BY <1>5, <3>2 DEF TypeOK, Histories
    <3> QED
      BY <1>2, <3>3 DEF LatestCurrent, IsCurrent, Current
  <2> QED
    BY <2>1, <2>2, <2>3, <2>4 DEF CalmInv
<1>7. CASE ~calm
  BY <1>2, <1>7 DEF CalmInv, CalmHistory, LatestReverts
<1> QED
  BY <1>6, <1>7

LEMMA CalmKeeps ==
    ASSUME TypeOK, RecordsKeepEndings, CalmInv, Next
    PROVE  CalmInv'
<1>1. ASSUME NEW p \in Processes, Step(p)
      PROVE  CalmInv'
  <2>1. CASE WriteFile(p) \/ LoadHistory(p) \/ BeginSave(p) \/ EndSave(p)
    BY <2>1, WriteKeeps, LoadKeeps, BeginKeeps, EndKeeps
  (* The others do not record, or end the calm. *)
  <2>2. CASE ~WriteFile(p) /\ ~LoadHistory(p) /\ ~BeginSave(p) /\ ~EndSave(p)
    <3>1. UNCHANGED <<disk, history, recorded, touched>> /\ (calm' => calm)
      <4>1. ASSUME NEW file, NEW new, NEW create, NEW target, Call(p, file, new, create, target)
            PROVE  UNCHANGED <<disk, history, recorded, touched, calm>>
        BY <4>1 DEF Call
      <4>2. CASE PrepareEdit(p) \/ PrepareRevert(p)
        BY <4>1, <4>2, BeginsWith
      <4>3. CASE Approve(p) \/ Recheck(p)
        BY <4>3 DEF Approve, Recheck
      <4>4. CASE Abort(p)
        BY <4>4 DEF Abort
      <4> QED
        BY <1>1, <2>2, <4>2, <4>3, <4>4 DEF Step
    <3>2. calm' => ~Recording(p) /\ ~Recording(p)'
      <4>1. CASE PrepareEdit(p) \/ PrepareRevert(p)
        <5>1. PICK file \in Files, new \in Contents \cup {Absent}, create \in BOOLEAN,
                   target \in Records \cup {None} :
                   Call(p, file, new, create, target)
          BY <4>1, BeginsWith
        <5>2. process[p].pc = "idle" /\ process'[p].pc = "asked"
          BY <5>1 DEF Call, TypeOK
        <5> QED
          BY <5>2 DEF Recording
      <4>2. CASE Approve(p)
        <5>1. process[p].pc = "asked" /\ process'[p].pc \in {"approved", "checked"}
          BY <4>2, CallOrIdle DEF Approve, Goes, TypeOK, Calls
        <5> QED
          BY <5>1 DEF Recording
      <4>3. CASE Recheck(p)
        <5>1. process[p].pc = "approved" /\ process'[p].pc \in {"idle", "checked"}
          BY <4>3, CallOrIdle DEF Recheck, TypeOK, Calls, Idle
        <5> QED
          BY <5>1 DEF Recording
      <4>4. CASE Abort(p)
        <5>1. process'[p].pc = "idle" /\ calm' => ~Recording(p)
          BY <4>4 DEF Abort, TypeOK, Idle
        <5>2. process'[p].pc = "idle"
          BY <4>4 DEF Abort, TypeOK, Idle
        <5> QED
          BY <4>4, <5>1, <5>2 DEF Recording
      <4> QED
        BY <1>1, <2>2, <4>1, <4>2, <4>3, <4>4 DEF Step
    <3>3. \A q \in Processes \ {p} : process'[q] = process[q]
      BY <1>1, <2>2, StepIsOwn
    <3>4. CASE calm'
      <4>1. \A q \in Processes : \/ process'[q] = process[q]
                                 \/ ~Recording(q) /\ ~Recording(q)'
        BY <3>2, <3>3, <3>4
      <4> QED
        BY <3>1, <4>1, QuietKeeps
    <3>5. CASE ~calm'
      BY <3>5 DEF CalmInv, CalmHistory, LatestReverts
    <3> QED
      BY <3>4, <3>5
  <2> QED
    BY <2>1, <2>2
<1> QED
  BY <1>1, UserKeeps DEF Next

------------------------------------------------------------------------------
(* What holds of every run.                                                *)

LEMMA InitIInv == Init => IInv
<1> SUFFICES ASSUME Init PROVE IInv
  OBVIOUS
<1> USE DEF Init
<1>1. /\ \A p \in Processes : process[p] = Idle
      /\ history.records = <<>> /\ history.torn = FALSE
  BY DEF NoHistory
<1>2. TypeOK
  <2>1. NoHistory \in Histories
    BY DEF NoHistory, Histories
  <2> QED
    BY <2>1, EditHistoryAssumption DEF TypeOK
<1>3. FreshIsSeen /\ RecordsKeepEndings /\ RevertsInvert
  BY <1>1 DEF FreshIsSeen, RecordsKeepEndings, RevertsInvert, Idle
<1>4. OneRecords /\ CopyFollows /\ LatestWillRevert
  BY <1>1 DEF OneRecords, CopyFollows, LatestWillRevert, Recording, Idle
<1>5. CalmHistory /\ LatestReverts
  BY <1>1 DEF CalmHistory, LatestReverts, LatestCurrent
<1> QED
  BY <1>2, <1>3, <1>4, <1>5 DEF IInv

(* The invariant survives every interleaving of the calls, the user's      *)
(* edits, failures and deaths.                                             *)
THEOREM InductiveInvariant == Spec => []IInv
<1>1. IInv /\ [Next]_vars => IInv'
  <2> SUFFICES ASSUME IInv, [Next]_vars PROVE IInv'
    OBVIOUS
  <2>1. CASE Next
    <3>1. TypeOK /\ FreshIsSeen /\ RecordsKeepEndings /\ RevertsInvert /\ CalmInv
      BY DEF IInv, CalmInv
    <3>2. TypeOK' /\ FreshIsSeen' /\ RecordsKeepEndings' /\ RevertsInvert' /\ CalmInv'
      BY <2>1, <3>1, TypeKeeps, FreshKeeps, EndingsKeep, InvertKeeps, CalmKeeps
    <3> QED
      BY <3>2 DEF IInv, CalmInv
  <2>2. CASE UNCHANGED vars
    <3> USE <2>2 DEF IInv, vars
    <3>1. TypeOK' /\ FreshIsSeen' /\ RecordsKeepEndings' /\ RevertsInvert'
      BY DEF TypeOK, FreshIsSeen, Matches, RecordsKeepEndings, RevertsInvert
    <3>2. (calm => OneRecords /\ CopyFollows /\ LatestWillRevert)'
      BY DEF OneRecords, CopyFollows, LatestWillRevert, Recording, Saved, LatestCurrent,
         IsCurrent
    <3>3. CalmHistory' /\ LatestReverts'
      BY DEF CalmHistory, LatestReverts, Recording, Saved, LatestCurrent, IsCurrent
    <3> QED
      BY <3>1, <3>2, <3>3
  <2> QED
    BY <2>1, <2>2
<1> QED
  BY InitIInv, <1>1, PTL DEF Spec

(* While calm the history can be read and has every edit that was made.    *)
THEOREM HistoryIsWhole == Spec => []CalmHistory
<1>1. IInv => CalmHistory
  BY DEF IInv
<1> QED
  BY InductiveInvariant, <1>1, PTL

(* While calm the last edit of a file the user has not changed since can   *)
(* be reverted by the name of the file.                                    *)
THEOREM LastEditReverts == Spec => []LatestReverts
<1>1. IInv => LatestReverts
  BY DEF IInv
<1> QED
  BY InductiveInvariant, <1>1, PTL

(* What a tool overwrites is what the user saw and the backup has, unless  *)
(* it was changed after the last look at it.                               *)
THEOREM WritesAreAsShown == Spec => EditsAsShown
<1> DEFINE Shown == \A p \in Processes : Writes(p) /\ process[p].fresh =>
                      disk[process[p].edit.file] = process[p].edit.old
<1>1. IInv /\ [Next]_vars => [Shown]_vars
  BY DEF IInv, FreshIsSeen, Matches, Writes
<1> QED
  BY InductiveInvariant, <1>1, PTL DEF Spec, EditsAsShown

(* A revert of an unchanged file restores what was there before the edit,  *)
(* but for the two losses, through any chain of edits and reverts.         *)
THEOREM RevertsRestore == Spec => RevertRestores
<1> DEFINE Restores ==
      \A p \in Processes : Writes(p) /\ process[p].fresh /\ process[p].target # None =>
          LET e == process[p].target
              was == e.old
              is == disk'[e.file]
          IN  /\ disk[e.file] = e.new
              /\ \/ is = was
                 \/ was = Absent /\ ~e.create /\ is = EmptyFile
                 \/ /\ was # Absent /\ is # Absent /\ is.text = was.text
                    /\ \/ was.ends = "mixed"
                       \/ e.new = Absent \/ e.new.text \in OneLine
<1>1. ASSUME IInv, [Next]_vars
      PROVE  [Restores]_vars
  <2> SUFFICES ASSUME Next, NEW p \in Processes, Writes(p), process[p].fresh,
                      process[p].target # None
               PROVE  LET e == process[p].target
                          was == e.old
                          is == disk'[e.file]
                      IN  /\ disk[e.file] = e.new
                          /\ \/ is = was
                             \/ was = Absent /\ ~e.create /\ is = EmptyFile
                             \/ /\ was # Absent /\ is # Absent /\ is.text = was.text
                                /\ \/ was.ends = "mixed"
                                   \/ e.new = Absent \/ e.new.text \in OneLine
    BY <1>1
  <2> DEFINE e == process[p].target
  <2>1. /\ e \in Records /\ KeepsEndings(e)
        /\ process[p].edit.file = e.file /\ process[p].edit.old = e.new
        /\ process[p].edit.new = Restored(e, e.new)
    BY <1>1, CallOrIdle DEF IInv, RevertsInvert
  <2>2. disk[e.file] = e.new
    BY <1>1, <2>1 DEF IInv, FreshIsSeen, Matches, Writes
  (* Only the process's own step takes it from checked to written. *)
  <2>3. WriteFile(p)
    <3>1. Step(p)
      BY <1>1, OthersKeep DEF IInv, Next, Writes
    <3> QED
      BY <1>1, <3>1 DEF IInv, TypeOK, Writes, Step, PrepareEdit, PrepareRevert, Call,
         Approve, Recheck, LoadHistory, BeginSave, EndSave, Abort, Idle
  <2>4. disk'[e.file] = Restored(e, e.new)
    BY <1>1, <2>1, <2>3 DEF IInv, TypeOK, WriteFile, Records
  <2> QED
    BY <2>1, <2>2, <2>4, RestoredLoses
<1>2. IInv /\ [Next]_vars => [Restores]_vars
  BY <1>1
<1> QED
  BY InductiveInvariant, <1>2, PTL DEF Spec, RevertRestores
==============================================================================
