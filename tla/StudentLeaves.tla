------------------------------ MODULE StudentLeaves ------------------------------
(***************************************************************************)
(* The leaves of one student and the results they cover.  A leave is for   *)
(* one exam or for a period; while it covers an exam, the student's row    *)
(* there is an "excused" marker and the result it replaced is kept as a    *)
(* backup of the leave.  Leaves are recorded, edited and cancelled, scores *)
(* and absences are entered, rows are deleted, and an exam's day or its    *)
(* availability is changed; each is one serializable transaction, so one   *)
(* step.                                                                   *)
(***************************************************************************)
EXTENDS Naturals

CONSTANTS
  Exams,       \* the exams of the student's course
  Scores,      \* the scores that are entered
  Absent,      \* the result of who was absent
  Excused,     \* the marker of a leave
  NoRow,       \* no row, or no backup
  Leaves,      \* the identities of leaves
  NoLeave,
  LastDay,     \* bound: the days of the calendar
  Crossing     \* whether a score is typed over a leave that another one crosses

Days == 1..LastDay
Results == Scores \cup {Absent}

ASSUME Assumption ==
  /\ Absent \notin Scores /\ Excused \notin Results /\ NoRow \notin Results \cup {Excused}
  /\ LastDay \in Nat /\ Crossing \in BOOLEAN
  /\ NoLeave \notin [exam : Exams] \cup [from : Days, to : Days]

VARIABLES
  file,        \* the student's leaves, rows and backups
  day,         \* the day of each exam
  real,        \* history: each exam's result, leaves apart
  removed,     \* history: the exams whose marker was deleted by hand and is not back
  mislaid      \* history: the exams moved off the leave that keeps their result while removed

vars == <<file, day, real, removed, mislaid>>

ExamLeave == [exam : Exams]
PeriodLeave == {l \in [from : Days, to : Days] : l.from <= l.to}
Scope == ExamLeave \cup PeriodLeave

IsExamLeave(scope) == scope \in ExamLeave

(* studentLeaveAppliesToExam, storedLeaveCoversExam, getAffectedExamIds *)
CoversOn(scope, e, d) ==
  /\ scope # NoLeave
  /\ IF IsExamLeave(scope) THEN scope.exam = e ELSE scope.from <= d /\ d <= scope.to

Covering(f, e) == {l \in Leaves : CoversOn(f.leave[l], e, day[e])}

TypeOK ==
  /\ file.leave \in [Leaves -> Scope \cup {NoLeave}]
  /\ file.row \in [Exams -> Results \cup {Excused, NoRow}]
  /\ file.backup \in [Leaves -> [Exams -> Results \cup {NoRow}]]
  /\ day \in [Exams -> Days] /\ real \in [Exams -> Results \cup {NoRow}]
  /\ removed \in SUBSET Exams /\ mislaid \in SUBSET Exams
  /\ \A l \in Leaves, e \in Exams : file.backup[l][e] # NoRow => file.leave[l] # NoLeave

Blank == [e \in Exams |-> NoRow]

Init ==
  /\ real = Blank /\ day \in [Exams -> Days] /\ removed = {} /\ mislaid = {}
  /\ file = [leave |-> [l \in Leaves |-> NoLeave], row |-> real,
             backup |-> [l \in Leaves |-> Blank]]

-----------------------------------------------------------------------------
(* Parts of the transactions: each takes the file and returns it changed.  *)

NoOther(f, id, e) == {}                              \* faulty: other leaves are not looked at
Others(f, id, e) == Covering(f, e) \ {id}

(* restoreGradesForLeave, clearExcusedGradeMarkersForLeave: a backup passes *)
(* to the other leaves that cover its exam; without one it is the row again, *)
(* and a marker nothing stands behind goes.                                 *)
RestoredGrades(f, id) ==
  [leave |-> f.leave,
   row |-> [e \in Exams |->
     IF Others(f, id, e) # {} THEN f.row[e]
     ELSE IF f.backup[id][e] # NoRow THEN f.backup[id][e]
     ELSE IF id \in Covering(f, e) /\ f.row[e] = Excused THEN NoRow
     ELSE f.row[e]],
   backup |-> [l \in Leaves |-> [e \in Exams |->
     IF l = id THEN NoRow
     ELSE IF l \in Others(f, id, e) /\ f.backup[l][e] = NoRow THEN f.backup[id][e]
     ELSE f.backup[l][e]]]]

(* The row of the leave is deleted, and its backups with it. *)
Deleted(f, id) ==
  [leave |-> [f.leave EXCEPT ![id] = NoLeave], row |-> f.row,
   backup |-> [f.backup EXCEPT ![id] = Blank]]

(* removeDuplicateExamLeavesBeforeSave: the database allows one such leave. *)
Duplicates(f, id, scope) ==
  {l \in Leaves \ {id} : IsExamLeave(scope) /\ f.leave[l] = scope}

WithoutDuplicate(f, id, scope) ==
  IF Duplicates(f, id, scope) = {} THEN f
  ELSE LET l == CHOOSE l \in Duplicates(f, id, scope) : TRUE
       IN Deleted(RestoredGrades(f, l), l)

(* backupGradesForLeave, writeExcusedGradeMarkers; a backup is not replaced. *)
MarkerKept(f, id, e) == f.row[e] # NoRow /\ f.backup[id][e] = NoRow  \* faulty: also the marker
KeepsResult(f, id, e) == f.row[e] \notin {Excused, NoRow} /\ f.backup[id][e] = NoRow

Taken(f, id, scope) ==
  LET on(e) == CoversOn(scope, e, day[e]) IN
  [leave |-> [f.leave EXCEPT ![id] = scope],
   row |-> [e \in Exams |-> IF on(e) THEN Excused ELSE f.row[e]],
   backup |-> [f.backup EXCEPT ![id] =
     [e \in Exams |-> IF on(e) /\ KeepsResult(f, id, e) THEN f.row[e] ELSE f.backup[id][e]]]]

(* Two periods of one student may not share a day. *)
Overlaps(f, id, scope) ==
  /\ ~IsExamLeave(scope)
  /\ \E l \in Leaves \ {id} :
       /\ f.leave[l] # NoLeave /\ ~IsExamLeave(f.leave[l])
       /\ f.leave[l].from <= scope.to /\ f.leave[l].to >= scope.from

-----------------------------------------------------------------------------
(* After the file: a marker deleted by hand stays away until a row is written. *)
StillRemoved == removed' = {e \in removed : file'.row[e] = NoRow}

(* POST /api/student-leaves *)
Create(id, scope) ==
  /\ file.leave[id] = NoLeave /\ ~Overlaps(file, id, scope)
  /\ file' = Taken(WithoutDuplicate(file, id, scope), id, scope)
  /\ UNCHANGED <<day, real, mislaid>> /\ StillRemoved

(* PUT: what the leave covered is restored, then it is taken anew. *)
Edit(id, scope) ==
  /\ file.leave[id] \notin {NoLeave, scope} /\ ~Overlaps(file, id, scope)
  /\ file' = Taken(WithoutDuplicate(RestoredGrades(file, id), id, scope), id, scope)
  /\ UNCHANGED <<day, real, mislaid>> /\ StillRemoved

(* DELETE *)
Cancel(id) ==
  /\ file.leave[id] # NoLeave
  /\ file' = Deleted(RestoredGrades(file, id), id)
  /\ UNCHANGED <<day, real, mislaid>> /\ StillRemoved

(* syncAcademicGradeWriteback: a score ends every leave that covers the    *)
(* exam, the whole of it (endLeavesCoveringExamForGrade): the results it   *)
(* backed up return and its markers go, whatever other leaves cover.       *)
Ended(f, e) == Covering(f, e)

RowsAfter(f, ended) ==
  {row \in [Exams -> Results \cup {Excused, NoRow}] :
     \A x \in Exams :
       LET held == {f.backup[l][x] : l \in ended} \ {NoRow} IN
       IF held # {} THEN row[x] \in held
       ELSE row[x] = IF f.row[x] = Excused /\ ended \cap Covering(f, x) # {}
                     THEN NoRow ELSE f.row[x]}

(* No leave but those that end covers an exam of theirs. *)
Alone(f, e) == \A x \in Exams : Covering(f, x) \cap Ended(f, e) # {} => Covering(f, x) \subseteq Ended(f, e)

EnterScore(e, v) ==
  /\ Crossing \/ Alone(file, e)
  /\ \E row \in RowsAfter(file, Ended(file, e)) :
       file' = [leave |-> [l \in Leaves |-> IF l \in Ended(file, e) THEN NoLeave ELSE file.leave[l]],
                row |-> [row EXCEPT ![e] = v],
                backup |-> [l \in Leaves |-> IF l \in Ended(file, e) THEN Blank ELSE file.backup[l]]]
  /\ real' = [real EXCEPT ![e] = v]
  /\ UNCHANGED <<day, mislaid>> /\ StillRemoved

WithRow(f, e, result) ==
  [leave |-> f.leave, row |-> [f.row EXCEPT ![e] = result], backup |-> f.backup]

(* An absence of a student on leave is recorded as the leave. *)
AbsenceOf(f, e) == IF Covering(f, e) = {} THEN Absent ELSE Excused

EnterAbsence(e) ==
  /\ file' = WithRow(file, e, AbsenceOf(file, e))
  /\ real' = IF Covering(file, e) = {} THEN [real EXCEPT ![e] = Absent] ELSE real
  /\ UNCHANGED <<day, mislaid>> /\ StillRemoved

(* mark-missing-absent: students without a row, except those on leave. *)
MarkMissing(e) ==
  /\ file.row[e] = NoRow /\ Covering(file, e) = {}
  /\ file' = WithRow(file, e, Absent)
  /\ real' = [real EXCEPT ![e] = Absent]
  /\ UNCHANGED <<day, mislaid>> /\ StillRemoved

(* The absences of an exam are withdrawn. *)
WithdrawAbsence(e) ==
  /\ file.row[e] = Absent
  /\ file' = WithRow(file, e, NoRow)
  /\ real' = [real EXCEPT ![e] = NoRow]
  /\ UNCHANGED <<day, mislaid>> /\ StillRemoved

(* DELETE /api/grades of one row, whatever it is: no leave is looked at and *)
(* no backup goes.  With a marker no result of the student is deleted.      *)
DeleteGrade(e) ==
  /\ file.row[e] # NoRow
  /\ file' = WithRow(file, e, NoRow)
  /\ IF file.row[e] = Excused
     THEN removed' = removed \cup {e} /\ UNCHANGED real
     ELSE real' = [real EXCEPT ![e] = NoRow] /\ UNCHANGED removed
  /\ UNCHANGED <<day, mislaid>>

(* ensureProtectedGradeMarkers alone: an exam opens or closes. *)
EnsureMarker(e) ==
  /\ file.row[e] = NoRow /\ Covering(file, e) # {}
  /\ file' = WithRow(file, e, Excused)
  /\ UNCHANGED <<day, real, mislaid>> /\ StillRemoved

(* PUT /api/exams with another day: the exam may enter a leave or go out of *)
(* one.  reconcileProtectedGradeMarkersForExamEdit works on the row there   *)
(* is, ensureProtectedGradeMarkers adds the marker where there is none.     *)
BackupsOf(f, e) == [l \in Leaves |-> f.backup[l][e]]
NoBackups == [l \in Leaves |-> NoRow]

Put(f, e, result, backups) ==
  [leave |-> f.leave, row |-> [f.row EXCEPT ![e] = result],
   backup |-> [l \in Leaves |-> [f.backup[l] EXCEPT ![e] = backups[l]]]]

ReconciledNot(f, e, covering) == {f}                 \* faulty: the rows stay
Reconciled(f, e, covering) ==
  LET held == BackupsOf(f, e)
      holders == {l \in Leaves : held[l] # NoRow}
  IN CASE f.row[e] = Excused /\ covering = {} ->
            {Put(f, e, result, NoBackups) :
               result \in IF holders = {} THEN {NoRow} ELSE {held[h] : h \in holders}}
       [] f.row[e] = Excused /\ covering # {} /\ holders # {} /\ holders \cap covering = {} ->
            {Put(f, e, Excused, [NoBackups EXCEPT ![l] = held[h]]) : l \in covering, h \in holders}
       [] f.row[e] = NoRow /\ covering # {} -> {Put(f, e, Excused, held)}
       [] f.row[e] \in Results /\ covering # {} ->
            {Put(f, e, Excused, [held EXCEPT ![l] = IF @ = NoRow THEN f.row[e] ELSE @]) :
               l \in covering}
       [] OTHER -> {f}

CoveringOn(e, d) == {l \in Leaves : CoversOn(file.leave[l], e, d)}

(* The backup of an exam without a row is not looked at, and stays where it is. *)
LeftBehind(e, d) == e \in removed /\ \E l \in Leaves \ CoveringOn(e, d) : file.backup[l][e] # NoRow

MoveExam(e, d) ==
  /\ d # day[e] /\ day' = [day EXCEPT ![e] = d]
  /\ file' \in Reconciled(file, e, CoveringOn(e, d))
  /\ mislaid' = IF LeftBehind(e, d) THEN mislaid \cup {e} ELSE mislaid
  /\ UNCHANGED real /\ StillRemoved

Next ==
  \/ \E id \in Leaves, scope \in Scope : Create(id, scope) \/ Edit(id, scope)
  \/ \E id \in Leaves : Cancel(id)
  \/ \E e \in Exams, v \in Scores : EnterScore(e, v)
  \/ \E e \in Exams : EnterAbsence(e) \/ MarkMissing(e) \/ WithdrawAbsence(e)
  \/ \E e \in Exams : DeleteGrade(e) \/ EnsureMarker(e)
  \/ \E e \in Exams, d \in Days : MoveExam(e, d)

Spec == Init /\ [][Next]_vars

-----------------------------------------------------------------------------
(* "If another leave still covers an exam, its excused marker remains"      *)
(* (docs/student-leaves-20260910.md): no result counts beside a leave that  *)
(* covers its exam, whichever leave came first, was edited or ended, and    *)
(* wherever the exam was moved; and the marker is away only where it was    *)
(* deleted by hand and nothing was written since.                           *)
ExcusedWhileCovered ==
  \A e \in Exams \ mislaid : Covering(file, e) # {} =>
    IF e \in removed THEN file.row[e] = NoRow ELSE file.row[e] = Excused

(* "The final cancellation restores the original grade": an exam no leave   *)
(* covers has the result that was recorded for it, or none, also when its   *)
(* marker was deleted on the way.  An exam moved while its marker was away  *)
(* is left out: the move does not find the backup it should give back.      *)
OriginalRestored ==
  \A e \in Exams \ mislaid : Covering(file, e) = {} => file.row[e] = real[e]
=============================================================================
