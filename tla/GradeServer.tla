----------------------------- MODULE GradeServer -----------------------------
(***************************************************************************)
(* The server side of one (student, exam) pair: the Grade row, the grade   *)
(* held as a smart note while the student is dismissed, the student's      *)
(* status, and what POST /api/grades does to them.                         *)
(*                                                                         *)
(* Every request runs in one serializable transaction that also replays    *)
(* the student's academic state (withSerializableTransaction and           *)
(* recalculateStudentsAcademicState), so a request is one step here.  What *)
(* the replay decides about the student's status is left open: a counted   *)
(* grade may or may not dismiss the student.                               *)
(***************************************************************************)
EXTENDS Naturals

CONSTANTS
  Scores,     \* numeric results: status "درجة" with a score
  Marks,      \* results without a score: absence, cheating
  NoValue,    \* the value of a row that does not exist
  Users,      \* accounts that can be signed in
  Nobody      \* the absence of an account

ASSUME ServerAssumption ==
  /\ Scores \cap Marks = {}
  /\ NoValue \notin Scores \cup Marks
  /\ Nobody \notin Users

Values == Scores \cup Marks

VARIABLES
  grade,      \* the Grade row of the pair (Missing when there is none)
  held,       \* the GradeSmartNote of category DISMISSED_PENDING
  student,    \* the student's status
  clock       \* the last updatedAt handed out

serverVars == <<grade, held, student, clock>>

(***************************************************************************)
(* A row is its value, its updatedAt (the version the clients compare),    *)
(* the account whose request wrote it (a history value: the audit log      *)
(* holds it, the row does not), and whether it was created from the held   *)
(* grade (smartNoteId).  Version 0 is "no row".                            *)
(***************************************************************************)
Row == [val: Values \cup {NoValue}, ver: Nat, by: Users \cup {Nobody}, linked: BOOLEAN]
Missing == [val |-> NoValue, ver |-> 0, by |-> Nobody, linked |-> FALSE]

Note == [val: Scores \cup {NoValue}, by: Users \cup {Nobody},
         status: {"NONE", "PENDING", "PROCESSED"}]
NoNote == [val |-> NoValue, by |-> Nobody, status |-> "NONE"]

StudentStatus == {"active", "dismissed", "archived"}

ServerTypeOK ==
  /\ grade \in Row
  /\ held \in Note
  /\ student \in StudentStatus
  /\ clock \in Nat

ServerInit ==
  /\ grade = Missing
  /\ held = NoNote
  /\ student = "active"
  /\ clock = 0

-----------------------------------------------------------------------------
(***************************************************************************)
(* migrateDismissedPendingGradesAfterActivation: an active student keeps   *)
(* no pending note.  With no official grade the held score becomes an      *)
(* uncounted row; with one, the held score is deleted.                     *)
(***************************************************************************)
NoteWaits == held.status = "PENDING"

SettledRow(row) ==
  IF NoteWaits /\ row.ver = 0
    THEN [val |-> held.val, ver |-> clock + 1, by |-> held.by, linked |-> TRUE]
    ELSE row

NoteLeftWaiting(row) == held    \* faulty: the note is never settled

SettledNote(row) ==
  IF NoteWaits
    THEN IF row.ver = 0 THEN [held EXCEPT !.status = "PROCESSED"] ELSE NoNote
    ELSE held

(***************************************************************************)
(* The student's status becomes s and the row becomes row, in the same     *)
(* transaction; returning to active settles the held grade.                *)
(***************************************************************************)
Become(s, row) ==
  /\ student' = s
  /\ grade' = IF s = "active" THEN SettledRow(row) ELSE row
  /\ held' = IF s = "active" THEN SettledNote(row) ELSE held

(***************************************************************************)
(* syncAcademicGradeWriteback: the upsert, with a fresh updatedAt, and the *)
(* replay that leaves the student in status s.                             *)
(***************************************************************************)
StoreGrade(req, s) ==
  /\ clock' = clock + 1
  /\ Become(s, [val |-> req.val, ver |-> clock + 1, by |-> req.cookie,
                linked |-> grade.linked])

(***************************************************************************)
(* The compare-and-swap of POST: expectMissing is exp = 0, otherwise exp   *)
(* is the expectedUpdatedAt.                                               *)
(***************************************************************************)
BaselineIgnored(req) == TRUE    \* faulty: the last write wins

BaselineHolds(req) == grade.ver = req.exp

Answer(kind, k) == kind = k /\ UNCHANGED serverVars

(***************************************************************************)
(* The ordinary path: compare, then write.  A dismissed student's existing *)
(* row may be corrected with a mark (allowDismissedExistingGradeCorrection)*)
(* and stays dismissed; a new row is refused.                              *)
(***************************************************************************)
PostWrite(req, kind) ==
  \/ ~BaselineHolds(req) /\ Answer(kind, "conflict")
  \/ /\ BaselineHolds(req)
     /\ \/ student = "archived" \/ (student = "dismissed" /\ grade.ver = 0)
     /\ Answer(kind, "rejected")
  \/ /\ BaselineHolds(req) /\ kind = "ok"
     /\ \/ student = "active" /\ \E s \in {"active", "dismissed"} : StoreGrade(req, s)
        \/ student = "dismissed" /\ grade.ver # 0 /\ StoreGrade(req, "dismissed")

(***************************************************************************)
(* The bonus return: a late pass that would have kept the student is       *)
(* written for real and returns them to active in the same transaction.    *)
(***************************************************************************)
PostBonusReturn(req, kind) ==
  \/ ~BaselineHolds(req) /\ Answer(kind, "conflict")
  \/ BaselineHolds(req) /\ kind = "ok" /\ StoreGrade(req, "active")

(***************************************************************************)
(* upsertGradeSmartNote for a score typed while the student is dismissed.  *)
(* The baseline of the request is not compared, and the same score again   *)
(* leaves the note as it is.  A note that was processed answers with the   *)
(* row it became.                                                          *)
(***************************************************************************)
NoteAfter(req) ==
  IF NoteWaits /\ held.val = req.val THEN held
  ELSE [val |-> req.val, by |-> req.cookie, status |-> "PENDING"]

PostHeld(req, kind) ==
  \/ /\ held.status # "PROCESSED" /\ kind = "held" /\ held' = NoteAfter(req)
     /\ UNCHANGED <<grade, student, clock>>
  \/ held.status = "PROCESSED" /\ grade.linked /\ Answer(kind, "replayed")
  \/ held.status = "PROCESSED" /\ ~grade.linked /\ Answer(kind, "conflict")

AnswerKinds == {"ok", "held", "replayed", "conflict", "rejected", "unauthorised"}

(***************************************************************************)
(* getAuthPrincipal refuses a request whose owner header names another     *)
(* account than the session cookie.                                        *)
(***************************************************************************)
OwnerNotCompared(req) == FALSE  \* faulty: the cookie alone decides

OwnerRefused(req) == req.cookie # req.own

(* The whole handler. *)
Post(req, kind) ==
  \/ OwnerRefused(req) /\ Answer(kind, "unauthorised")
  \/ /\ ~OwnerRefused(req)
     /\ \/ req.val \in Scores /\ student = "archived" /\ Answer(kind, "rejected")
        \/ req.val \in Scores /\ student = "dismissed"
           /\ (PostBonusReturn(req, kind) \/ PostHeld(req, kind))
        \/ ~(req.val \in Scores /\ student # "active") /\ PostWrite(req, kind)

(***************************************************************************)
(* DELETE of the row, and the replay that leaves the student in status s;  *)
(* a row kept from a held grade is protected, an archived file read-only.  *)
(***************************************************************************)
DeleteGrade(s) ==
  /\ grade.ver # 0 /\ ~grade.linked
  /\ student # "archived" /\ s # "archived"
  /\ Become(s, Missing)
  /\ clock' = IF grade'.ver # 0 THEN clock + 1 ELSE clock

(***************************************************************************)
(* Any other operation that changes the student's status: the replay after *)
(* another exam, a manual return, the archive and the restore.             *)
(***************************************************************************)
ChangeStatus(s) ==
  /\ s # student
  /\ Become(s, grade)
  /\ clock' = IF grade' # grade THEN clock + 1 ELSE clock
=============================================================================
