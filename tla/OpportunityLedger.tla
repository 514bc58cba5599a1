--------------------------- MODULE OpportunityLedger ---------------------------
(***************************************************************************)
(* One student's chapter as it is lived: results are entered, corrected    *)
(* and deleted late or early, administrators add, deduct, reset and undo   *)
(* opportunities, a dismissed student is returned by hand.  Every          *)
(* operation is one serializable transaction that ends with the replay of  *)
(* AcademicReplay over what is stored.                                     *)
(*                                                                         *)
(* Time is the day and, within it, the number of commands recorded: two    *)
(* results entered with no command between them are not told apart.        *)
(***************************************************************************)
EXTENDS AcademicReplay

CONSTANTS
  Entries,      \* the results entered: pairs of an exam and a result
  Amounts,      \* the amounts of the commands
  Commands,     \* bound: what the first, second, ... command recorded may be
  MaxDay        \* bound: the last day

ASSUME LedgerAssumption ==
  /\ Entries \subseteq Exams \X (Scores \cup Marks)
  /\ Amounts \subseteq Nat \ {0}
  /\ Commands \in Seq(SUBSET {"add", "deduct", "reset", "undo", "grant"})
  /\ Len(Commands) < DayLength
  /\ MaxDay \in Nat \ {0}

VARIABLES
  today,    \* the day
  rows,     \* the student's Grade rows
  log,      \* the commands, oldest first; an entry's place is its id
  student,  \* the Student row and the automatic OpportunityLog rows
  held      \* the scores held while the student is dismissed

vars == <<today, rows, log, student, held>>

Now == today * DayLength + Len(log)

(* The bound on the commands. *)
May(action) == Len(log) < Len(Commands) /\ action \in Commands[Len(log) + 1]

NoHeld == [e \in Exams |-> "none"]

TypeOK ==
  /\ today \in 1..MaxDay
  /\ rows \in [Exams -> Row]
  /\ log \in Seq(Entry)
  /\ student \in Student
  /\ held \in [Exams -> Scores \cup {"none"}]

Init ==
  /\ today = 1
  /\ rows = [e \in Exams |-> NoRow]
  /\ log = <<>>
  /\ student = [status |-> "active", why |-> NoWhy, balance |-> Cap, progress |-> 0,
                bonuses |-> {}, dismissals |-> {}]
  /\ held = NoHeld

-----------------------------------------------------------------------------
(***************************************************************************)
(* recalculateStudentsAcademicState over a file f (rows, log, student and  *)
(* held): replay; an active student keeps no held score, each becomes a    *)
(* row without effect unless the exam has one; then replay once more.      *)
(***************************************************************************)
RowsOfHeld(f, at) ==
  [e \in Exams |->
     IF f.held[e] # "none" /\ f.rows[e].res = "none"
     THEN [res |-> f.held[e], at |-> at, excl |-> TRUE] ELSE f.rows[e]]

HeldBecomeRows(f, at) == [f EXCEPT !.rows = RowsOfHeld(f, at)]
Settled(f, at) == [HeldBecomeRows(f, at) EXCEPT !.held = NoHeld]

ReplayFile(f) == [f EXCEPT !.student = Replay(f.rows, f.log, f.student)]

Returned(f, at) ==
  IF f.student.status = "active" /\ f.held # NoHeld THEN ReplayFile(Settled(f, at)) ELSE f

Recalculated(f, at) == Returned(ReplayFile(f), at)

File == [rows |-> rows, log |-> log, student |-> student, held |-> held]

Become(f) == rows' = f.rows /\ log' = f.log /\ student' = f.student /\ held' = f.held

-----------------------------------------------------------------------------
(* POST /api/grades and DELETE *)

(* syncAcademicGradeWriteback: a row keeps its id, its creation and its exclusion. *)
Written(e, res) ==
  [rows EXCEPT ![e] = IF @.res = "none" THEN [res |-> res, at |-> Now, excl |-> FALSE]
                      ELSE [@ EXCEPT !.res = res]]

Write(e, res) == Become(Recalculated([File EXCEPT !.rows = Written(e, res)], Now))

(***************************************************************************)
(* bonusReturnsDismissedStudent: with this score counted the stored        *)
(* dismissal goes away, and without it it stays.                           *)
(***************************************************************************)
Returns(rs) == Replay(rs, log, student).status = "active"

BonusReturn(e, res) ==
  /\ ~Returns(rows)
  /\ Returns([Written(e, res) EXCEPT ![e].excl = FALSE])

(* The real recalculation decides. *)
Confirmed(e, res) ==
  Recalculated([File EXCEPT !.rows = Written(e, res)], Now).student.status = "active"

(* Written again, a result changes nothing: see SavedIsReplay. *)
EnterActive(e, res) ==
  student.status = "active" /\ rows[e].res # res /\ Write(e, res)

CorrectDismissed(e, res) ==
  /\ student.status = "dismissed" /\ res \in Marks /\ rows[e].res \notin {"none", res}
  /\ Write(e, res)

(* A score whose earlier attempt already became a row is answered with it. *)
HoldScore(e, res) ==
  /\ ~rows[e].excl
  /\ held' = [held EXCEPT ![e] = res]
  /\ UNCHANGED <<rows, log, student>>

EnterDismissed(e, res) ==
  LET back == BonusReturn(e, res) /\ Confirmed(e, res) IN
  /\ student.status = "dismissed" /\ res \in Scores
  /\ \/ back /\ Write(e, res)
     \/ ~back /\ HoldScore(e, res)

Enter(e, res) ==
  /\ DayOf[e] <= today
  /\ EnterActive(e, res) \/ CorrectDismissed(e, res) \/ EnterDismissed(e, res)
  /\ UNCHANGED today

DeleteGrade(e) ==
  /\ rows[e].res # "none" /\ ~rows[e].excl
  /\ Become(Recalculated([File EXCEPT !.rows[e] = NoRow], Now))
  /\ UNCHANGED today

-----------------------------------------------------------------------------
(* POST /api/opportunities/student-action *)

NewEntry(action, applied, after) ==
  [action |-> action, applied |-> applied, after |-> after, at |-> Now + 1,
   undoes |-> 0, violation |-> FALSE, settled |-> {}]

(* faulty: the requested amount is recorded *)
AddedUncapped(b, n) == NewEntry("add", n, b + n)

Added(b, n) == NewEntry("add", Smaller(n, Less(Cap, b)), Capped(b + n))

Deducted(b, n) == [NewEntry("deduct", Smaller(n, b), Less(b, n)) EXCEPT !.violation = b = 0]

ResetEntry(f) == [NewEntry("reset", 0, Cap) EXCEPT !.settled = IdsOf(f.rows)]

(* «تراجع موثق»: the opposite movement; its reason quotes the undone one's. *)
Undoing(b, i) ==
  LET l == log[i]
      opposite == IF l.action = "deduct" THEN Added(b, l.applied) ELSE Deducted(b, l.applied) IN
  [opposite EXCEPT !.undoes = i, !.violation = l.violation]

(* The ledger is recalculated, the entry recorded, and the ledger recalculated. *)
Record(f, entry) == Become(Recalculated([f EXCEPT !.log = Append(@, entry)], Now + 1))

Command ==
  LET f == Recalculated(File, Now)
      b == f.student.balance IN
  /\ Len(log) < Len(Commands)
  /\ student.status = "active" /\ f.student.status = "active"
  /\ \/ May("add") /\ \E n \in Amounts : Record(f, Added(b, n))
     \/ May("deduct") /\ \E n \in Amounts : Record(f, Deducted(b, n))
     \/ May("reset") /\ Record(f, ResetEntry(f))
     \/ /\ May("undo")
        /\ \E i \in (DOMAIN log) \ Undone(log) :
             log[i].action \in {"add", "deduct"} /\ Record(f, Undoing(b, i))
  /\ UNCHANGED today

(***************************************************************************)
(* restoreDismissedStudentManually: active with the chosen balance; held   *)
(* scores become rows, and every row there is becomes history.  Nothing is *)
(* replayed.                                                               *)
(***************************************************************************)
Restore(n) ==
  LET f == Settled(File, Now) IN
  /\ student.status = "dismissed" /\ n <= Cap
  /\ May("grant")
  /\ Become([f EXCEPT
       !.student = [@ EXCEPT !.status = "active", !.why = NoWhy, !.balance = n],
       !.log = Append(@, [NewEntry("grant", n, n) EXCEPT !.settled = IdsOf(f.rows)])])
  /\ UNCHANGED today

NextDay == today < MaxDay /\ today' = today + 1 /\ UNCHANGED <<rows, log, student, held>>

Next ==
  \/ \E e \in Exams, res \in Scores \cup Marks : <<e, res>> \in Entries /\ Enter(e, res)
  \/ \E e \in Exams : DeleteGrade(e)
  \/ Command
  \/ \E n \in Amounts : Restore(n)
  \/ NextDay

Spec == Init /\ [][Next]_vars

-----------------------------------------------------------------------------
(***************************************************************************)
(* What is saved is what the rules give for what is stored: replaying the  *)
(* student once more, at any time, changes nothing, though the replay      *)
(* reads its own earlier results (the stored dismissal and the bonuses and *)
(* dismissals of settled rows).                                            *)
(***************************************************************************)
SavedIsReplay == Replay(rows, log, student) = student

(***************************************************************************)
(* What an administrator took by hand and did not give back stays taken:   *)
(* bonuses only fill the rest of the gap below the chapter's limit.        *)
(***************************************************************************)
ManualLossStays ==
  LET a == Replayed(rows, log, student) IN a.bal + a.hold <= Cap

(***************************************************************************)
(* How late a result that takes no opportunity was entered never changes   *)
(* the ledger: entered at its exam's hour it would have given the same.    *)
(***************************************************************************)
PlaceIndependentOfEntry ==
  \A e \in Entered(rows) :
    /\ rows[e].res \in {"pass", "weak"}
    /\ \A at \in {rows[e].at, At(e)} : <<e, at>> \notin Opening(log).settled
    => Replay([rows EXCEPT ![e].at = At(e)], log, student) = student

(***************************************************************************)
(* A dismissed student returns only by an explicit return or by a bonus of *)
(* this ledger, earned before what dismissed them, never because some      *)
(* recalculation no longer finds the dismissal.  A dismissal by hand       *)
(* returns by a bonus before any of the deductions by hand: the replay     *)
(* marks them all as one place.                                            *)
(***************************************************************************)
EarnedBefore(b, why) ==
  IF why.rule = "hand"
  THEN \E i \in Pending(log) : log[i].action = "deduct" /\ At(b) <= log[i].at
  ELSE b < why.of

ReturnsAreEarned ==
  [][student.status = "dismissed" /\ student'.status = "active" =>
       \/ log' # log /\ log'[Len(log')].action = "grant"
       \/ \E b \in student'.bonuses \ SettledExams(rows', log') : EarnedBefore(b, student.why)]_vars

(***************************************************************************)
(* Correcting results that a reset or a return settled spends nothing of   *)
(* the balance it opened, and changes nothing else of the student.         *)
(***************************************************************************)
OnlySettledEdited ==
  \A e \in Exams : rows'[e] # rows[e] =>
    /\ <<e, rows[e].at>> \in Opening(log).settled
    /\ rows'[e].at = rows[e].at /\ rows'[e].res # "none"

SettledEditsChangeNothing ==
  [][log' = log /\ rows' # rows /\ OnlySettledEdited => student' = student]_vars

(***************************************************************************)
(* An old result entered after a credit of a later day dismisses nobody    *)
(* before that credit: neither itself nor by making another result of that *)
(* time find an empty balance, unless by moving a bonus.  Deductions by    *)
(* hand between the two keep their full effect.                            *)
(***************************************************************************)
OldLossEntered(c, e) ==
  /\ rows[e].res = "none" /\ c.rows[e].res \in Losses /\ e \notin Finals
  /\ LaterCredit(c, e) # 0
  /\ \A i \in Pending(log) :
       log[i].action = "deduct" /\ log[i].at <= LaterCredit(c, e) => log[i].at <= LedgerTime(c, e)

BonusesStay == \A b \in student.bonuses : b < student'.why.of => b \in student'.bonuses

OldLossSpendsOldBalance ==
  [][log' = log /\ student.status = "active" /\ student'.status = "dismissed"
     /\ student'.why.rule = "loss" /\ BonusesStay =>
       LET c == Context(rows', log) IN
       \A e \in Exams : OldLossEntered(c, e) =>
         LedgerTime(c, student'.why.of) >= LaterCredit(c, e)]_vars

(***************************************************************************)
(* The balance a command writes in the audit trail is the balance the      *)
(* recalculation then saves (an undo whose reason quotes a violation       *)
(* excepted: see DismissalNeedsEmptyBalance).                              *)
(***************************************************************************)
RecordedBalanceIsSaved ==
  [][Len(log') > Len(log) =>
       LET l == log'[Len(log')] IN
       (l.undoes # 0 /\ l.violation) \/ student'.balance = l.after]_vars

(***************************************************************************)
(* A dismissed student carries no opportunities, and only a dismissed one  *)
(* has scores held: whatever lifts a dismissal settles them.               *)
(***************************************************************************)
HeldOnlyWhileDismissed ==
  /\ student.status = "dismissed" => student.balance = 0
  /\ student.status = "active" => held = NoHeld

(***************************************************************************)
(* As opportunity-balance.ts words it, a movement by hand dismisses only a *)
(* student who has nothing left.  It does not hold: the undo of an undo    *)
(* quotes the marker of the first movement.                                *)
(***************************************************************************)
DismissalNeedsEmptyBalance ==
  [][student.status = "active" /\ student'.status = "dismissed"
     /\ student'.why.rule = "hand" => student.balance = 0]_vars
=============================================================================
