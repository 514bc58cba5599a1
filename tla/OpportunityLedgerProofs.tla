------------------------ MODULE OpportunityLedgerProofs ------------------------
(***************************************************************************)
(* Theorems about OpportunityLedger for every chapter, every sequence of   *)
(* results and commands and every length of the run.                       *)
(***************************************************************************)
EXTENDS OpportunityLedger, AcademicReplayProofs

(* What every operation hands to the next: a file of four parts. *)
IsFile(f) ==
  f = [rows |-> f.rows, log |-> f.log, student |-> f.student, held |-> f.held]

(* The student of a file as a replay leaves one. *)
Decided(st) ==
  /\ st.status \in {"active", "dismissed"}
  /\ st.status = "dismissed" => st.balance = 0

IInv == Decided(student) /\ (student.status = "active" => held = NoHeld)

-----------------------------------------------------------------------------
(* A file with another part. *)
LEMMA FileWithRows ==
  ASSUME NEW f, IsFile(f), NEW x
  PROVE  [f EXCEPT !.rows = x] =
           [rows |-> x, log |-> f.log, student |-> f.student, held |-> f.held]
BY DEF IsFile

LEMMA FileWithLog ==
  ASSUME NEW f, IsFile(f), NEW x
  PROVE  [f EXCEPT !.log = x] =
           [rows |-> f.rows, log |-> x, student |-> f.student, held |-> f.held]
BY DEF IsFile

LEMMA FileWithStudent ==
  ASSUME NEW f, IsFile(f), NEW x
  PROVE  [f EXCEPT !.student = x] =
           [rows |-> f.rows, log |-> f.log, student |-> x, held |-> f.held]
BY DEF IsFile

(* Whatever was stored, a replay decides: it never leaves a dismissed
   student a balance (recalculateAcademicState's last lines). *)
LEMMA ReplayDecides ==
  ASSUME NEW rs, NEW l, NEW st
  PROVE  Decided(Replay(rs, l, st))
BY DEF Replay, Saved, Decided

LEMMA ReplayFileDecides ==
  ASSUME NEW f, IsFile(f)
  PROVE  /\ IsFile(ReplayFile(f))
         /\ Decided(ReplayFile(f).student)
         /\ ReplayFile(f).held = f.held
<1>1. ReplayFile(f) = [rows |-> f.rows, log |-> f.log,
                       student |-> Replay(f.rows, f.log, f.student), held |-> f.held]
  BY FileWithStudent DEF ReplayFile
<1>2. Decided(Replay(f.rows, f.log, f.student))
  BY ReplayDecides
<1> QED
  BY <1>1, <1>2 DEF IsFile

(* settleHeldGradesOfActiveStudents empties the held scores. *)
LEMMA SettledHoldsNone ==
  ASSUME NEW f, NEW at, IsFile(f)
  PROVE  IsFile(Settled(f, at)) /\ Settled(f, at).held = NoHeld
         /\ Settled(f, at).student = f.student /\ Settled(f, at).log = f.log
<1> DEFINE g == HeldBecomeRows(f, at)
<1> HIDE DEF g
<1>1. g = [rows |-> g.rows, log |-> f.log, student |-> f.student, held |-> f.held]
  BY DEF HeldBecomeRows, IsFile, g
<1>2. Settled(f, at) = [g EXCEPT !.held = NoHeld]
  BY DEF Settled, g
<1>3. Settled(f, at) = [rows |-> g.rows, log |-> f.log, student |-> f.student, held |-> NoHeld]
  BY <1>1, <1>2
<1> QED
  BY <1>3 DEF IsFile

(* A recalculation leaves no score held for a student it made active. *)
LEMMA RecalculatedDecides ==
  ASSUME NEW f, NEW at, IsFile(f)
  PROVE  /\ IsFile(Recalculated(f, at))
         /\ Decided(Recalculated(f, at).student)
         /\ Recalculated(f, at).student.status = "active" => Recalculated(f, at).held = NoHeld
<1> DEFINE once == ReplayFile(f)
<1> HIDE DEF once
<1>1. IsFile(once) /\ Decided(once.student)
  BY ReplayFileDecides DEF once
<1>2. Recalculated(f, at) = Returned(once, at)
  BY DEF Recalculated, once
<1>3. CASE once.student.status = "active" /\ once.held # NoHeld
  <2> DEFINE settled == Settled(once, at)
  <2> HIDE DEF settled
  <2>1. IsFile(settled) /\ settled.held = NoHeld
    BY <1>1, SettledHoldsNone DEF settled
  <2>2. Returned(once, at) = ReplayFile(settled)
    BY <1>3 DEF Returned, settled
  <2> QED
    BY <1>2, <2>1, <2>2, ReplayFileDecides
<1>4. CASE ~(once.student.status = "active" /\ once.held # NoHeld)
  BY <1>1, <1>2, <1>4 DEF Returned
<1> QED
  BY <1>3, <1>4

LEMMA BecomeDecides ==
  ASSUME NEW f, NEW at, IsFile(f), Become(Recalculated(f, at))
  PROVE  IInv'
BY RecalculatedDecides DEF Become, IInv, Decided

-----------------------------------------------------------------------------
(* One step per action: all but HoldScore, Restore and NextDay end with a
   recalculation; HoldScore holds for a dismissed student, and Restore
   settles before it makes the student active. *)
LEMMA StepDecides ==
  ASSUME IInv, [Next]_vars
  PROVE  IInv'
<1>1. ASSUME NEW e \in Exams, NEW res, Write(e, res)
      PROVE  IInv'
  <2>1. IsFile([File EXCEPT !.rows = Written(e, res)])
    BY DEF IsFile, File
  <2> QED
    BY <1>1, <2>1, BecomeDecides DEF Write
<1>2. ASSUME NEW e \in Exams, NEW res, Enter(e, res)
      PROVE  IInv'
  <2>1. CASE EnterActive(e, res)
    BY <1>1, <2>1 DEF EnterActive
  <2>2. CASE CorrectDismissed(e, res)
    BY <1>1, <2>2 DEF CorrectDismissed
  <2>3. CASE EnterDismissed(e, res)
    <3>1. student.status = "dismissed" /\ (Write(e, res) \/ HoldScore(e, res))
      BY <2>3 DEF EnterDismissed
    <3>2. CASE Write(e, res)
      BY <1>1, <3>2
    <3>3. CASE HoldScore(e, res)
      BY <3>1, <3>3 DEF HoldScore, IInv, Decided
    <3> QED
      BY <3>1, <3>2, <3>3
  <2> QED
    BY <1>2, <2>1, <2>2, <2>3 DEF Enter
<1>3. ASSUME NEW e \in Exams, DeleteGrade(e)
      PROVE  IInv'
  <2>1. IsFile([File EXCEPT !.rows[e] = NoRow])
    BY DEF IsFile, File
  <2> QED
    BY <1>3, <2>1, BecomeDecides DEF DeleteGrade
<1>4. ASSUME NEW f, NEW entry, IsFile(f), Record(f, entry)
      PROVE  IInv'
  <2>1. IsFile([f EXCEPT !.log = Append(@, entry)])
    BY <1>4 DEF IsFile
  <2> QED
    BY <1>4, <2>1, BecomeDecides DEF Record
<1>5. ASSUME Command
      PROVE  IInv'
  <2> DEFINE f == Recalculated(File, Now)
  <2> HIDE DEF f
  <2>1. IsFile(File)
    BY DEF IsFile, File
  <2>2. IsFile(f)
    BY <2>1, RecalculatedDecides DEF f
  <2>3. \E entry : Record(f, entry)
    BY <1>5 DEF Command, f
  <2> QED
    BY <1>4, <2>2, <2>3
<1>6. ASSUME NEW n, Restore(n)
      PROVE  IInv'
  <2> DEFINE f == Settled(File, Now)
             st == [f.student EXCEPT !.status = "active", !.why = NoWhy, !.balance = n]
             entry == [NewEntry("grant", n, n) EXCEPT !.settled = IdsOf(f.rows)]
  <2> HIDE DEF f
  <2>1. IsFile(File)
    BY DEF IsFile, File
  <2>2. IsFile(f) /\ f.held = NoHeld
    BY <2>1, SettledHoldsNone DEF f
  <2>3. Become([f EXCEPT !.student = st, !.log = Append(@, entry)])
    BY <1>6 DEF Restore, f
  <2>4. student' = st /\ held' = NoHeld
    BY <2>2, <2>3 DEF Become, IsFile
  <2>5. st.status \in {"active"} \cup {f.student.status}
    OBVIOUS
  <2> QED
    BY <2>4, <2>5 DEF IInv, Decided
<1>7. CASE NextDay
  BY <1>7 DEF NextDay, IInv, Decided
<1>8. CASE UNCHANGED vars
  BY <1>8 DEF vars, IInv, Decided
<1> QED
  BY <1>2, <1>3, <1>5, <1>6, <1>7, <1>8 DEF Next

(***************************************************************************)
(* Nothing stays held for an active student and a dismissed one carries no *)
(* opportunity, after any operation on results, commands and returns.      *)
(***************************************************************************)
THEOREM HeldSettled == Spec => []HeldOnlyWhileDismissed
<1>1. Init => IInv
  BY DEF Init, IInv, Decided
<1>2. IInv /\ [Next]_vars => IInv'
  BY StepDecides
<1>3. IInv => HeldOnlyWhileDismissed
  BY DEF IInv, Decided, HeldOnlyWhileDismissed
<1> QED
  BY <1>1, <1>2, <1>3, PTL DEF Spec

-----------------------------------------------------------------------------
(***************************************************************************)
(* Types: every operation writes a well-typed file, because a replay of    *)
(* one leaves a student (ReplayIsStudent).                                 *)
(***************************************************************************)
IsTypedFile(f) ==
  /\ IsFile(f)
  /\ IsLedger(f.rows, f.log)
  /\ f.student \in Student
  /\ f.held \in [Exams -> Scores \cup {"none"}]

LEMMA FileIsTyped ==
  TypeOK => IsTypedFile(File)
BY DEF TypeOK, IsTypedFile, IsFile, IsLedger, File

LEMMA ReplayFileTyped ==
  ASSUME ReplayAssumption, NEW f, IsTypedFile(f)
  PROVE  IsTypedFile(ReplayFile(f))
<1>1. ReplayFile(f) = [rows |-> f.rows, log |-> f.log,
                       student |-> Replay(f.rows, f.log, f.student), held |-> f.held]
  BY FileWithStudent DEF ReplayFile, IsTypedFile
<1>2. Replay(f.rows, f.log, f.student) \in Student
  BY ReplayIsStudent DEF IsTypedFile
<1> QED
  BY <1>1, <1>2 DEF IsTypedFile, IsFile

LEMMA SettledTyped ==
  ASSUME NEW f, IsTypedFile(f), NEW at \in Nat
  PROVE  IsTypedFile(Settled(f, at))
<1>1. RowsOfHeld(f, at) \in [Exams -> Row]
  BY DEF RowsOfHeld, IsTypedFile, IsLedger, Row, Scores
<1>2. HeldBecomeRows(f, at) =
        [rows |-> RowsOfHeld(f, at), log |-> f.log, student |-> f.student, held |-> f.held]
  BY DEF HeldBecomeRows, IsTypedFile, IsFile
<1>3. Settled(f, at) =
        [rows |-> RowsOfHeld(f, at), log |-> f.log, student |-> f.student, held |-> NoHeld]
  BY <1>2 DEF Settled
<1>4. NoHeld \in [Exams -> Scores \cup {"none"}]
  BY DEF NoHeld
<1> QED
  BY <1>1, <1>3, <1>4 DEF IsTypedFile, IsFile, IsLedger

LEMMA RecalculatedTyped ==
  ASSUME ReplayAssumption, NEW f, IsTypedFile(f), NEW at \in Nat
  PROVE  IsTypedFile(Recalculated(f, at))
<1>1. IsTypedFile(ReplayFile(f))
  BY ReplayFileTyped
<1>2. IsTypedFile(Settled(ReplayFile(f), at))
  BY <1>1, SettledTyped
<1>3. IsTypedFile(ReplayFile(Settled(ReplayFile(f), at)))
  BY <1>2, ReplayFileTyped
<1> QED
  BY <1>1, <1>3 DEF Recalculated, Returned

LEMMA BecomeTyped ==
  ASSUME TypeOK, UNCHANGED today, NEW f, IsTypedFile(f), Become(f)
  PROVE  TypeOK'
BY DEF TypeOK, IsTypedFile, IsLedger, Become

LEMMA NowIsMoment ==
  ASSUME ReplayAssumption, LedgerAssumption, TypeOK
  PROVE  Now \in Nat
<1>1. today \in Nat /\ DayLength \in Nat
  BY DEF TypeOK, ReplayAssumption, LedgerAssumption
<1>2. Len(log) \in Nat
  BY DEF TypeOK
<1>3. today * DayLength \in Nat
  BY <1>1
<1> QED
  BY <1>2, <1>3 DEF Now

-----------------------------------------------------------------------------
(* The entries of the commands *)

LEMMA NewEntryTyped ==
  ASSUME Now \in Nat, NEW action \in {"add", "deduct", "reset", "grant"},
         NEW applied \in Nat, NEW after \in Nat
  PROVE  NewEntry(action, applied, after) \in Entry
BY DEF NewEntry, Entry

LEMMA MovementsTyped ==
  ASSUME ReplayAssumption, Now \in Nat, NEW b \in Nat, NEW n \in Nat
  PROVE  Added(b, n) \in Entry /\ Deducted(b, n) \in Entry
<1>1. /\ Cap \in Nat /\ Less(Cap, b) \in Nat /\ Less(b, n) \in Nat
      /\ Smaller(n, Less(Cap, b)) \in Nat /\ Smaller(n, b) \in Nat /\ Capped(b + n) \in Nat
  BY DEF ReplayAssumption, Less, Smaller, Capped
<1>2. Added(b, n) \in Entry
  BY <1>1, NewEntryTyped DEF Added
<1>3. NewEntry("deduct", Smaller(n, b), Less(b, n)) \in Entry
  BY <1>1, NewEntryTyped
<1>4. Deducted(b, n) \in Entry
  BY <1>3 DEF Deducted, Entry
<1> QED
  BY <1>2, <1>4

LEMMA SettlingTyped ==
  ASSUME Now \in Nat, NEW entry \in Entry, NEW rs \in [Exams -> Row]
  PROVE  [entry EXCEPT !.settled = IdsOf(rs)] \in Entry
<1>1. IdsOf(rs) \in SUBSET (Exams \X Nat)
  BY DEF IdsOf, Entered, Row
<1> QED
  BY <1>1 DEF Entry

LEMMA RecordTyped ==
  ASSUME ReplayAssumption, LedgerAssumption, TypeOK, UNCHANGED today,
         NEW f, IsTypedFile(f), NEW entry \in Entry, Record(f, entry)
  PROVE  TypeOK'
<1> DEFINE g == [f EXCEPT !.log = Append(@, entry)]
<1>1. g = [rows |-> f.rows, log |-> Append(f.log, entry), student |-> f.student, held |-> f.held]
  BY FileWithLog DEF IsTypedFile
<1>2. Append(f.log, entry) \in Seq(Entry)
  BY DEF IsTypedFile, IsLedger
<1> HIDE DEF g
<1>3. IsTypedFile(g)
  BY <1>1, <1>2 DEF IsTypedFile, IsFile, IsLedger
<1>4. Now + 1 \in Nat
  BY NowIsMoment
<1>5. IsTypedFile(Recalculated(g, Now + 1))
  BY <1>3, <1>4, RecalculatedTyped
<1> QED
  BY <1>5, BecomeTyped DEF Record, g

-----------------------------------------------------------------------------
(* What a command may record over the balance b: a reset, or a movement of some amount. *)
IsReset(entry, rs) == entry.action = "reset" /\ entry.after = Cap /\ entry.settled = IdsOf(rs)

IsAddition(entry, b) ==
  /\ entry.action = "add"
  /\ \E n \in Nat : entry.applied = Smaller(n, Less(Cap, b)) /\ entry.after = Capped(b + n)

IsDeduction(entry, b) ==
  /\ entry.action = "deduct"
  /\ \E n \in Nat : entry.applied = Smaller(n, b) /\ entry.after = Less(b, n)
  /\ entry.violation /\ entry.undoes = 0 => b = 0

Recordable(entry, f) ==
  /\ entry \in Entry /\ entry.at = Now + 1 /\ entry.settled \subseteq IdsOf(f.rows)
  /\ \/ IsReset(entry, f.rows)
     \/ IsAddition(entry, f.student.balance)
     \/ IsDeduction(entry, f.student.balance)

LEMMA MovementsRecordable ==
  ASSUME ReplayAssumption, Now \in Nat, NEW b \in Nat, NEW n \in Nat
  PROVE  /\ IsAddition(Added(b, n), b) /\ Added(b, n).at = Now + 1 /\ Added(b, n).settled = {}
         /\ IsDeduction(Deducted(b, n), b) /\ Deducted(b, n).at = Now + 1
         /\ Deducted(b, n).settled = {}
         /\ Deducted(b, n).violation <=> b = 0
<1>1. Added(b, n).action = "add" /\ Added(b, n).applied = Smaller(n, Less(Cap, b))
      /\ Added(b, n).after = Capped(b + n) /\ Added(b, n).at = Now + 1
      /\ Added(b, n).settled = {}
  BY DEF Added, NewEntry
<1>2. Deducted(b, n).action = "deduct" /\ Deducted(b, n).applied = Smaller(n, b)
      /\ Deducted(b, n).after = Less(b, n) /\ Deducted(b, n).at = Now + 1
      /\ Deducted(b, n).violation = (b = 0) /\ Deducted(b, n).settled = {}
  BY DEF Deducted, NewEntry
<1> QED BY <1>1, <1>2 DEF IsAddition, IsDeduction

(* The ledger is recalculated, and a typed entry recorded over it. *)
LEMMA CommandRecords ==
  ASSUME ReplayAssumption, LedgerAssumption, TypeOK, Command
  PROVE  LET f == Recalculated(File, Now) IN
         /\ UNCHANGED today /\ f.student.status = "active"
         /\ \E entry \in Entry : Recordable(entry, f) /\ Record(f, entry)
<1> DEFINE f == Recalculated(File, Now)
           b == f.student.balance
<1>1. Now \in Nat /\ IsTypedFile(f)
  BY NowIsMoment, FileIsTyped, RecalculatedTyped
<1> HIDE DEF f
<1>2. b \in Nat /\ f.rows \in [Exams -> Row]
  BY <1>1 DEF IsTypedFile, IsLedger, Student
<1> HIDE DEF b
<1>3. ASSUME NEW n \in Nat
      PROVE  /\ Added(b, n) \in Entry /\ IsAddition(Added(b, n), b) /\ Added(b, n).at = Now + 1
             /\ Added(b, n).settled = {} /\ Deducted(b, n).settled = {}
             /\ Deducted(b, n) \in Entry /\ IsDeduction(Deducted(b, n), b)
             /\ Deducted(b, n).at = Now + 1
  BY <1>1, <1>2, MovementsTyped, MovementsRecordable
<1>4. ASSUME NEW n \in Amounts
      PROVE  Recordable(Added(b, n), f) /\ Recordable(Deducted(b, n), f)
  BY <1>3 DEF Recordable, LedgerAssumption, b
<1>5. Recordable(ResetEntry(f), f)
  <2>1. NewEntry("reset", 0, Cap) \in Entry
    BY <1>1, NewEntryTyped DEF ReplayAssumption
  <2>2. ResetEntry(f) \in Entry
    BY <1>1, <1>2, <2>1, SettlingTyped DEF ResetEntry
  <2>3. ResetEntry(f).action = "reset" /\ ResetEntry(f).after = Cap /\ ResetEntry(f).at = Now + 1
        /\ ResetEntry(f).settled = IdsOf(f.rows)
    BY DEF ResetEntry, NewEntry
  <2> QED BY <2>2, <2>3 DEF Recordable, IsReset
<1>6. ASSUME NEW i \in DOMAIN log, log[i].action \in {"add", "deduct"}
      PROVE  Recordable(Undoing(b, i), f)
  <2>1. log[i] \in Entry /\ i \in Nat \ {0}
    BY EntriesAreTyped DEF TypeOK
  <2>2. log[i].applied \in Nat /\ log[i].violation \in BOOLEAN
    BY <2>1 DEF Entry
  <2> DEFINE opposite == IF log[i].action = "deduct" THEN Added(b, log[i].applied)
                         ELSE Deducted(b, log[i].applied)
             undo == [opposite EXCEPT !.undoes = i, !.violation = log[i].violation]
  <2>3. opposite \in Entry /\ opposite.at = Now + 1 /\ opposite.settled = {}
        /\ (IsAddition(opposite, b) \/ IsDeduction(opposite, b))
    BY <1>3, <2>2
  <2>4. Undoing(b, i) = undo
    BY DEF Undoing
  <2> HIDE DEF opposite
  <2>5. undo \in Entry /\ undo.undoes = i /\ undo.at = opposite.at /\ undo.action = opposite.action
        /\ undo.applied = opposite.applied /\ undo.after = opposite.after
        /\ undo.settled = opposite.settled
    BY <2>1, <2>2, <2>3 DEF Entry
  <2> HIDE DEF undo
  <2>6. IsAddition(undo, b) \/ IsDeduction(undo, b)
    BY <2>1, <2>3, <2>5 DEF IsAddition, IsDeduction
  <2> QED BY <2>3, <2>4, <2>5, <2>6 DEF Recordable, b
<1>7. \E entry : Recordable(entry, f) /\ Record(f, entry)
  BY <1>4, <1>5, <1>6 DEF Command, f, b
<1>8. UNCHANGED today /\ f.student.status = "active"
  BY DEF Command, f
<1> QED BY <1>7, <1>8 DEF f, Recordable

LEMMA StepIsTyped ==
  ASSUME ReplayAssumption, LedgerAssumption, TypeOK, [Next]_vars
  PROVE  TypeOK'
<1>0. Now \in Nat /\ IsTypedFile(File)
  BY NowIsMoment, FileIsTyped
<1>1. ASSUME NEW e \in Exams, NEW res \in Scores \cup Marks, Write(e, res), UNCHANGED today
      PROVE  TypeOK'
  <2> DEFINE f == [File EXCEPT !.rows = Written(e, res)]
  <2>1. f = [rows |-> Written(e, res), log |-> log, student |-> student, held |-> held]
    <3>1. f = [File EXCEPT !.rows = Written(e, res)]
      OBVIOUS
    <3> HIDE DEF f
    <3> QED
      BY <1>0, <3>1, FileWithRows DEF IsTypedFile, File
  <2>2. Written(e, res) \in [Exams -> Row]
    BY <1>0 DEF Written, Row, TypeOK
  <2> HIDE DEF f
  <2>3. IsTypedFile(f)
    BY <2>1, <2>2 DEF IsTypedFile, IsFile, IsLedger, TypeOK
  <2>4. IsTypedFile(Recalculated(f, Now))
    BY <1>0, <2>3, RecalculatedTyped
  <2> QED
    BY <1>1, <2>4, BecomeTyped DEF Write, f
<1>2. ASSUME NEW e \in Exams, NEW res \in Scores \cup Marks, Enter(e, res)
      PROVE  TypeOK'
  <2>1. UNCHANGED today
    BY <1>2 DEF Enter
  <2>2. CASE Write(e, res)
    BY <1>1, <2>1, <2>2
  <2>3. CASE res \in Scores /\ HoldScore(e, res)
    BY <2>1, <2>3 DEF HoldScore, TypeOK
  <2> QED
    BY <1>2, <2>2, <2>3 DEF Enter, EnterActive, CorrectDismissed, EnterDismissed
<1>3. ASSUME NEW e \in Exams, DeleteGrade(e)
      PROVE  TypeOK'
  <2> DEFINE f == [File EXCEPT !.rows[e] = NoRow]
  <2>1. f = [rows |-> [rows EXCEPT ![e] = NoRow], log |-> log, student |-> student, held |-> held]
    <3>1. f = [File EXCEPT !.rows = [rows EXCEPT ![e] = NoRow]]
      BY DEF File
    <3> HIDE DEF f
    <3> QED
      BY <1>0, <3>1, FileWithRows DEF IsTypedFile, File
  <2>2. [rows EXCEPT ![e] = NoRow] \in [Exams -> Row]
    BY DEF NoRow, Row, TypeOK
  <2> HIDE DEF f
  <2>3. IsTypedFile(f)
    BY <2>1, <2>2 DEF IsTypedFile, IsFile, IsLedger, TypeOK
  <2>4. IsTypedFile(Recalculated(f, Now))
    BY <1>0, <2>3, RecalculatedTyped
  <2> QED
    BY <1>3, <2>4, BecomeTyped DEF DeleteGrade, f
<1>4. ASSUME Command
      PROVE  TypeOK'
  <2>1. IsTypedFile(Recalculated(File, Now))
    BY <1>0, RecalculatedTyped
  <2> QED
    BY <1>4, <2>1, CommandRecords, RecordTyped
<1>5. ASSUME NEW n \in Amounts, Restore(n)
      PROVE  TypeOK'
  <2> DEFINE f == Settled(File, Now)
             st == [f.student EXCEPT !.status = "active", !.why = NoWhy, !.balance = n]
             entry == [NewEntry("grant", n, n) EXCEPT !.settled = IdsOf(f.rows)]
             g == [f EXCEPT !.student = st, !.log = Append(@, entry)]
  <2>1. IsTypedFile(f)
    BY <1>0, SettledTyped
  <2>2. Become(g) /\ UNCHANGED today
    BY <1>5 DEF Restore
  <2> HIDE DEF f
  <2>3. g = [rows |-> f.rows, log |-> Append(f.log, entry), student |-> st, held |-> f.held]
    <3> DEFINE h == [f EXCEPT !.student = st]
               l == Append(f.log, entry)
    <3>1. h = [rows |-> f.rows, log |-> f.log, student |-> st, held |-> f.held]
      BY <2>1, FileWithStudent DEF IsTypedFile
    <3>2. g = [h EXCEPT !.log = l]
      BY <3>1
    <3> HIDE DEF g, h, l
    <3>3. [h EXCEPT !.log = l] = [rows |-> f.rows, log |-> l, student |-> st, held |-> f.held]
      BY <3>1, FileWithLog DEF IsFile
    <3> QED
      BY <3>2, <3>3 DEF l
  <2>4. n \in Nat
    BY DEF LedgerAssumption
  <2>5. entry \in Entry
    <3>1. NewEntry("grant", n, n) \in Entry
      BY <1>0, <2>4, NewEntryTyped
    <3> QED
      BY <1>0, <2>1, <3>1, SettlingTyped DEF IsTypedFile, IsLedger
  <2>6. st \in Student
    BY <2>1, <2>4 DEF IsTypedFile, Student, NoWhy, Why
  <2> HIDE DEF g, st, entry
  <2>7. IsTypedFile(g)
    BY <2>1, <2>3, <2>5, <2>6 DEF IsTypedFile, IsFile, IsLedger
  <2> QED
    BY <2>2, <2>7, BecomeTyped
<1>6. CASE NextDay
  BY <1>6 DEF NextDay, TypeOK, LedgerAssumption
<1>7. CASE UNCHANGED vars
  BY <1>7 DEF vars, TypeOK
<1> QED
  BY <1>2, <1>3, <1>4, <1>5, <1>6, <1>7 DEF Next

LEMMA InitIsTyped ==
  ASSUME ReplayAssumption, LedgerAssumption, Init
  PROVE  TypeOK
<1>1. today \in 1..MaxDay /\ log \in Seq(Entry) /\ held \in [Exams -> Scores \cup {"none"}]
  BY DEF Init, LedgerAssumption, NoHeld
<1>2. rows \in [Exams -> Row] /\ student \in Student
  BY DEF Init, Row, NoRow, Student, NoWhy, Why, ReplayAssumption
<1> QED
  BY <1>1, <1>2 DEF TypeOK

(***************************************************************************)
(* Every replay of a well-typed ledger, of any length, leaves a student    *)
(* and every operation writes typed rows and entries.                      *)
(***************************************************************************)
THEOREM TypeCorrect == Spec => []TypeOK
<1>1. Init => TypeOK
  BY ReplayAssumption, LedgerAssumption, InitIsTyped
<1>2. TypeOK /\ [Next]_vars => TypeOK'
  BY ReplayAssumption, LedgerAssumption, StepIsTyped
<1> QED
  BY <1>1, <1>2, PTL DEF Spec

(***************************************************************************)
(* In every chapter and whatever was entered, corrected, deleted, added,   *)
(* deducted or undone, the replay never gives back by bonuses what an      *)
(* administrator took by hand.                                             *)
(***************************************************************************)
THEOREM ManualLoss == Spec => []ManualLossStays
<1>1. TypeOK => ManualLossStays
  BY ReplayAssumption, ReplayIsSound DEF TypeOK, IsLedger, ManualLossStays, Sound, Balanced
<1> QED
  BY <1>1, TypeCorrect, PTL

-----------------------------------------------------------------------------
(***************************************************************************)
(* What is saved is the replay of what is stored.                          *)
(***************************************************************************)
(* The exams a file knows of, and that they have been held. *)
KnownExams(f) == {e \in Exams : f.rows[e].res # "none" \/ f.held[e] # "none"}
Past(f) == \A e \in KnownExams(f) : DayOf[e] <= today

(* The student of a file is the replay of it. *)
IsReplay(f) == Replay(f.rows, f.log, f.student) = f.student

ReplayInv == IsReplay(File) /\ Fits(rows, student) /\ Past(File)

LEMMA ReplayFileIsReplay ==
  ASSUME NEW f, IsTypedFile(f), NoneByHand(f.student)
  PROVE  LET g == ReplayFile(f) IN
         /\ IsReplay(g) /\ Fits(g.rows, g.student)
         /\ g.rows = f.rows /\ g.log = f.log /\ g.held = f.held
<1>1. ReplayFile(f) = [rows |-> f.rows, log |-> f.log,
                       student |-> Replay(f.rows, f.log, f.student), held |-> f.held]
  BY FileWithStudent DEF ReplayFile, IsTypedFile
<1>2. Replay(f.rows, f.log, Replay(f.rows, f.log, f.student)) = Replay(f.rows, f.log, f.student)
      /\ Fits(f.rows, Replay(f.rows, f.log, f.student))
  BY ReplayTwice, ReplayFits DEF IsTypedFile
<1> QED BY <1>1, <1>2 DEF IsReplay

LEMMA SettledKnows ==
  ASSUME NEW f, IsTypedFile(f), NEW at
  PROVE  LET g == Settled(f, at) IN
         /\ KnownExams(g) \subseteq KnownExams(f) /\ Entered(f.rows) \subseteq Entered(g.rows)
         /\ g.student = f.student /\ g.log = f.log /\ g.rows = RowsOfHeld(f, at)
<1>1. Settled(f, at) =
        [rows |-> RowsOfHeld(f, at), log |-> f.log, student |-> f.student, held |-> NoHeld]
  <2>1. HeldBecomeRows(f, at) =
          [rows |-> RowsOfHeld(f, at), log |-> f.log, student |-> f.student, held |-> f.held]
    BY DEF HeldBecomeRows, IsTypedFile, IsFile
  <2> QED BY <2>1 DEF Settled
<1>2. \A e \in Exams : /\ NoHeld[e] = "none"
                       /\ RowsOfHeld(f, at)[e].res = f.rows[e].res
                          \/ (f.rows[e].res = "none" /\ f.held[e] # "none")
  BY DEF NoHeld, RowsOfHeld
<1> QED BY <1>1, <1>2 DEF KnownExams, Entered

(* A recalculation ends with a replay of what it stores. *)
LEMMA RecalculatedIsReplay ==
  ASSUME NEW f, IsTypedFile(f), NoneByHand(f.student), NEW at \in Nat
  PROVE  LET g == Recalculated(f, at) IN
         /\ IsReplay(g) /\ Fits(g.rows, g.student)
         /\ KnownExams(g) \subseteq KnownExams(f) /\ g.log = f.log
<1> DEFINE once == ReplayFile(f)
           settled == Settled(once, at)
<1>1. /\ IsReplay(once) /\ Fits(once.rows, once.student) /\ IsTypedFile(once)
      /\ once.rows = f.rows /\ once.log = f.log /\ once.held = f.held
  BY ReplayFileIsReplay, ReplayFileTyped, ReplayAssumption
<1>2. KnownExams(once) = KnownExams(f)
  BY <1>1 DEF KnownExams
<1> HIDE DEF once
<1>3. /\ KnownExams(settled) \subseteq KnownExams(once) /\ settled.log = once.log
      /\ IsTypedFile(settled) /\ NoneByHand(settled.student)
  BY <1>1, SettledKnows, SettledTyped DEF Fits, NoneByHand
<1> HIDE DEF settled
<1>4. /\ IsReplay(ReplayFile(settled)) /\ Fits(ReplayFile(settled).rows, ReplayFile(settled).student)
      /\ KnownExams(ReplayFile(settled)) = KnownExams(settled)
      /\ ReplayFile(settled).log = settled.log
  BY <1>3, ReplayFileIsReplay DEF KnownExams
<1> QED BY <1>1, <1>2, <1>3, <1>4 DEF Recalculated, Returned, once, settled

LEMMA BecomeIsReplay ==
  ASSUME UNCHANGED today, NEW f, IsTypedFile(f), NoneByHand(f.student), Past(f), NEW at \in Nat,
         Become(Recalculated(f, at))
  PROVE  ReplayInv'
<1> DEFINE g == Recalculated(f, at)
<1>1. IsReplay(g) /\ Fits(g.rows, g.student) /\ Past(g)
  BY RecalculatedIsReplay DEF Past
<1> HIDE DEF g
<1>2. rows' = g.rows /\ log' = g.log /\ student' = g.student /\ held' = g.held
  BY DEF Become, g
<1> QED BY <1>1, <1>2 DEF ReplayInv, IsReplay, Past, KnownExams, File

(* Where nothing is replayed, and the rows and commands stay, what was saved stays right. *)
LEMMA UntouchedIsReplay ==
  ASSUME ReplayInv, UNCHANGED <<rows, log, student>>, today' \in Nat, today <= today', today \in Nat,
         ReplayAssumption, \A e \in Exams : held'[e] # "none" => held[e] # "none" \/ DayOf[e] <= today
  PROVE  ReplayInv'
BY DEF ReplayInv, IsReplay, Past, KnownExams, File, ReplayAssumption

(* The moments of what has been held are past. *)
LEMMA PastIsBefore ==
  ASSUME ReplayAssumption, LedgerAssumption, TypeOK, NEW e \in Exams, DayOf[e] <= today
  PROVE  At(e) <= Now
<1>1. /\ DayOf[e] \in Nat /\ DayLength \in Nat /\ today \in Nat /\ Len(log) \in Nat
  BY DEF ReplayAssumption, LedgerAssumption, TypeOK
<1>2. DayOf[e] * DayLength <= today * DayLength
  BY <1>1
<1>3. DayOf[e] * DayLength \in Nat /\ today * DayLength \in Nat
  BY <1>1
<1> QED BY <1>1, <1>2, <1>3 DEF At, Now

(* restoreDismissedStudentManually replays nothing, and needs not: what it stores is settled. *)
LEMMA RestoreIsReplay ==
  ASSUME ReplayAssumption, LedgerAssumption, TypeOK, ReplayInv, NEW n \in Amounts, Restore(n)
  PROVE  ReplayInv'
<1> DEFINE f == Settled(File, Now)
           st == [f.student EXCEPT !.status = "active", !.why = NoWhy, !.balance = n]
           entry == [NewEntry("grant", n, n) EXCEPT !.settled = IdsOf(f.rows)]
           g == [f EXCEPT !.student = st, !.log = Append(@, entry)]
<1>1. IsTypedFile(File) /\ Now \in Nat /\ n \in Nat
  BY FileIsTyped, NowIsMoment DEF LedgerAssumption
<1>2. /\ IsTypedFile(f) /\ KnownExams(f) \subseteq KnownExams(File)
      /\ Entered(rows) \subseteq Entered(f.rows) /\ f.student = student /\ f.log = log
  BY <1>1, SettledTyped, SettledKnows DEF File
<1>3. Become(g) /\ UNCHANGED today /\ student.status = "dismissed" /\ n <= Cap
  BY DEF Restore
<1> HIDE DEF f
<1>4. g = [rows |-> f.rows, log |-> Append(f.log, entry), student |-> st, held |-> f.held]
  <2> DEFINE h == [f EXCEPT !.student = st]
             l == Append(f.log, entry)
  <2>1. h = [rows |-> f.rows, log |-> f.log, student |-> st, held |-> f.held]
    BY <1>2, FileWithStudent DEF IsTypedFile
  <2>2. g = [h EXCEPT !.log = l]
    BY <2>1
  <2> HIDE DEF g, h, l
  <2>3. [h EXCEPT !.log = l] = [rows |-> f.rows, log |-> l, student |-> st, held |-> f.held]
    BY <2>1, FileWithLog DEF IsFile
  <2> QED BY <2>2, <2>3 DEF l
<1>5. NewEntry("grant", n, n) \in Entry
  BY <1>1, NewEntryTyped
<1>6. entry \in Entry
  BY <1>1, <1>2, <1>5, SettlingTyped DEF IsTypedFile, IsLedger
<1>7. entry.action = "grant" /\ entry.after = n /\ entry.at = Now + 1 /\ entry.settled = IdsOf(f.rows)
  BY DEF NewEntry
<1>8. /\ st \in Student /\ st.status = "active" /\ st.why = NoWhy /\ st.balance = n
      /\ st.progress = student.progress /\ st.bonuses = student.bonuses
      /\ st.dismissals = student.dismissals
  BY <1>1, <1>2 DEF IsTypedFile, Student, NoWhy, Why
<1> HIDE DEF g, st, entry
<1>9. rows' = f.rows /\ log' = Append(log, entry) /\ student' = st /\ held' = f.held
  BY <1>2, <1>3, <1>4 DEF Become
<1>10. Fits(f.rows, st)
  BY <1>2, <1>3, <1>8 DEF ReplayInv, Fits
<1>11. \A e \in KnownExams(f) : DayOf[e] <= today
  BY <1>2 DEF ReplayInv, Past
<1>12. \A e \in Entered(f.rows) : At(e) <= Now + 1
  <2>1. ASSUME NEW e \in Entered(f.rows) PROVE At(e) <= Now + 1
    <3>1. e \in Exams /\ DayOf[e] <= today
      BY <1>11 DEF KnownExams, Entered
    <3>2. At(e) \in Nat
      BY <3>1 DEF At, ReplayAssumption
    <3> QED BY <1>1, <3>1, <3>2, PastIsBefore
  <2> QED BY <2>1
<1>13. IsLedger(f.rows, Append(log, entry))
  BY <1>2, <1>6 DEF IsTypedFile, IsLedger
<1>14. Opening(Append(log, entry)) = entry /\ Pending(Append(log, entry)) = {}
  BY <1>6, <1>7, SettlementOpens DEF TypeOK
<1>15. Replay(f.rows, Append(log, entry), st) = st
  <2> DEFINE l == Append(log, entry)
  <2>1. Opening(l) = entry /\ Pending(l) = {} /\ IsLedger(f.rows, l)
    BY <1>13, <1>14
  <2>2. st.progress = 0
    BY <1>3, <1>8 DEF ReplayInv, Fits
  <2> HIDE DEF l
  <2>3. /\ IdsOf(f.rows) = Opening(l).settled /\ st.balance = Opening(l).after
        /\ st.balance <= Cap /\ \A e \in Entered(f.rows) : At(e) <= Opening(l).at
    BY <1>3, <1>7, <1>8, <1>12, <2>1
  <2>4. Replay(f.rows, l, st) = st
    BY <1>8, <1>10, <2>1, <2>2, <2>3, SettledIsReplay
  <2> QED BY <2>4 DEF l
<1> QED
  BY <1>3, <1>9, <1>10, <1>11, <1>15 DEF ReplayInv, IsReplay, Past, KnownExams, File

LEMMA StepIsReplay ==
  ASSUME ReplayAssumption, LedgerAssumption, TypeOK, ReplayInv, [Next]_vars
  PROVE  ReplayInv'
<1>0. Now \in Nat /\ IsTypedFile(File) /\ NoneByHand(student) /\ Past(File)
      /\ today \in Nat
  BY NowIsMoment, FileIsTyped DEF ReplayInv, Fits, NoneByHand, TypeOK, LedgerAssumption
<1>1. ASSUME NEW e \in Exams, NEW res \in Scores \cup Marks, Write(e, res), UNCHANGED today,
             DayOf[e] <= today
      PROVE  ReplayInv'
  <2> DEFINE f == [File EXCEPT !.rows = Written(e, res)]
  <2>1. f = [rows |-> Written(e, res), log |-> log, student |-> student, held |-> held]
    <3>1. f = [File EXCEPT !.rows = Written(e, res)]
      OBVIOUS
    <3> HIDE DEF f
    <3> QED BY <1>0, <3>1, FileWithRows DEF IsTypedFile, File
  <2>2. Written(e, res) \in [Exams -> Row]
        /\ \A d \in Exams \ {e} : Written(e, res)[d] = rows[d]
    BY <1>0 DEF Written, Row, TypeOK
  <2> HIDE DEF f
  <2>3. IsTypedFile(f) /\ NoneByHand(f.student)
    BY <1>0, <2>1, <2>2 DEF IsTypedFile, IsFile, IsLedger, TypeOK
  <2>4. Past(f)
    BY <1>0, <1>1, <2>1, <2>2 DEF Past, KnownExams, File
  <2> QED BY <1>0, <1>1, <2>3, <2>4, BecomeIsReplay DEF Write, f
<1>2. ASSUME NEW e \in Exams, NEW res \in Scores \cup Marks, Enter(e, res)
      PROVE  ReplayInv'
  <2>1. UNCHANGED today /\ DayOf[e] <= today
    BY <1>2 DEF Enter
  <2>2. CASE Write(e, res)
    BY <1>1, <2>1, <2>2
  <2>3. CASE HoldScore(e, res)
    <3>1. \A d \in Exams \ {e} : held'[d] = held[d]
      BY <2>3 DEF HoldScore, TypeOK
    <3> QED BY <1>0, <2>1, <2>3, <3>1, UntouchedIsReplay DEF HoldScore
  <2> QED
    BY <1>2, <2>2, <2>3 DEF Enter, EnterActive, CorrectDismissed, EnterDismissed
<1>3. ASSUME NEW e \in Exams, DeleteGrade(e)
      PROVE  ReplayInv'
  <2> DEFINE without == [rows EXCEPT ![e] = NoRow]
             f == [File EXCEPT !.rows[e] = NoRow]
  <2>1. f = [rows |-> without, log |-> log, student |-> student, held |-> held]
    <3>1. f = [File EXCEPT !.rows = without]
      BY DEF File
    <3> HIDE DEF f, without
    <3> QED BY <1>0, <3>1, FileWithRows DEF IsTypedFile, File
  <2>2. without \in [Exams -> Row] /\ \A d \in Exams : without[d].res # "none" => rows[d].res # "none"
    BY DEF NoRow, Row, TypeOK
  <2> HIDE DEF f, without
  <2>3. IsTypedFile(f) /\ NoneByHand(f.student)
    BY <1>0, <2>1, <2>2 DEF IsTypedFile, IsFile, IsLedger, TypeOK
  <2>4. Past(f)
    BY <1>0, <2>1, <2>2 DEF Past, KnownExams, File
  <2> QED BY <1>0, <1>3, <2>3, <2>4, BecomeIsReplay DEF DeleteGrade, f
<1>4. ASSUME Command
      PROVE  ReplayInv'
  <2> DEFINE f == Recalculated(File, Now)
             b == f.student.balance
  <2>1. IsTypedFile(f)
    BY <1>0, RecalculatedTyped
  <2>2. NoneByHand(f.student) /\ Past(f)
    <3>1. /\ Fits(f.rows, f.student) /\ KnownExams(f) \subseteq KnownExams(File)
      BY <1>0, RecalculatedIsReplay DEF File
    <3> QED BY <1>0, <3>1 DEF Fits, NoneByHand, Past
  <2>3. UNCHANGED today /\ \E entry \in Entry : Record(f, entry)
    BY <1>0, <1>4, <2>1, CommandRecords
  <2> HIDE DEF f
  <2>4. PICK entry \in Entry : Record(f, entry)
    BY <2>3
  <2> DEFINE g == [f EXCEPT !.log = Append(@, entry)]
  <2>5. g = [rows |-> f.rows, log |-> Append(f.log, entry), student |-> f.student, held |-> f.held]
    BY <2>1, FileWithLog DEF IsTypedFile
  <2> HIDE DEF g
  <2>6. IsTypedFile(g) /\ NoneByHand(g.student) /\ Past(g)
    BY <2>1, <2>2, <2>5 DEF IsTypedFile, IsFile, IsLedger, Past, KnownExams
  <2>7. Now + 1 \in Nat
    BY <1>0
  <2> QED BY <2>3, <2>4, <2>6, <2>7, BecomeIsReplay DEF Record, g
<1>5. ASSUME NEW n \in Amounts, Restore(n)
      PROVE  ReplayInv'
  BY <1>5, RestoreIsReplay
<1>6. CASE NextDay
  BY <1>0, <1>6, UntouchedIsReplay DEF NextDay
<1>7. CASE UNCHANGED vars
  BY <1>0, <1>7, UntouchedIsReplay DEF vars
<1> QED
  BY <1>2, <1>3, <1>4, <1>5, <1>6, <1>7 DEF Next

LEMMA InitIsReplay ==
  ASSUME ReplayAssumption, LedgerAssumption, Init
  PROVE  ReplayInv
<1>1. TypeOK
  BY InitIsTyped
<1>2. Latest(log, {"reset", "grant"}) = 0
  <2>1. log \in Seq(Entry) /\ DOMAIN log = {}
    BY <1>1 DEF TypeOK, Init
  <2> QED BY <2>1, LatestIsPlace
<1>3. Opening(log) = FullBalance /\ Pending(log) = {} /\ IdsOf(rows) = {} /\ Entered(rows) = {}
  BY <1>2 DEF Opening, Pending, Init, IdsOf, Entered, NoRow
<1>4. Fits(rows, student) /\ IsLedger(rows, log)
  BY <1>1 DEF Fits, Init, IsLedger, TypeOK
<1>5. Replay(rows, log, student) = student
  <2>1. student \in Student /\ student.status = "active" /\ student.why = NoWhy
        /\ student.progress = 0 /\ student.balance = Cap
    BY <1>1 DEF Init, TypeOK
  <2>2. Opening(log).settled = {} /\ Opening(log).after = Cap /\ Cap <= Cap
    BY <1>3 DEF FullBalance, ReplayAssumption
  <2> QED BY <1>3, <1>4, <2>1, <2>2, SettledIsReplay
<1>6. Past(File)
  BY DEF Past, KnownExams, File, Init, NoRow, NoHeld
<1> QED BY <1>4, <1>5, <1>6 DEF ReplayInv, IsReplay, File

(***************************************************************************)
(* Whatever was entered, corrected, deleted, added, taken, undone, reset   *)
(* or returned, what is stored of the student is what the rules give for   *)
(* what is stored: another recalculation, at any time, changes nothing.    *)
(***************************************************************************)
THEOREM StoredIsReplay == Spec => [](TypeOK /\ ReplayInv)
<1>1. Init => TypeOK /\ ReplayInv
  BY ReplayAssumption, LedgerAssumption, InitIsTyped, InitIsReplay
<1>2. TypeOK /\ ReplayInv /\ [Next]_vars => TypeOK' /\ ReplayInv'
  BY ReplayAssumption, LedgerAssumption, StepIsTyped, StepIsReplay
<1> QED BY <1>1, <1>2, PTL DEF Spec

THEOREM ReplaySaved == Spec => []SavedIsReplay
<1>1. TypeOK /\ ReplayInv => SavedIsReplay
  BY DEF ReplayInv, IsReplay, File, SavedIsReplay
<1> QED BY <1>1, StoredIsReplay, PTL

(***************************************************************************)
(* Entered the same evening or weeks later, a result that takes no         *)
(* opportunity gives the same student.                                     *)
(***************************************************************************)
THEOREM PlaceIndependent == Spec => []PlaceIndependentOfEntry
<1>1. ASSUME ReplayAssumption, TypeOK, ReplayInv PROVE PlaceIndependentOfEntry
  <2> SUFFICES ASSUME NEW e \in Entered(rows), rows[e].res \in {"pass", "weak"},
                      \A at \in {rows[e].at, At(e)} : <<e, at>> \notin Opening(log).settled
               PROVE  Replay([rows EXCEPT ![e].at = At(e)], log, student) = student
    BY DEF PlaceIndependentOfEntry
  <2>1. At(e) \in Nat
    BY <1>1 DEF At, ReplayAssumption, Entered
  <2>2. IsLedger(rows, log) /\ Replay(rows, log, student) = student
    BY <1>1 DEF TypeOK, IsLedger, ReplayInv, IsReplay, File
  <2> QED BY <2>1, <2>2, EntryIsNotRead
<1> QED BY <1>1, ReplayAssumption, StoredIsReplay, PTL

-----------------------------------------------------------------------------
(***************************************************************************)
(* The balance of the audit trail                                          *)
(***************************************************************************)
(* Nothing entered and nothing recorded is ahead of a moment, and what a
   command settled had been entered before it. *)
Dated(rs, l, now) ==
  /\ \A e \in Exams : rs[e].at <= now
  /\ \A i \in DOMAIN l : l[i].at <= now /\ \A id \in l[i].settled : id[2] < l[i].at

DateInv == Dated(rows, log, Now)

LEMMA LaterIsDated ==
  ASSUME NEW f, IsTypedFile(f), NEW m \in Nat, NEW n \in Nat, m <= n, Dated(f.rows, f.log, m)
  PROVE  Dated(f.rows, f.log, n)
<1>1. \A e \in Exams : f.rows[e].at \in Nat
  BY DEF IsTypedFile, IsLedger, Row
<1>2. \A i \in DOMAIN f.log : f.log[i].at \in Nat
  BY EntriesAreTyped DEF IsTypedFile, IsLedger, Entry
<1> QED BY <1>1, <1>2 DEF Dated

(* A held score becomes a row of the moment it is settled. *)
LEMMA RecalculatedIsDated ==
  ASSUME NEW f, IsTypedFile(f), NEW at \in Nat, Dated(f.rows, f.log, at)
  PROVE  LET g == Recalculated(f, at) IN Dated(g.rows, f.log, at) /\ g.log = f.log
<1> DEFINE once == ReplayFile(f)
           settled == Settled(once, at)
           g == Recalculated(f, at)
<1>1. IsTypedFile(once) /\ once.rows = f.rows /\ once.log = f.log
  <2>1. once = [rows |-> f.rows, log |-> f.log,
                student |-> Replay(f.rows, f.log, f.student), held |-> f.held]
    BY FileWithStudent DEF ReplayFile, IsTypedFile
  <2> QED BY <2>1, ReplayFileTyped, ReplayAssumption
<1>2. g = once \/ g = ReplayFile(settled)
  BY DEF Recalculated, Returned
<1> HIDE DEF once, g
<1>3. IsTypedFile(settled) /\ settled.log = f.log /\ settled.rows = RowsOfHeld(once, at)
  BY <1>1, SettledTyped, SettledKnows
<1> HIDE DEF settled
<1>4. ReplayFile(settled).rows = settled.rows /\ ReplayFile(settled).log = settled.log
  <2>1. ReplayFile(settled) =
          [rows |-> settled.rows, log |-> settled.log,
           student |-> Replay(settled.rows, settled.log, settled.student), held |-> settled.held]
    BY <1>3, FileWithStudent DEF ReplayFile, IsTypedFile
  <2> QED BY <2>1
<1>5. \A e \in Exams : RowsOfHeld(once, at)[e].at = at \/ RowsOfHeld(once, at)[e] = f.rows[e]
  BY <1>1 DEF RowsOfHeld
<1>6. Dated(settled.rows, settled.log, at)
  BY <1>3, <1>5 DEF Dated
<1>7. Dated(g.rows, f.log, at) /\ g.log = f.log
  BY <1>1, <1>2, <1>3, <1>4, <1>6
<1> QED BY <1>7 DEF g

(* The rows of a moment are settled after it. *)
LEMMA SettledIsBefore ==
  ASSUME NEW rs, NEW l, NEW m \in Nat, Dated(rs, l, m), rs \in [Exams -> Row],
         NEW ids, ids \subseteq IdsOf(rs)
  PROVE  \A id \in ids : id[2] < m + 1
<1> SUFFICES ASSUME NEW id \in ids PROVE id[2] < m + 1
  OBVIOUS
<1>1. PICK e \in Exams : id = <<e, rs[e].at>>
  BY DEF IdsOf, Entered
<1>2. id[2] = rs[e].at /\ rs[e].at \in Nat /\ rs[e].at <= m
  BY <1>1 DEF Dated, Row
<1> QED BY <1>2

(* Time goes on by days and by commands. *)
LEMMA NowGrows ==
  ASSUME ReplayAssumption, LedgerAssumption, TypeOK,
         today' \in Nat, today' >= today, Len(log') \in Nat, Len(log') >= Len(log)
  PROVE  Now' \in Nat /\ Now' >= Now /\ (today' = today => Now' = Now + (Len(log') - Len(log)))
<1>1. today \in Nat /\ DayLength \in Nat /\ Len(log) \in Nat
  BY DEF ReplayAssumption, LedgerAssumption, TypeOK
<1>2. today * DayLength \in Nat /\ today' * DayLength \in Nat /\ today' * DayLength >= today * DayLength
  <2>1. \A x, y, z \in Nat : x <= y => x * z \in Nat /\ y * z \in Nat /\ y * z >= x * z
    OBVIOUS
  <2> QED BY <1>1, <2>1
<1>3. Now' = today' * DayLength + Len(log')
  BY DEF Now
<1>4. Now = today * DayLength + Len(log)
  BY DEF Now
<1>5. today' = today => today' * DayLength = today * DayLength
  OBVIOUS
<1>6. ASSUME NEW x \in Nat, NEW y \in Nat, NEW m \in Nat, NEW n \in Nat, y >= x, n >= m
      PROVE  y + n \in Nat /\ y + n >= x + m /\ (y = x => y + n = x + m + (n - m))
  BY <1>6
<1> DEFINE past == today * DayLength
           next == today' * DayLength
           count == Len(log)
           more == Len(log')
<1>7. /\ past \in Nat /\ next \in Nat /\ next >= past /\ (today' = today => next = past)
      /\ count \in Nat /\ more \in Nat /\ more >= count /\ Now = past + count /\ Now' = next + more
  BY <1>1, <1>2, <1>3, <1>4, <1>5
<1> HIDE DEF past, next
<1>8. /\ next + more \in Nat /\ next + more >= past + count
      /\ (next = past => next + more = past + count + (more - count))
  <2> HIDE DEF more, count
  <2> QED BY <1>6, <1>7
<1> QED BY <1>7, <1>8

(* What a command records, and what it saves. *)
LEMMA CommandSaves ==
  ASSUME ReplayAssumption, LedgerAssumption, TypeOK, ReplayInv, DateInv, Command
  PROVE  /\ DateInv'
         /\ \E entry \in Entry :
              /\ log' = Append(log, entry)
              /\ (entry.undoes # 0 /\ entry.violation) \/ student'.balance = entry.after
<1> DEFINE f == Recalculated(File, Now)
<1>1. Now \in Nat /\ IsTypedFile(File) /\ IsTypedFile(f) /\ Len(log) \in Nat
  BY NowIsMoment, FileIsTyped, RecalculatedTyped DEF TypeOK
<1>2. /\ IsReplay(f) /\ f.log = log /\ \A e \in KnownExams(f) : DayOf[e] <= today
  <2>1. NoneByHand(File.student) /\ Past(File) /\ File.log = log
    BY DEF ReplayInv, Fits, NoneByHand, File
  <2> QED BY <1>1, <2>1, RecalculatedIsReplay DEF Past
<1>3. f.student.status = "active" => f.held = NoHeld
  BY <1>1, RecalculatedDecides DEF IsTypedFile
<1>4. Dated(f.rows, log, Now)
  <2>1. Dated(File.rows, File.log, Now) /\ File.log = log
    BY DEF DateInv, File
  <2> QED BY <1>1, <2>1, RecalculatedIsDated
<1>5. UNCHANGED today /\ f.student.status = "active"
      /\ \E entry \in Entry : Recordable(entry, f) /\ Record(f, entry)
  BY CommandRecords
<1> HIDE DEF f
<1>6. PICK entry \in Entry : Recordable(entry, f) /\ Record(f, entry)
  BY <1>5
<1> DEFINE more == Append(log, entry)
           b == f.student.balance
           g == [f EXCEPT !.log = Append(@, entry)]
           s == Replay(f.rows, more, f.student)
<1>7. more \in Seq(Entry) /\ Len(more) = Len(log) + 1 /\ IsLedger(f.rows, log)
      /\ (\A i \in DOMAIN more : more[i] = entry \/ (i \in DOMAIN log /\ more[i] = log[i]))
  BY <1>1, <1>2 DEF IsTypedFile, IsLedger
<1>8. g = [rows |-> f.rows, log |-> more, student |-> f.student, held |-> f.held]
  BY <1>1, <1>2, FileWithLog DEF IsTypedFile
<1> HIDE DEF g, more
<1>9. IsTypedFile(g)
  BY <1>1, <1>7, <1>8 DEF IsTypedFile, IsFile, IsLedger
<1>10. entry.at = Now + 1 /\ Now + 1 \in Nat
  BY <1>1, <1>6 DEF Recordable
<1>11. Become(Recalculated(g, Now + 1))
  BY <1>6 DEF Record, g
<1>12. Dated(f.rows, more, Now + 1)
  <2>1. Dated(f.rows, f.log, Now + 1)
    <3>1. Dated(f.rows, f.log, Now)
      BY <1>2, <1>4
    <3> QED BY <1>1, <1>10, <3>1, LaterIsDated
  <2>2. entry.settled \subseteq IdsOf(f.rows) /\ f.rows \in [Exams -> Row]
    BY <1>1, <1>6 DEF Recordable, IsTypedFile, IsLedger
  <2>3. \A id \in entry.settled : id[2] < entry.at
    BY <1>1, <1>4, <1>10, <2>2, SettledIsBefore
  <2>4. ASSUME NEW i \in DOMAIN more
        PROVE  more[i].at <= Now + 1 /\ \A id \in more[i].settled : id[2] < more[i].at
    <3>1. CASE more[i] = entry
      BY <1>10, <2>3, <3>1
    <3>2. CASE i \in DOMAIN log /\ more[i] = log[i]
      BY <1>2, <2>1, <3>2 DEF Dated
    <3> QED BY <1>7, <3>1, <3>2
  <2> QED BY <2>1, <2>4 DEF Dated
<1>13. rows' = Recalculated(g, Now + 1).rows /\ log' = more /\ Dated(rows', more, Now + 1)
  <2>1. Dated(g.rows, g.log, Now + 1) /\ g.log = more
    BY <1>8, <1>12
  <2> QED BY <1>9, <1>10, <1>11, <2>1, RecalculatedIsDated DEF Become
<1>14. Now' = Now + 1
  <2>1. Len(log') = Len(log) + 1 /\ Len(log') >= Len(log) /\ Len(log') \in Nat
    BY <1>1, <1>7, <1>13
  <2>2. today' = today /\ today' \in Nat /\ today' >= today
    BY <1>5 DEF TypeOK, LedgerAssumption
  <2> QED BY <1>1, <2>1, <2>2, NowGrows
<1>15. DateInv'
  BY <1>13, <1>14 DEF DateInv
<1>16. student' = s
  <2>1. ReplayFile(g) = [rows |-> f.rows, log |-> more, student |-> s, held |-> f.held]
    BY <1>8, <1>9, FileWithStudent DEF ReplayFile, IsTypedFile
  <2>2. ReplayFile(g).held = NoHeld
    BY <1>3, <1>5, <2>1
  <2>3. Recalculated(g, Now + 1) = ReplayFile(g)
    BY <2>2 DEF Recalculated, Returned
  <2> QED BY <1>11, <2>1, <2>3 DEF Become
<1>17. \A e \in Entered(f.rows) : At(e) <= Now /\ f.rows[e].at <= Now
  <2>1. ASSUME NEW e \in Entered(f.rows) PROVE DayOf[e] <= today /\ e \in Exams
    BY <1>2 DEF KnownExams, Entered
  <2> QED BY <1>4, <2>1, PastIsBefore DEF Dated
<1>18. CASE IsReset(entry, f.rows)
  <2>1. /\ Opening(more) = entry /\ Pending(more) = {} /\ IsLedger(f.rows, more)
        /\ entry.after = Cap /\ entry.settled = IdsOf(f.rows)
    BY <1>7, <1>18, SettlementOpens DEF IsReset, TypeOK, more, IsLedger
  <2> DEFINE c == WithEvents(Context(f.rows, more))
  <2>2. c.open = entry
    BY <2>1, LedgerIsHistory
  <2> HIDE DEF c
  <2>3. Replayed(f.rows, more, f.student) = Beginning(c, f.student)
    BY <2>1, SettledStays DEF c
  <2>4. Beginning(c, f.student).bal = Capped(Cap) /\ Beginning(c, f.student).gone = FALSE
    BY <2>1, <2>2 DEF Beginning
  <2>5. Capped(Capped(Cap)) = Cap
    BY DEF Capped, Smaller, ReplayAssumption
  <2>6. s.balance = Cap
    BY <1>5, <2>3, <2>4, <2>5 DEF Replay, Saved
  <2> QED BY <1>13, <1>15, <1>16, <2>1, <2>6 DEF more
<1>19. ASSUME entry.action \in {"add", "deduct"}
       PROVE  /\ b \in Nat /\ b <= Cap
              /\ entry.action = "add" => s.balance = Capped(b + entry.applied)
              /\ entry.action = "deduct" /\ (entry.violation => b = 0) /\ (entry.applied > 0 => b > 0)
                   => s.balance = Less(b, entry.applied)
  <2>1. Replay(f.rows, log, f.student) = f.student /\ Now < entry.at
        /\ \A i \in DOMAIN log : log[i].at <= Now
    BY <1>1, <1>2, <1>4, <1>10 DEF IsReplay, Dated
  <2> DEFINE st == f.student
             rs == f.rows
             now == Now
  <2>2. /\ IsLedger(rs, log) /\ now \in Nat /\ now < entry.at
        /\ \A e \in Entered(rs) : At(e) <= now /\ rs[e].at <= now
        /\ \A i \in DOMAIN log : log[i].at <= now
        /\ st.status = "active" /\ Replay(rs, log, st) = st
    BY <1>1, <1>5, <1>7, <1>17, <2>1
  <2> HIDE DEF st, rs, now
  <2>3. /\ st.balance \in Nat /\ st.balance <= Cap
        /\ entry.action = "add" =>
             Replay(rs, Append(log, entry), st).balance = Capped(st.balance + entry.applied)
        /\ entry.action = "deduct" /\ (entry.violation => st.balance = 0)
              /\ (entry.applied > 0 => st.balance > 0)
             => Replay(rs, Append(log, entry), st).balance = Less(st.balance, entry.applied)
    BY <1>19, <2>2, MovementSaves
  <2> QED BY <2>3 DEF st, rs, more
<1>20. entry.applied \in Nat /\ Cap \in Nat
  BY DEF Entry, ReplayAssumption
<1>21. CASE IsAddition(entry, b)
  <2>1. PICK n \in Nat : entry.applied = Smaller(n, Less(Cap, b)) /\ entry.after = Capped(b + n)
    BY <1>21 DEF IsAddition
  <2>2. b \in Nat /\ b <= Cap /\ s.balance = Capped(b + entry.applied)
    BY <1>19, <1>21 DEF IsAddition
  <2> HIDE DEF b, s
  <2>3. Capped(b + Smaller(n, Less(Cap, b))) = Capped(b + n)
    BY <1>20, <2>2 DEF Capped, Smaller, Less
  <2> QED BY <1>13, <1>15, <1>16, <2>1, <2>2, <2>3 DEF more
<1>22. CASE IsDeduction(entry, b)
  <2>1. PICK n \in Nat : entry.applied = Smaller(n, b) /\ entry.after = Less(b, n)
    BY <1>22 DEF IsDeduction
  <2>2. b \in Nat /\ entry.action = "deduct"
    BY <1>19, <1>22 DEF IsDeduction
  <2>3. CASE entry.undoes # 0 /\ entry.violation
    BY <1>13, <1>15, <2>3 DEF more
  <2>4. CASE ~(entry.undoes # 0 /\ entry.violation)
    <3>1. entry.violation => b = 0
      BY <1>22, <2>4 DEF IsDeduction
    <3>2. (entry.applied > 0 => b > 0) /\ Less(b, entry.applied) = Less(b, n)
      <4> HIDE DEF b
      <4> QED BY <2>1, <2>2 DEF Smaller, Less
    <3>3. s.balance = Less(b, entry.applied)
      BY <1>19, <2>2, <3>1, <3>2
    <3> QED BY <1>13, <1>15, <1>16, <2>1, <3>2, <3>3 DEF more
  <2> QED BY <2>3, <2>4
<1> QED BY <1>6, <1>18, <1>21, <1>22 DEF Recordable

(* A file written without a command: its log stays, and nothing in it is ahead. *)
LEMMA WrittenIsDated ==
  ASSUME ReplayAssumption, LedgerAssumption, TypeOK, DateInv, UNCHANGED today,
         NEW f, IsTypedFile(f), f.log = log, Dated(f.rows, log, Now), Become(Recalculated(f, Now))
  PROVE  DateInv' /\ log' = log
<1>1. Now \in Nat
  BY NowIsMoment
<1>2. rows' = Recalculated(f, Now).rows /\ log' = log /\ Dated(rows', log, Now)
  BY <1>1, RecalculatedIsDated DEF Become
<1>3. Now' = Now
  BY <1>2 DEF Now
<1> QED BY <1>2, <1>3 DEF DateInv

(* The commands are recorded by Command and by Restore. *)
LEMMA StepIsDated ==
  ASSUME ReplayAssumption, LedgerAssumption, TypeOK, ReplayInv, DateInv, [Next]_vars
  PROVE  DateInv' /\ [Len(log') > Len(log) =>
                        LET l == log'[Len(log')] IN
                        (l.undoes # 0 /\ l.violation) \/ student'.balance = l.after]_vars
<1> DEFINE Kept == log' = log
           Told(l) == (l.undoes # 0 /\ l.violation) \/ student'.balance = l.after
           Recorded == \E entry \in Entry : log' = Append(log, entry) /\ Told(entry)
<1>0. Now \in Nat /\ IsTypedFile(File) /\ today \in Nat /\ Len(log) \in Nat
  BY NowIsMoment, FileIsTyped DEF TypeOK, LedgerAssumption
<1>1. ASSUME NEW e \in Exams, NEW res \in Scores \cup Marks, Write(e, res), UNCHANGED today
      PROVE  DateInv' /\ Kept
  <2> DEFINE f == [File EXCEPT !.rows = Written(e, res)]
  <2>1. f = [rows |-> Written(e, res), log |-> log, student |-> student, held |-> held]
    <3>1. f = [File EXCEPT !.rows = Written(e, res)]
      OBVIOUS
    <3> HIDE DEF f
    <3> QED BY <1>0, <3>1, FileWithRows DEF IsTypedFile, File
  <2>2. Written(e, res) \in [Exams -> Row]
        /\ \A d \in Exams : Written(e, res)[d].at = rows[d].at \/ Written(e, res)[d].at = Now
    BY <1>0 DEF Written, Row, TypeOK
  <2> HIDE DEF f
  <2>3. IsTypedFile(f)
    BY <1>0, <2>1, <2>2 DEF IsTypedFile, IsFile, IsLedger, TypeOK
  <2>4. f.log = log /\ Dated(f.rows, log, Now)
    <3>1. ASSUME NEW d \in Exams PROVE Written(e, res)[d].at <= Now
      <4>1. rows[d].at <= Now /\ Now <= Now
        BY <1>0 DEF DateInv, Dated
      <4>2. Written(e, res)[d].at = rows[d].at \/ Written(e, res)[d].at = Now
        BY <2>2
      <4> QED BY <4>1, <4>2
    <3>2. f.rows = Written(e, res) /\ f.log = log
      BY <2>1
    <3>3. Dated(Written(e, res), log, Now)
      BY <3>1 DEF DateInv, Dated
    <3> QED BY <3>2, <3>3
  <2> QED BY <1>1, <2>3, <2>4, WrittenIsDated DEF Write, f
<1>2. ASSUME UNCHANGED <<today, rows, log>>
      PROVE  DateInv' /\ Kept
  BY <1>2 DEF DateInv, Now, Dated
<1>3. ASSUME NEW e \in Exams, NEW res \in Scores \cup Marks, Enter(e, res)
      PROVE  DateInv' /\ Kept
  BY <1>1, <1>2, <1>3 DEF Enter, EnterActive, CorrectDismissed, EnterDismissed, HoldScore
<1>4. ASSUME NEW e \in Exams, DeleteGrade(e)
      PROVE  DateInv' /\ Kept
  <2> DEFINE without == [rows EXCEPT ![e] = NoRow]
             f == [File EXCEPT !.rows[e] = NoRow]
  <2>1. f = [rows |-> without, log |-> log, student |-> student, held |-> held]
    <3>1. f = [File EXCEPT !.rows = without]
      BY DEF File
    <3> HIDE DEF f, without
    <3> QED BY <1>0, <3>1, FileWithRows DEF IsTypedFile, File
  <2>2. without \in [Exams -> Row] /\ \A d \in Exams : without[d].at = rows[d].at \/ without[d].at = 0
    BY DEF NoRow, Row, TypeOK
  <2> HIDE DEF f, without
  <2>3. IsTypedFile(f)
    BY <1>0, <2>1, <2>2 DEF IsTypedFile, IsFile, IsLedger, TypeOK
  <2>4. f.log = log /\ Dated(f.rows, log, Now)
    <3>1. ASSUME NEW d \in Exams PROVE without[d].at <= Now
      <4>1. rows[d].at <= Now /\ 0 <= Now
        BY <1>0 DEF DateInv, Dated
      <4>2. without[d].at = rows[d].at \/ without[d].at = 0
        BY <2>2
      <4> QED BY <4>1, <4>2
    <3>2. f.rows = without /\ f.log = log
      BY <2>1
    <3>3. Dated(without, log, Now)
      BY <3>1 DEF DateInv, Dated
    <3> QED BY <3>2, <3>3
  <2> QED BY <1>4, <2>3, <2>4, WrittenIsDated DEF DeleteGrade, f
<1>5. ASSUME Command
      PROVE  DateInv' /\ Recorded
  BY <1>5, CommandSaves
<1>6. ASSUME NEW n \in Amounts, Restore(n)
      PROVE  DateInv' /\ Recorded
  <2> DEFINE f == Settled(File, Now)
             st == [f.student EXCEPT !.status = "active", !.why = NoWhy, !.balance = n]
             entry == [NewEntry("grant", n, n) EXCEPT !.settled = IdsOf(f.rows)]
             g == [f EXCEPT !.student = st, !.log = Append(@, entry)]
  <2>1. n \in Nat /\ UNCHANGED today /\ Become(g)
    BY <1>6 DEF Restore, LedgerAssumption
  <2>2. /\ IsTypedFile(f) /\ f.student = student /\ f.log = log /\ f.rows = RowsOfHeld(File, Now)
    BY <1>0, SettledTyped, SettledKnows DEF File
  <2>3. entry \in Entry
    BY <1>0, <2>1, <2>2, NewEntryTyped, SettlingTyped DEF IsTypedFile, IsLedger
  <2>4. entry.after = n /\ entry.at = Now + 1 /\ entry.settled = IdsOf(f.rows)
    BY DEF NewEntry
  <2>5. st.balance = n
    BY <1>0, <2>1, <2>2 DEF IsTypedFile, Student
  <2> HIDE DEF f
  <2>6. rows' = f.rows /\ log' = Append(log, entry) /\ student' = st
    <3>1. g.rows = f.rows /\ g.log = Append(f.log, entry) /\ g.student = st
      <4> HIDE DEF st, entry
      <4> QED BY <2>2 DEF IsTypedFile, IsFile
    <3> QED BY <2>1, <2>2, <3>1 DEF Become
  <2> HIDE DEF st, entry, g
  <2>7. Now' = Now + 1
    <3>1. Len(log') = Len(log) + 1
      BY <1>0, <2>3, <2>6 DEF TypeOK
    <3>2. Len(log') \in Nat /\ Len(log') >= Len(log) /\ today' \in Nat /\ today' >= today
      BY <1>0, <2>1, <3>1
    <3> QED BY <1>0, <2>1, <3>1, <3>2, NowGrows
  <2>8. Dated(f.rows, log, Now)
    <3>1. \A e \in Exams : f.rows[e].at = Now \/ f.rows[e].at = rows[e].at
      BY <2>2 DEF RowsOfHeld, File
    <3> QED BY <1>0, <3>1 DEF DateInv, Dated
  <2>9. Dated(f.rows, log, Now + 1)
    BY <1>0, <2>2, <2>8, LaterIsDated
  <2>10. \A i \in DOMAIN Append(log, entry) :
           Append(log, entry)[i] = entry \/ (i \in DOMAIN log /\ Append(log, entry)[i] = log[i])
    BY <2>3 DEF TypeOK
  <2>11. Dated(f.rows, Append(log, entry), Now + 1)
    <3>1. f.rows \in [Exams -> Row]
      BY <2>2 DEF IsTypedFile, IsLedger
    <3>2. \A id \in entry.settled : id[2] < entry.at
      BY <1>0, <2>4, <2>8, <3>1, SettledIsBefore
    <3>3. ASSUME NEW i \in DOMAIN Append(log, entry)
          PROVE  /\ Append(log, entry)[i].at <= Now + 1
                 /\ \A id \in Append(log, entry)[i].settled : id[2] < Append(log, entry)[i].at
      <4>1. CASE Append(log, entry)[i] = entry
        BY <1>0, <2>4, <3>2, <4>1
      <4>2. CASE i \in DOMAIN log /\ Append(log, entry)[i] = log[i]
        BY <2>9, <4>2 DEF Dated
      <4> QED BY <2>10, <4>1, <4>2
    <3> QED BY <2>9, <3>3 DEF Dated
  <2> QED BY <2>3, <2>4, <2>5, <2>6, <2>7, <2>11 DEF DateInv
<1>7. ASSUME NextDay
      PROVE  DateInv' /\ Kept
  <2>1. Now' \in Nat /\ Now' >= Now /\ rows' = rows /\ log' = log
    BY <1>0, <1>7, NowGrows DEF NextDay
  <2>2. Dated(rows, log, Now) /\ File.rows = rows /\ File.log = log
    BY DEF DateInv, File
  <2> QED BY <1>0, <2>1, <2>2, LaterIsDated DEF DateInv
<1>8. ASSUME Kept PROVE ~(Len(log') > Len(log))
  BY <1>0, <1>8
<1>9. ASSUME Recorded PROVE Told(log'[Len(log')])
  <2>1. PICK entry \in Entry : log' = Append(log, entry) /\ Told(entry)
    BY <1>9
  <2>2. log'[Len(log')] = entry
    BY <2>1 DEF TypeOK
  <2> QED BY <2>1, <2>2
<1> HIDE DEF Kept, Recorded, Told
<1>10. DateInv' /\ (Kept \/ Recorded)
  <2>1. CASE UNCHANGED vars
    BY <1>2, <2>1 DEF vars
  <2> QED BY <1>3, <1>4, <1>5, <1>6, <1>7, <2>1 DEF Next
<1> QED BY <1>8, <1>9, <1>10 DEF Told

LEMMA InitIsDated ==
  ASSUME ReplayAssumption, LedgerAssumption, Init
  PROVE  DateInv
<1>1. TypeOK /\ Now \in Nat
  BY InitIsTyped, NowIsMoment
<1> QED BY <1>1 DEF Init, DateInv, Dated, NoRow

(***************************************************************************)
(* The balance the audit trail records for a command is the balance the    *)
(* ledger then gives: a movement recorded after everything else is         *)
(* replayed last, over what the replay gave before it.                     *)
(***************************************************************************)
THEOREM BalanceRecorded == Spec => RecordedBalanceIsSaved
<1>1. Init => DateInv
  BY ReplayAssumption, LedgerAssumption, InitIsDated
<1>2. (TypeOK /\ ReplayInv) /\ DateInv /\ [Next]_vars =>
        DateInv' /\ [Len(log') > Len(log) =>
                        LET l == log'[Len(log')] IN
                        (l.undoes # 0 /\ l.violation) \/ student'.balance = l.after]_vars
  BY ReplayAssumption, LedgerAssumption, StepIsDated
<1> QED BY <1>1, <1>2, StoredIsReplay, PTL DEF Spec, RecordedBalanceIsSaved
-----------------------------------------------------------------------------
(***************************************************************************)
(* Editing settled results, as an operation of the ledger                  *)
(***************************************************************************)
(* What an operation without a command does to the rows before it replays:
   a new result is of this moment, and a result without effect is never
   taken out. *)
EditedNow(more) ==
  \A e \in Exams : more[e] # rows[e] =>
    /\ rows[e].res = "none" => more[e].at = Now /\ more[e].res # "none"
    /\ more[e].res = "none" => ~rows[e].excl

(* What a reset or a return settled was entered before now. *)
LEMMA SettledBeforeNow ==
  ASSUME ReplayAssumption, LedgerAssumption, TypeOK, DateInv,
         NEW e, NEW at, <<e, at>> \in Opening(log).settled
  PROVE  at \in Nat /\ at < Now
<1> DEFINE i == Latest(log, {"reset", "grant"})
<1>1. log \in Seq(Entry) /\ Now \in Nat
  BY NowIsMoment DEF TypeOK
<1>2. i \in DOMAIN log /\ Opening(log) = log[i]
  <2>1. i \in {0} \cup DOMAIN log
    BY <1>1, LatestIsPlace
  <2>2. i # 0
    BY DEF Opening, FullBalance
  <2> QED BY <2>1, <2>2 DEF Opening
<1> HIDE DEF i
<1>3. log[i].at <= Now /\ <<e, at>>[2] < log[i].at /\ log[i].at \in Nat
      /\ log[i].settled \subseteq Exams \X Nat
  BY <1>1, <1>2, EntriesAreTyped DEF DateInv, Dated, Entry
<1> QED BY <1>1, <1>2, <1>3

LEMMA EditKeepsStudent ==
  ASSUME ReplayAssumption, LedgerAssumption, TypeOK, ReplayInv, DateInv, IInv, OnlySettledEdited,
         NEW more \in [Exams -> Row], EditedNow(more), NEW f, IsTypedFile(f),
         f = [rows |-> more, log |-> log, student |-> student, held |-> held],
         Become(Recalculated(f, Now))
  PROVE  student' = student
<1> DEFINE once == ReplayFile(f)
<1>1. once = [rows |-> more, log |-> log, student |-> Replay(more, log, student), held |-> held]
  BY FileWithStudent DEF ReplayFile, IsTypedFile
<1>2. rows' = Returned(once, Now).rows /\ student' = Returned(once, Now).student
  BY DEF Become, Recalculated
<1> HIDE DEF once
<1>3. ASSUME NEW e \in Exams
      PROVE  rows'[e] = more[e] \/ (more[e].res = "none" /\ rows'[e].at = Now /\ rows'[e].excl)
  <2>1. IsTypedFile(once) /\ Now \in Nat
    BY NowIsMoment, ReplayFileTyped DEF once
  <2>2. CASE Returned(once, Now) = once
    BY <1>1, <1>2, <2>2
  <2>3. CASE Returned(once, Now) = ReplayFile(Settled(once, Now))
    <3> DEFINE settled == Settled(once, Now)
    <3>1. IsTypedFile(settled) /\ settled.rows = RowsOfHeld(once, Now)
      BY <2>1, SettledTyped, SettledKnows
    <3> HIDE DEF settled
    <3>2. ReplayFile(settled).rows = settled.rows
      <4>1. ReplayFile(settled) =
              [rows |-> settled.rows, log |-> settled.log,
               student |-> Replay(settled.rows, settled.log, settled.student), held |-> settled.held]
        BY <3>1, FileWithStudent DEF ReplayFile, IsTypedFile
      <4> QED BY <4>1
    <3>3. rows' = RowsOfHeld(once, Now)
      BY <1>2, <2>3, <3>1, <3>2 DEF settled
    <3> QED BY <1>1, <3>3 DEF RowsOfHeld
  <2> QED BY <2>2, <2>3 DEF Returned
<1>4. SettledEdit(rows, more, log)
  <2> SUFFICES ASSUME NEW e \in Exams, more[e] # rows[e]
               PROVE  /\ rows[e].res # "none" /\ more[e].res # "none" /\ more[e].at = rows[e].at
                      /\ <<e, rows[e].at>> \in Opening(log).settled
    BY DEF SettledEdit
  <2>1. /\ rows[e].res = "none" => more[e].at = Now /\ more[e].res # "none"
        /\ more[e].res = "none" => ~rows[e].excl
    BY DEF EditedNow
  <2>2. rows'[e] # rows[e] =>
          /\ <<e, rows[e].at>> \in Opening(log).settled
          /\ rows'[e].at = rows[e].at /\ rows'[e].res # "none"
    BY DEF OnlySettledEdited
  <2>3. ASSUME <<e, rows[e].at>> \in Opening(log).settled PROVE rows[e].at # Now
    <3>1. rows[e].at < Now /\ Now \in Nat
      BY <2>3, NowIsMoment, SettledBeforeNow
    <3> QED BY <3>1
  <2> QED BY <1>3, <2>1, <2>2, <2>3
<1>5. Replay(more, log, student) = student
  <2>1. IsLedger(rows, log) /\ IsLedger(more, log) /\ Replay(rows, log, student) = student
    BY DEF TypeOK, IsLedger, ReplayInv, IsReplay, File
  <2> QED BY <1>4, <2>1, SettledIsNotRead
<1>6. Returned(once, Now) = once
  BY <1>1, <1>5 DEF Returned, IInv
<1> QED BY <1>1, <1>2, <1>5, <1>6

LEMMA StepKeepsSettled ==
  ASSUME ReplayAssumption, LedgerAssumption, TypeOK, ReplayInv, DateInv, IInv, Next,
         log' = log, rows' # rows, OnlySettledEdited
  PROVE  student' = student
<1>0. Now \in Nat /\ IsTypedFile(File) /\ Len(log) \in Nat
  BY NowIsMoment, FileIsTyped DEF TypeOK
<1>1. ASSUME NEW e \in Exams, NEW res \in Scores \cup Marks, Write(e, res)
      PROVE  student' = student
  <2> DEFINE f == [File EXCEPT !.rows = Written(e, res)]
  <2>1. f = [rows |-> Written(e, res), log |-> log, student |-> student, held |-> held]
    <3>1. f = [File EXCEPT !.rows = Written(e, res)]
      OBVIOUS
    <3> HIDE DEF f
    <3> QED BY <1>0, <3>1, FileWithRows DEF IsTypedFile, File
  <2>2. res # "none"
    BY DEF Scores, Marks
  <2>3. Written(e, res) \in [Exams -> Row] /\ EditedNow(Written(e, res))
    BY <1>0, <2>2 DEF Written, Row, TypeOK, EditedNow
  <2> HIDE DEF f
  <2>4. IsTypedFile(f)
    BY <1>0, <2>1, <2>3 DEF IsTypedFile, IsFile, IsLedger, TypeOK
  <2> QED BY <1>1, <2>1, <2>3, <2>4, EditKeepsStudent DEF Write, f
<1>2. ASSUME NEW e \in Exams, NEW res \in Scores \cup Marks, Enter(e, res)
      PROVE  student' = student
  BY <1>1, <1>2 DEF Enter, EnterActive, CorrectDismissed, EnterDismissed, HoldScore
<1>3. ASSUME NEW e \in Exams, DeleteGrade(e)
      PROVE  student' = student
  <2> DEFINE without == [rows EXCEPT ![e] = NoRow]
             f == [File EXCEPT !.rows[e] = NoRow]
  <2>1. f = [rows |-> without, log |-> log, student |-> student, held |-> held]
    <3>1. f = [File EXCEPT !.rows = without]
      BY DEF File
    <3> HIDE DEF f, without
    <3> QED BY <1>0, <3>1, FileWithRows DEF IsTypedFile, File
  <2>2. without \in [Exams -> Row] /\ EditedNow(without)
    BY <1>3 DEF NoRow, Row, TypeOK, EditedNow, DeleteGrade
  <2> HIDE DEF f, without
  <2>3. IsTypedFile(f)
    BY <1>0, <2>1, <2>2 DEF IsTypedFile, IsFile, IsLedger, TypeOK
  <2> QED BY <1>3, <2>1, <2>2, <2>3, EditKeepsStudent DEF DeleteGrade, f
<1>4. ~Command
  <2>1. SUFFICES ASSUME Command PROVE FALSE
    OBVIOUS
  <2>2. PICK entry \in Entry : log' = Append(log, entry)
    BY <2>1, CommandSaves
  <2> QED BY <1>0, <2>2 DEF TypeOK
<1>5. ASSUME NEW n \in Amounts, Restore(n) PROVE FALSE
  <2> DEFINE f == Settled(File, Now)
             st == [f.student EXCEPT !.status = "active", !.why = NoWhy, !.balance = n]
             entry == [NewEntry("grant", n, n) EXCEPT !.settled = IdsOf(f.rows)]
             g == [f EXCEPT !.student = st, !.log = Append(@, entry)]
  <2>1. Become(g)
    BY <1>5 DEF Restore
  <2>2. IsTypedFile(f) /\ f.log = log
    BY <1>0, SettledTyped, SettledKnows DEF File
  <2> HIDE DEF f, st, entry
  <2>3. log' = Append(log, entry)
    BY <2>1, <2>2 DEF Become, IsTypedFile, IsFile
  <2>4. Len(Append(log, entry)) = Len(log) + 1
    BY DEF TypeOK
  <2> QED BY <1>0, <2>3, <2>4
<1>6. ~NextDay
  BY DEF NextDay
<1> QED BY <1>2, <1>3, <1>4, <1>5, <1>6 DEF Next

(***************************************************************************)
(* Correcting what a reset or a return settled never moves the balance it  *)
(* opened, the streak, the bonuses or a dismissal: those results are       *)
(* history, and neither the replay nor the return of held scores reads     *)
(* them again.                                                             *)
(***************************************************************************)
THEOREM SettledEditsKept == Spec => SettledEditsChangeNothing
<1>1. Init => IInv
  BY DEF Init, IInv, Decided
<1>2. Init => DateInv
  BY ReplayAssumption, LedgerAssumption, InitIsDated
<1>3. (TypeOK /\ ReplayInv) /\ DateInv /\ IInv /\ [Next]_vars =>
        /\ DateInv' /\ IInv'
        /\ [log' = log /\ rows' # rows /\ OnlySettledEdited => student' = student]_vars
  <2> SUFFICES ASSUME TypeOK, ReplayInv, DateInv, IInv, [Next]_vars
               PROVE  /\ DateInv' /\ IInv'
                      /\ [log' = log /\ rows' # rows /\ OnlySettledEdited => student' = student]_vars
    OBVIOUS
  <2>1. DateInv' /\ IInv'
    BY ReplayAssumption, LedgerAssumption, StepIsDated, StepDecides
  <2>2. CASE Next
    BY <2>1, <2>2, ReplayAssumption, LedgerAssumption, StepKeepsSettled
  <2>3. CASE UNCHANGED vars
    BY <2>1, <2>3
  <2> QED BY <2>2, <2>3
<1> QED BY <1>1, <1>2, <1>3, StoredIsReplay, PTL DEF Spec, SettledEditsChangeNothing

-----------------------------------------------------------------------------
(***************************************************************************)
(* The return of a dismissed student                                       *)
(***************************************************************************)

(* Replayed, a dismissal goes only where a bonus saved from it. *)
LEMMA SavedReturns ==
  ASSUME NEW rs, NEW l, NEW s, s.status = "dismissed", Fits(rs, s),
         NEW more, Replay(more, l, s).status = "active"
  PROVE  \E p \in Replayed(more, l, s).saved :
           \A b : EarnedFor(log, b, p) => EarnedBefore(b, s.why)
<1> DEFINE a == Replayed(more, l, s)
<1>1. SavedByBonus(a, s)
  BY DEF Replay, Saved
<1>2. CASE s.why \in s.dismissals
  <2>1. s.why.rule # "hand" /\ s.why.of \in Exams
    BY <1>2 DEF Fits, Entered
  <2>2. s.why.of \in a.saved /\ s.why.of # 0
    BY <1>1, <1>2, <2>1, ReplayAssumption, FS_CardinalityType DEF SavedByBonus, ReplayAssumption
  <2> QED BY <2>1, <2>2 DEF EarnedFor, EarnedBefore
<1>3. CASE s.why \notin s.dismissals
  <2>1. s.why.rule = "hand" /\ 0 \in a.saved
    BY <1>1, <1>3 DEF SavedByBonus
  <2> QED BY <2>1 DEF EarnedFor, EarnedBefore
<1> QED BY <1>2, <1>3

(* st has a bonus of the ledger's own, earned before what dismissed the student. *)
ReturnEarned(st, rs) == \E b \in st.bonuses \ SettledExams(rs, log) : EarnedBefore(b, student.why)

(* Held scores become rows without an effect: the bonus that saved is still earned. *)
LEMMA ReturnIsEarned ==
  ASSUME ReplayAssumption, LedgerAssumption, TypeOK, ReplayInv, DateInv,
         student.status = "dismissed", student'.status = "active",
         NEW more \in [Exams -> Row], NEW f, IsTypedFile(f),
         f = [rows |-> more, log |-> log, student |-> student, held |-> held],
         Become(Recalculated(f, Now))
  PROVE  log' = log /\ ReturnEarned(student', rows')
<1> DEFINE st == Replay(more, log, student)
           once == ReplayFile(f)
           a == Replayed(more, log, student)
<1>1. once = [rows |-> more, log |-> log, student |-> st, held |-> held]
  BY FileWithStudent DEF ReplayFile, IsTypedFile
<1>2. rows' = Returned(once, Now).rows /\ student' = Returned(once, Now).student
      /\ log' = Returned(once, Now).log
  BY DEF Become, Recalculated
<1>3. IsTypedFile(once) /\ Now \in Nat /\ IsLedger(more, log)
  BY NowIsMoment, ReplayFileTyped DEF IsLedger, TypeOK
<1> HIDE DEF once, st
<1>4. st.status = "active"
  BY <1>1, <1>2 DEF Returned
<1>5. PICK p \in a.saved : \A b : EarnedFor(log, b, p) => EarnedBefore(b, student.why)
  BY <1>4, SavedReturns DEF ReplayInv, st
<1>6. ASSUME NEW rs, IsLedger(rs, log), Further(more, rs, log), NEW t,
             History(more, log, student.bonuses) = History(rs, log, t.bonuses)
      PROVE  ReturnEarned(Replay(rs, log, t), rs)
  <2>1. PICK b \in Replayed(rs, log, t).bonuses : EarnedFor(log, b, p)
    BY <1>3, <1>6, SavedIsEarned
  <2>2. b \notin SettledExams(rs, log)
    BY <1>6, <2>1, ReplayedIsExplained
  <2>3. b \in Replay(rs, log, t).bonuses
    BY <2>1 DEF Replay, Saved
  <2> QED BY <1>5, <2>1, <2>2, <2>3 DEF ReturnEarned
<1>7. CASE Returned(once, Now) = once
  <2>1. Further(more, more, log)
    BY DEF Further
  <2>2. ReturnEarned(st, more)
    BY <1>3, <1>6, <2>1 DEF st
  <2> QED BY <1>1, <1>2, <1>7, <2>2
<1>8. CASE Returned(once, Now) = ReplayFile(Settled(once, Now))
  <2> DEFINE settled == Settled(once, Now)
             rs == settled.rows
  <2>1. /\ IsTypedFile(settled) /\ rs = RowsOfHeld(once, Now)
        /\ settled.log = log /\ settled.student = st
    BY <1>1, <1>3, SettledTyped, SettledKnows
  <2> HIDE DEF settled
  <2>2. ReplayFile(settled) =
          [rows |-> rs, log |-> log, student |-> Replay(rs, log, st), held |-> settled.held]
    BY <2>1, FileWithStudent DEF ReplayFile, IsTypedFile
  <2>3. Further(more, rs, log)
    <3>1. \A e \in Exams : rs[e] # more[e] => more[e].res = "none" /\ rs[e].excl /\ rs[e].at = Now
      BY <1>1, <2>1 DEF RowsOfHeld
    <3>2. \A e : <<e, Now>> \notin Opening(log).settled
      BY <1>3, SettledBeforeNow
    <3> QED BY <3>1, <3>2 DEF Further
  <2>4. History(more, log, student.bonuses) = History(rs, log, st.bonuses)
    <3>1. SettledExams(rs, log) = SettledExams(more, log)
      BY <2>3 DEF Further, SettledExams, Entered
    <3>2. st.bonuses = a.bonuses \cup History(more, log, student.bonuses)
      BY DEF st, Replay, Saved
    <3>3. a.bonuses \cap SettledExams(more, log) = {}
      BY <1>3, ReplayedIsExplained
    <3> HIDE DEF a
    <3> QED BY <3>1, <3>2, <3>3 DEF History
  <2>5. IsLedger(rs, log)
    BY <2>1 DEF IsTypedFile
  <2>6. ReturnEarned(Replay(rs, log, st), rs)
    BY <1>6, <2>3, <2>4, <2>5
  <2> QED BY <1>2, <1>8, <2>2, <2>6 DEF settled
<1> QED BY <1>7, <1>8 DEF Returned

LEMMA StepReturns ==
  ASSUME ReplayAssumption, LedgerAssumption, TypeOK, ReplayInv, DateInv, Next,
         student.status = "dismissed", student'.status = "active"
  PROVE  \/ log' # log /\ log'[Len(log')].action = "grant"
         \/ ReturnEarned(student', rows') /\ log' = log
<1>0. Now \in Nat /\ IsTypedFile(File) /\ Len(log) \in Nat
  BY NowIsMoment, FileIsTyped DEF TypeOK
<1>1. ASSUME NEW e \in Exams, NEW res \in Scores \cup Marks, Write(e, res)
      PROVE  ReturnEarned(student', rows') /\ log' = log
  <2> DEFINE f == [File EXCEPT !.rows = Written(e, res)]
  <2>1. f = [rows |-> Written(e, res), log |-> log, student |-> student, held |-> held]
    <3>1. f = [File EXCEPT !.rows = Written(e, res)]
      OBVIOUS
    <3> HIDE DEF f
    <3> QED BY <1>0, <3>1, FileWithRows DEF IsTypedFile, File
  <2>2. Written(e, res) \in [Exams -> Row]
    BY <1>0 DEF Written, Row, TypeOK
  <2> HIDE DEF f
  <2>3. IsTypedFile(f)
    BY <1>0, <2>1, <2>2 DEF IsTypedFile, IsFile, IsLedger, TypeOK
  <2> QED BY <1>1, <2>1, <2>2, <2>3, ReturnIsEarned DEF Write, f
<1>2. ASSUME NEW e \in Exams, NEW res \in Scores \cup Marks, Enter(e, res)
      PROVE  ReturnEarned(student', rows') /\ log' = log
  BY <1>1, <1>2 DEF Enter, EnterActive, CorrectDismissed, EnterDismissed, HoldScore
<1>3. ASSUME NEW e \in Exams, DeleteGrade(e)
      PROVE  ReturnEarned(student', rows') /\ log' = log
  <2> DEFINE without == [rows EXCEPT ![e] = NoRow]
             f == [File EXCEPT !.rows[e] = NoRow]
  <2>1. f = [rows |-> without, log |-> log, student |-> student, held |-> held]
    <3>1. f = [File EXCEPT !.rows = without]
      BY DEF File
    <3> HIDE DEF f, without
    <3> QED BY <1>0, <3>1, FileWithRows DEF IsTypedFile, File
  <2>2. without \in [Exams -> Row]
    BY DEF NoRow, Row, TypeOK
  <2> HIDE DEF f, without
  <2>3. IsTypedFile(f)
    BY <1>0, <2>1, <2>2 DEF IsTypedFile, IsFile, IsLedger, TypeOK
  <2> QED BY <1>3, <2>1, <2>2, <2>3, ReturnIsEarned DEF DeleteGrade, f
<1>4. ~Command
  BY DEF Command
<1>5. ASSUME NEW n \in Amounts, Restore(n)
      PROVE  log' # log /\ log'[Len(log')].action = "grant"
  <2> DEFINE f == Settled(File, Now)
             st == [f.student EXCEPT !.status = "active", !.why = NoWhy, !.balance = n]
             entry == [NewEntry("grant", n, n) EXCEPT !.settled = IdsOf(f.rows)]
             g == [f EXCEPT !.student = st, !.log = Append(@, entry)]
  <2>1. Become(g)
    BY <1>5 DEF Restore
  <2>2. IsTypedFile(f) /\ f.log = log
    BY <1>0, SettledTyped, SettledKnows DEF File
  <2>3. entry.action = "grant"
    BY DEF NewEntry
  <2> HIDE DEF f, st, entry
  <2>4. log' = Append(log, entry)
    BY <2>1, <2>2 DEF Become, IsTypedFile, IsFile
  <2>5. Len(Append(log, entry)) = Len(log) + 1 /\ Append(log, entry)[Len(log) + 1] = entry
    BY DEF TypeOK
  <2> QED BY <1>0, <2>3, <2>4, <2>5
<1>6. ~NextDay
  BY DEF NextDay
<1> QED BY <1>2, <1>3, <1>4, <1>5, <1>6 DEF Next

(***************************************************************************)
(* Whatever is entered, corrected or deleted, and however late, a dismissed*)
(* student returns only by hand or by a bonus earned before what dismissed *)
(* them: a replay that merely no longer finds the dismissal leaves it.     *)
(***************************************************************************)
THEOREM ReturnsEarned == Spec => ReturnsAreEarned
<1>1. Init => DateInv
  BY ReplayAssumption, LedgerAssumption, InitIsDated
<1>2. (TypeOK /\ ReplayInv) /\ DateInv /\ [Next]_vars =>
        /\ DateInv'
        /\ [student.status = "dismissed" /\ student'.status = "active" =>
              \/ log' # log /\ log'[Len(log')].action = "grant"
              \/ \E b \in student'.bonuses \ SettledExams(rows', log') :
                   EarnedBefore(b, student.why)]_vars
  <2> SUFFICES ASSUME TypeOK, ReplayInv, DateInv, [Next]_vars
               PROVE  /\ DateInv'
                      /\ [student.status = "dismissed" /\ student'.status = "active" =>
                            \/ log' # log /\ log'[Len(log')].action = "grant"
                            \/ \E b \in student'.bonuses \ SettledExams(rows', log') :
                                 EarnedBefore(b, student.why)]_vars
    OBVIOUS
  <2>1. DateInv'
    BY ReplayAssumption, LedgerAssumption, StepIsDated
  <2>2. CASE Next
    <3>1. student.status = "dismissed" /\ student'.status = "active" =>
            \/ log' # log /\ log'[Len(log')].action = "grant"
            \/ ReturnEarned(student', rows') /\ log' = log
      BY <2>2, ReplayAssumption, LedgerAssumption, StepReturns
    <3> QED BY <2>1, <3>1 DEF ReturnEarned
  <2>3. CASE UNCHANGED vars
    BY <2>1, <2>3
  <2> QED BY <2>2, <2>3
<1> QED BY <1>1, <1>2, StoredIsReplay, PTL DEF Spec, ReturnsAreEarned

-----------------------------------------------------------------------------
(***************************************************************************)
(* An old loss, as an operation of the ledger                              *)
(***************************************************************************)

(* An old result written for an active student. *)
LEMMA EnteredSpendsOld ==
  ASSUME ReplayAssumption, LedgerAssumption, TypeOK, ReplayInv, DateInv, IInv,
         student.status = "active", student'.status = "dismissed",
         student'.why.rule = "loss", BonusesStay,
         NEW x \in Exams, NEW res \in Scores \cup Marks, Write(x, res),
         NEW e \in Exams, OldLossEntered(Context(rows', log), e)
  PROVE  LET k == Context(rows', log) IN LedgerTime(k, student'.why.of) >= LaterCredit(k, e)
<1> DEFINE more == Written(x, res)
           f == [File EXCEPT !.rows = more]
           st == Replay(more, log, student)
           a == Replayed(rows, log, student)
           b == Replayed(more, log, student)
<1>1. Now \in Nat /\ IsTypedFile(File)
  BY NowIsMoment, FileIsTyped
<1>2. f = [rows |-> more, log |-> log, student |-> student, held |-> held]
  <2>1. f = [File EXCEPT !.rows = more]
    OBVIOUS
  <2> HIDE DEF f, more
  <2> QED BY <1>1, <2>1, FileWithRows DEF IsTypedFile, File
<1>3. more \in [Exams -> Row]
  BY <1>1 DEF Written, Row, TypeOK
<1>4. \A y \in Exams : y # x => more[y] = rows[y]
  BY DEF Written, TypeOK
<1>5. rows[x].res = "none" => more[x] = [res |-> res, at |-> Now, excl |-> FALSE]
  BY DEF Written, TypeOK
<1> HIDE DEF more
<1>6. rows' = more /\ student' = st
  <2> DEFINE once == ReplayFile(f)
  <2>1. IsTypedFile(f)
    BY <1>1, <1>2, <1>3 DEF IsTypedFile, IsFile, IsLedger, TypeOK
  <2>2. once = [rows |-> more, log |-> log, student |-> st, held |-> held]
    <3> HIDE DEF f, more, st
    <3>1. f.rows = more /\ f.log = log /\ f.student = student /\ f.held = held
      BY <1>2
    <3> QED BY <2>1, <3>1, FileWithStudent DEF ReplayFile, IsTypedFile, st
  <2>3. Become(Returned(once, Now))
    BY DEF Write, Recalculated, more
  <2> HIDE DEF once, f
  <2>4. Returned(once, Now) = once
    BY <2>2 DEF Returned, IInv
  <2> QED BY <2>2, <2>3, <2>4 DEF Become
<1> HIDE DEF f
<1>7. IsLedger(rows, log) /\ IsLedger(more, log)
  BY <1>3 DEF IsLedger, TypeOK
<1>8. /\ rows[e].res = "none" /\ more[e].res \in Losses /\ e \notin Finals
      /\ LaterCredit(Context(more, log), e) # 0
      /\ \A i \in Pending(log) :
           log[i].action = "deduct" /\ log[i].at <= LaterCredit(Context(more, log), e)
             => log[i].at <= LedgerTime(Context(more, log), e)
  BY <1>6 DEF OldLossEntered, Context
<1>9. e = x /\ more[e].at = Now /\ ~more[e].excl
  BY <1>4, <1>5, <1>8 DEF Losses
<1>10. <<e, more[e].at>> \notin Opening(log).settled
  <2>1. <<e, Now>> \notin Opening(log).settled
    <3>1. \A at : <<e, at>> \in Opening(log).settled => at \in Nat /\ at < Now
      BY SettledBeforeNow
    <3> QED BY <1>1, <3>1
  <2> QED BY <1>9, <2>1
<1>11. \A t \in Credits(log) : t <= more[e].at
  BY <1>9 DEF Credits, Pending, DateInv, Dated
<1>12. OldLoss(rows, more, log, e)
  <2>1. more = [rows EXCEPT ![e] = more[e]]
    BY <1>4, <1>7, <1>9 DEF IsLedger
  <2> QED BY <1>8, <1>9, <1>10, <1>11, <2>1 DEF OldLoss
<1>13. ~a.gone /\ \A m \in a.bonuses : m \in student.bonuses
  <2>1. Saved(rows, log, student, a) = student
    BY DEF ReplayInv, IsReplay, File, Replay
  <2> HIDE DEF a
  <2>2. a.gone => Saved(rows, log, student, a).status = "dismissed"
    BY DEF Saved
  <2>3. a.bonuses \subseteq Saved(rows, log, student, a).bonuses
    BY DEF Saved
  <2> QED BY <2>1, <2>2, <2>3
<1>14. st.why = b.why /\ st.bonuses = b.bonuses \cup History(more, log, student.bonuses)
  BY DEF Replay, Saved
<1>15. \A m \in a.bonuses : m \notin History(more, log, student.bonuses)
  <2>1. a.bonuses \cap SettledExams(rows, log) = {}
    BY <1>7, ReplayedIsExplained
  <2>2. SettledExams(more, log) \subseteq SettledExams(rows, log)
    BY <1>4, <1>9, <1>10 DEF SettledExams, Entered
  <2> HIDE DEF a
  <2> QED BY <2>1, <2>2 DEF History
<1> HIDE DEF a, b, st
<1>16. \A m \in a.bonuses : m < b.why.of => m \in b.bonuses
  BY <1>6, <1>13, <1>14, <1>15 DEF BonusesStay
<1>17. b.why.rule = "loss"
  BY <1>6, <1>14
<1>18. LedgerTime(Context(more, log), b.why.of) >= LaterCredit(Context(more, log), e)
  BY <1>7, <1>12, <1>13, <1>16, <1>17, OldLossWaits DEF a, b
<1> QED BY <1>6, <1>14, <1>18

LEMMA StepSpendsOld ==
  ASSUME ReplayAssumption, LedgerAssumption, TypeOK, ReplayInv, DateInv, IInv, Next, log' = log,
         student.status = "active", student'.status = "dismissed",
         student'.why.rule = "loss", BonusesStay,
         NEW e \in Exams, OldLossEntered(Context(rows', log), e)
  PROVE  LET k == Context(rows', log) IN LedgerTime(k, student'.why.of) >= LaterCredit(k, e)
<1>1. ASSUME NEW x \in Exams, NEW res \in Scores \cup Marks, Enter(x, res)
      PROVE  Write(x, res)
  BY <1>1 DEF Enter, EnterActive, CorrectDismissed, EnterDismissed
<1>2. ASSUME NEW x \in Exams, DeleteGrade(x) PROVE FALSE
  <2> DEFINE without == [rows EXCEPT ![x] = NoRow]
             f == [File EXCEPT !.rows[x] = NoRow]
             once == ReplayFile(f)
  <2>1. IsTypedFile(File)
    BY FileIsTyped
  <2>2. f = [rows |-> without, log |-> log, student |-> student, held |-> held]
    <3>1. f = [File EXCEPT !.rows = without]
      BY DEF File
    <3> HIDE DEF f, without
    <3> QED BY <2>1, <3>1, FileWithRows DEF IsTypedFile, File
  <2>3. without \in [Exams -> Row]
    BY DEF NoRow, Row, TypeOK
  <2>4. \A y \in Exams : without[y].res \in {rows[y].res, "none"}
    BY DEF NoRow, TypeOK
  <2> HIDE DEF without
  <2>5. once = [rows |-> without, log |-> log, student |-> Replay(without, log, student), held |-> held]
    <3>1. IsTypedFile(f)
      BY <2>2, <2>3 DEF IsTypedFile, IsFile, IsLedger, TypeOK
    <3> HIDE DEF f
    <3>2. f.rows = without /\ f.log = log /\ f.student = student /\ f.held = held
      BY <2>2
    <3> QED BY <3>1, <3>2, FileWithStudent DEF ReplayFile, IsTypedFile
  <2>6. Become(Returned(once, Now))
    BY <1>2 DEF DeleteGrade, Recalculated
  <2> HIDE DEF once, f
  <2>7. Returned(once, Now) = once
    BY <2>5 DEF Returned, IInv
  <2>8. rows' = without
    BY <2>5, <2>6, <2>7 DEF Become
  <2>9. rows[e].res = "none" /\ rows'[e].res \in Losses
    BY DEF OldLossEntered, Context
  <2> QED BY <2>4, <2>8, <2>9 DEF Losses
<1>3. ~Command
  <2>1. SUFFICES ASSUME Command PROVE FALSE
    OBVIOUS
  <2>2. PICK entry \in Entry : log' = Append(log, entry)
    BY <2>1, CommandSaves
  <2> QED BY <2>2 DEF TypeOK
<1>4. ASSUME NEW n \in Amounts, Restore(n) PROVE FALSE
  BY <1>4 DEF Restore
<1>5. ~NextDay
  BY DEF NextDay
<1>6. PICK x \in Exams, res \in Scores \cup Marks : Write(x, res)
  BY <1>1, <1>2, <1>3, <1>4, <1>5 DEF Next
<1> QED BY <1>6, EnteredSpendsOld

(***************************************************************************)
(* A result that reaches the ledger late costs no student the chapter for  *)
(* the time before the credit it was entered after: whatever was recorded  *)
(* and entered until then, nobody is dismissed by it there, neither for the*)
(* old result nor for another result of that time.                         *)
(***************************************************************************)
THEOREM OldLossKept == Spec => OldLossSpendsOldBalance
<1> DEFINE Spared ==
             log' = log /\ student.status = "active" /\ student'.status = "dismissed"
             /\ student'.why.rule = "loss" /\ BonusesStay =>
               LET c == Context(rows', log) IN
               \A e \in Exams : OldLossEntered(c, e) =>
                 LedgerTime(c, student'.why.of) >= LaterCredit(c, e)
<1>1. Init => DateInv
  BY ReplayAssumption, LedgerAssumption, InitIsDated
<1>2. Init => IInv
  BY DEF Init, IInv, Decided
<1>3. (TypeOK /\ ReplayInv) /\ DateInv /\ IInv /\ [Next]_vars => DateInv' /\ IInv' /\ [Spared]_vars
  <2> SUFFICES ASSUME TypeOK, ReplayInv, DateInv, IInv, [Next]_vars
               PROVE  DateInv' /\ IInv' /\ [Spared]_vars
    OBVIOUS
  <2>1. DateInv' /\ IInv'
    BY ReplayAssumption, LedgerAssumption, StepIsDated, StepDecides
  <2>2. CASE Next
    <3>1. Spared
      BY <2>2, ReplayAssumption, LedgerAssumption, StepSpendsOld
    <3> QED BY <2>1, <3>1
  <2>3. CASE UNCHANGED vars
    BY <2>1, <2>3
  <2> QED BY <2>2, <2>3
<1> QED BY <1>1, <1>2, <1>3, StoredIsReplay, PTL DEF Spec, OldLossSpendsOldBalance
=============================================================================
