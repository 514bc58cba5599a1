----------------------- MODULE CallReservationsProofs -----------------------
(***************************************************************************)
(* Proofs about CallReservations, for any number of windows, exams and     *)
(* cases and any batch size: its types, that a batch holds only students   *)
(* without an action, that an action lands only on a free or own hold,     *)
(* that no window wakes up with the students it had, and the refinement of *)
(* CallDuty.                                                               *)
(***************************************************************************)
EXTENDS CallReservations, TLAPS

USE ReservationAssumption

(* An idle list request has the type of a list request. *)
LEMMA NoListType == NoList \in List
BY DEF NoList, List, Call, NotCalled, Statuses

(* Using up a bound keeps the counters well typed. *)
LEMMA SpendType ==
  ASSUME TypeOK, NEW b \in DOMAIN Bounds, Spend(b)
  PROVE  spent' \in [DOMAIN Bounds -> Nat]
BY DEF TypeOK, Spend

(* The bounds are the named ones, and each is a number. *)
LEMMA BoundNames ==
  {"saves", "lists", "takes", "lapses", "changes", "resends"} = DOMAIN Bounds
BY DEF Bounds

(* What a touch leaves of the tables. *)
LEMMA TouchType ==
  ASSUME TypeOK, NEW w \in Windows, NEW e, NEW let
  PROVE  /\ WindowsAfterTouch(w) \in [Windows -> {"gone", "live", "silent"}]
         /\ HoldsAfterTouch(w, e, let) \in [Cases -> Hold]
         /\ \A c \in Cases : \/ HoldsAfterTouch(w, e, let)[c] = Free
                             \/ /\ HoldsAfterTouch(w, e, let)[c] = hold[c]
                                /\ hold[c].by \notin Stale
         /\ \A v \in Windows : v \notin Stale => WindowsAfterTouch(w)[v] # "gone" \/ window[v] = "gone"
BY DEF TypeOK, WindowsAfterTouch, HoldsAfterTouch, Kept, Free, Hold, Stale

(* A touch drops the rows of silent windows and their holds together. *)
LEMMA BeatType ==
  ASSUME TypeOK, NEW w \in Windows, NEW e \in Exams, Beat(w, e)
  PROVE  TypeOK'
<1>1. window' \in [Windows -> {"gone", "live", "silent"}] /\ hold' \in [Cases -> Hold]
  BY TouchType DEF Beat
<1>2. \A c \in Cases : hold'[c].by = NoWindow \/ window'[hold'[c].by] # "gone"
  BY TouchType DEF Beat, Free, TypeOK, Hold
<1> QED BY <1>1, <1>2 DEF Beat, TypeOK

(* Closing and lapsing keep every hold on a window that has a row. *)
LEMMA PageType ==
  ASSUME TypeOK, NEW w \in Windows, ClosePage(w) \/ CloseWindow(w) \/ Lapse(w)
  PROVE  TypeOK'
<1>1. CASE ClosePage(w)
  BY <1>1 DEF ClosePage, TypeOK
<1>2. CASE CloseWindow(w)
  BY <1>2 DEF CloseWindow, TypeOK, Hold, Free
<1>3. CASE Lapse(w)
  <2>1. spent' \in [DOMAIN Bounds -> Nat]
    BY <1>3, SpendType, BoundNames DEF Lapse
  <2> QED BY <1>3, <2>1 DEF Lapse, TypeOK
<1> QED BY <1>1, <1>2, <1>3

(* The transaction of a take, at once or after its wait. *)
LEMMA TakeCaseType ==
  ASSUME TypeOK, NEW w \in Windows, NEW t \in Take, TakeCase(w, t)
  PROVE  /\ window' \in [Windows -> {"gone", "live", "silent"}]
         /\ hold' \in [Cases -> Hold]
         /\ \A c \in Cases : hold'[c].by = NoWindow \/ window'[hold'[c].by] # "gone"
<1> DEFINE kept == HoldsAfterTouch(w, ExamOf[t.case], {})
           mine == [by |-> w, since |-> t.at, origin |-> "hand"]
<1>1. window' = WindowsAfterTouch(w) /\ (hold' = kept \/ hold' = [kept EXCEPT ![t.case] = mine])
  BY DEF TakeCase
<1>2. mine \in Hold /\ window'[w] = "live"
  BY <1>1 DEF Hold, Take, WindowsAfterTouch
<1>3. kept \in [Cases -> Hold]
      /\ \A c \in Cases : kept[c].by = NoWindow \/ window'[kept[c].by] # "gone"
  BY <1>1, TouchType DEF Free, TypeOK, Hold
<1>4. mine.by = w
  OBVIOUS
<1> HIDE DEF kept, mine
<1> QED BY <1>1, <1>2, <1>3, <1>4, TouchType

(* A take by hand, at once or after waiting, keeps the types. *)
LEMMA TakeType ==
  ASSUME TypeOK, NEW w \in Windows, NEW c \in Cases, NEW s \in Statuses,
         TakeAtOnce(w, c, s) \/ TakeWait(w, c, s) \/ TakeResume(w)
  PROVE  TypeOK'
<1> DEFINE t == [case |-> c, seen |-> s, at |-> clock]
<1>1. t \in Take
  BY DEF Take, TypeOK
<1>2. CASE TakeAtOnce(w, c, s)
  <2>1. spent' \in [DOMAIN Bounds -> Nat]
    BY <1>2, SpendType, BoundNames DEF TakeAtOnce
  <2>2. TakeCase(w, t)
    BY <1>2 DEF TakeAtOnce
  <2> HIDE DEF t
  <2> QED BY <1>1, <1>2, <2>1, <2>2, TakeCaseType DEF TakeAtOnce, TakeCase, TypeOK
<1>3. CASE TakeWait(w, c, s)
  <2>1. spent' \in [DOMAIN Bounds -> Nat]
    BY <1>3, SpendType, BoundNames DEF TakeWait
  <2> QED BY <1>1, <1>3, <2>1 DEF TakeWait, TypeOK
<1>4. CASE TakeResume(w)
  <2>1. PICK q \in take[w] : TakeCase(w, q)
    BY <1>4 DEF TakeResume
  <2>2. q \in Take
    BY DEF TypeOK
  <2> QED BY <1>4, <2>1, <2>2, TakeCaseType DEF TakeResume, TakeCase, TypeOK
<1> QED BY <1>2, <1>3, <1>4

(* Replacing one page's list request keeps the requests well typed. *)
LEMMA ListStepType ==
  ASSUME TypeOK, NEW w \in Windows, NEW j \in List, ListStep(w, j)
  PROVE  list' \in [Windows -> List]
BY DEF TypeOK, ListStep

(* holdCallCase gives a case to a window that has a row, or leaves it. *)
LEMMA HoldsType ==
  ASSUME TypeOK, NEW w \in Windows, NEW cases, NEW at \in Nat, NEW origin \in {"batch", "back"}
  PROVE  /\ Holds(w, cases, at, origin) \in [Cases -> Hold]
         /\ \A c \in Cases : \/ Holds(w, cases, at, origin)[c] = hold[c]
                             \/ /\ Holds(w, cases, at, origin)[c].by = w /\ Live(w)
                                /\ Holds(w, cases, at, origin)[c].origin = origin
                                /\ c \in cases /\ hold[c].by = NoWindow
BY DEF TypeOK, Holds, Hold, Live

(* Dropping the finished holds leaves a well typed request. *)
LEMMA AfterDropType ==
  ASSUME NEW j \in List, NEW mine
  PROVE  /\ AfterDrop(j, mine) \in List
         /\ AfterDrop(j, mine).pc # "hold" /\ AfterDrop(j, mine).locked = {}
<1> DEFINE j2 == [NoList EXCEPT !.pc = "pick", !.exam = j.exam, !.at = j.at,
                      !.openIds = {c \in j.listed : OpenForBatch(j.seen[c])}]
<1>1. j2 \in List
  BY NoListType DEF List
<1>2. NoList.pc = "idle" /\ NoList.locked = {} /\ j2.pc = "pick" /\ j2.locked = {}
  BY DEF NoList
<1> QED BY <1>1, <1>2, NoListType DEF AfterDrop

(* Every step of a list request keeps the types. *)
LEMMA ListType ==
  ASSUME TypeOK, NEW w \in Windows, Listing(w)
  PROVE  TypeOK'
<1> DEFINE j == list[w]
<1>1. j \in List
  BY DEF TypeOK
<1>2. CASE ListTouch(w)
  <2> DEFINE let == IF j.release THEN HeldBy(w) ELSE {}
             mine == {c \in HeldBy(w) : w \notin Stale /\ c \notin let /\ ExamOf[c] = j.exam}
             finished == {c \in mine : Finished(j, c)}
             j2 == [j EXCEPT !.pc = "drop", !.finished = finished,
                             !.claim = j.claim /\ mine \subseteq finished]
  <2>1. ListStep(w, j2) \/ ListStep(w, AfterDrop(j, mine))
    BY <1>2 DEF ListTouch
  <2>2. j2 \in List
    BY <1>1 DEF List, HeldBy
  <2>3. window' = WindowsAfterTouch(w) /\ hold' = HoldsAfterTouch(w, j.exam, let)
    BY <1>2 DEF ListTouch
  <2> HIDE DEF j2, mine, let, j
  <2>4. window' \in [Windows -> {"gone", "live", "silent"}] /\ hold' \in [Cases -> Hold]
    BY <2>3, TouchType
  <2>5. \A c \in Cases : hold'[c].by = NoWindow \/ window'[hold'[c].by] # "gone"
    BY <2>3, TouchType DEF Free, TypeOK, Hold
  <2>6. list' \in [Windows -> List]
    BY <1>1, <2>1, <2>2, AfterDropType, ListStepType
  <2> QED BY <1>2, <2>4, <2>5, <2>6 DEF ListTouch, TypeOK
<1>3. CASE ListDrop(w)
  <2>1. list' \in [Windows -> List]
    BY <1>1, <1>3, AfterDropType, ListStepType DEF ListDrop
  <2> QED BY <1>3, <2>1 DEF ListDrop, TypeOK, Hold, Free
<1>4. CASE ListPick(w)
  <2>1. \A wanted \in SUBSET j.openIds : [j EXCEPT !.pc = "check", !.wanted = wanted] \in List
    BY <1>1 DEF List
  <2>2. list' \in [Windows -> List]
    BY <1>4, <2>1, NoListType, ListStepType DEF ListPick
  <2> QED BY <1>4, <2>2 DEF ListPick, TypeOK
<1>5. CASE ListCheck(w)
  <2> DEFINE j2 == [j EXCEPT !.pc = "hold", !.wanted = StillOpen(j),
                           !.openIds = @ \ (j.wanted \ StillOpen(j)),
                           !.locked = @ \cup {c \in j.wanted : ~SavingNow(c)}]
  <2>1. j2 \in List
    BY <1>1 DEF List, StillOpen
  <2>2. ListStep(w, j2)
    BY <1>5 DEF ListCheck
  <2> HIDE DEF j2
  <2> QED BY <1>5, <2>1, <2>2, ListStepType DEF ListCheck, TypeOK
<1>6. CASE ListHold(w)
  <2> DEFINE j2 == [j EXCEPT !.pc = "pick", !.wanted = {}, !.tries = @ + 1]
  <2>1. j.at \in Nat /\ j.tries + 1 \in Nat
    BY <1>1 DEF List
  <2>2. j2 \in List
    BY <1>1, <2>1 DEF List
  <2>3. ListStep(w, j2) /\ hold' = Holds(w, j.wanted, j.at, "batch")
    BY <1>6 DEF ListHold
  <2> HIDE DEF j2
  <2>4. hold' \in [Cases -> Hold]
        /\ \A c \in Cases : hold'[c].by = NoWindow \/ window[hold'[c].by] # "gone"
    BY <2>1, <2>3, HoldsType DEF TypeOK, Live
  <2> QED BY <1>6, <2>2, <2>3, <2>4, ListStepType DEF ListHold, TypeOK
<1> QED BY <1>2, <1>3, <1>4, <1>5, <1>6 DEF Listing

(* Beginning a list request keeps the types. *)
LEMMA ListReadType ==
  ASSUME TypeOK, NEW w \in Windows, NEW e \in Exams, NEW claim \in BOOLEAN,
         NEW release \in BOOLEAN, ListRead(w, e, claim, release)
  PROVE  TypeOK'
<1> DEFINE j2 == [NoList EXCEPT !.pc = "read", !.exam = e, !.at = clock, !.claim = claim,
                    !.release = release, !.seen = call,
                    !.listed = {c \in due : ExamOf[c] = e}]
<1>1. j2 \in List /\ ListStep(w, j2)
  BY NoListType DEF List, ListRead, TypeOK
<1>2. spent' \in [DOMAIN Bounds -> Nat]
  BY SpendType, BoundNames DEF ListRead
<1> HIDE DEF j2
<1> QED BY <1>1, <1>2, ListStepType DEF ListRead, TypeOK

(* The check of a save keeps the types. *)
LEMMA SaveCheckType ==
  ASSUME TypeOK, NEW r \in Save, SaveCheck(r)
  PROVE  saving' \subseteq Save
BY DEF SaveCheck, TypeOK

(* What the end of a save leaves of the holds. *)
LEMMA HoldAfterType ==
  ASSUME TypeOK, NEW r \in Save
  PROVE  /\ HoldAfter(r) \in [Cases -> Hold]
         /\ \A c \in Cases : c # r.case => HoldAfter(r)[c] = hold[c]
         /\ \/ r.status # NoAction /\ HoldAfter(r)[r.case] = Free
            \/ r.status = NoAction /\ HoldAfter(r)[r.case] = hold[r.case]
            \/ r.status = NoAction /\ HoldAfter(r)[r.case].by = r.window /\ Live(r.window)
<1>1. r.case \in Cases /\ r.window \in Windows /\ clock + 1 \in Nat
  BY DEF Save, TypeOK
<1>2. CASE r.status # NoAction
  BY <1>1, <1>2 DEF HoldAfter, TypeOK, Hold, Free
<1>3. CASE r.status = NoAction
  <2>1. HoldAfter(r) = Holds(r.window, {r.case}, clock + 1, "back")
    BY <1>3 DEF HoldAfter
  <2> QED BY <1>1, <1>3, <2>1, HoldsType
<1> QED BY <1>2, <1>3

(* Sending, queueing and writing a contact action keep the types. *)
LEMMA SaveType ==
  ASSUME TypeOK, NEW r \in Save,
         \/ SaveResend(r) \/ SaveSend(r.window, r.case, r.status)
         \/ SaveQueue(r.window, r.case, r.status)
         \/ \E lost \in BOOLEAN : SaveWrite(r, lost)
  PROVE  TypeOK'
<1>1. r = [window |-> r.window, case |-> r.case, status |-> r.status]
      /\ r.window \in Windows /\ r.case \in Cases /\ r.status \in Statuses
  BY DEF Save
<1>2. CASE SaveResend(r)
  BY <1>2, SaveCheckType DEF SaveResend, SaveCheck, TypeOK
<1>3. CASE SaveSend(r.window, r.case, r.status)
  <2>1. spent' \in [DOMAIN Bounds -> Nat] /\ SaveCheck(r)
    BY <1>1, <1>3, SpendType, BoundNames DEF SaveSend
  <2> QED BY <1>3, <2>1, SaveCheckType DEF SaveSend, SaveCheck, TypeOK
<1>4. CASE SaveQueue(r.window, r.case, r.status)
  <2>1. spent' \in [DOMAIN Bounds -> Nat] /\ queued' = queued \cup {r}
    BY <1>1, <1>4, SpendType, BoundNames DEF SaveQueue
  <2> QED BY <1>4, <2>1 DEF SaveQueue, TypeOK
<1>5. ASSUME NEW lost \in BOOLEAN, SaveWrite(r, lost) PROVE TypeOK'
  <2>1. spent' \in [DOMAIN Bounds -> Nat] /\ queued' \subseteq Save
    BY <1>5, SpendType, BoundNames DEF SaveWrite, TypeOK
  <2>2. call' \in [Cases -> Call] /\ clock' \in Nat /\ saving' \subseteq Save
    BY <1>1, <1>5 DEF SaveWrite, TypeOK, Call
  <2>3. hold' = HoldAfter(r)
    BY <1>5 DEF SaveWrite
  <2>4. hold' \in [Cases -> Hold]
        /\ \A c \in Cases : hold'[c].by = NoWindow \/ window[hold'[c].by] # "gone"
    BY <1>1, <2>3, HoldAfterType DEF TypeOK, Free, Live
  <2> QED BY <1>5, <2>1, <2>2, <2>4 DEF SaveWrite, TypeOK
<1> QED BY <1>2, <1>3, <1>4, <1>5

(* A case that appears or disappears keeps the types. *)
LEMMA CaseChangeType ==
  ASSUME TypeOK, NEW c \in Cases, CaseChange(c)
  PROVE  TypeOK'
<1>1. spent' \in [DOMAIN Bounds -> Nat]
  BY SpendType, BoundNames DEF CaseChange
<1> QED BY <1>1 DEF CaseChange, TypeOK

(***************************************************************************)
(* The steps of Next in the shape the lemmas take them: a save is the      *)
(* record it sends.                                                        *)
(***************************************************************************)
Saves(r) ==
  \/ SaveResend(r) \/ SaveSend(r.window, r.case, r.status)
  \/ SaveQueue(r.window, r.case, r.status)
  \/ \E lost \in BOOLEAN : SaveWrite(r, lost)
Takes(w) ==
  \/ TakeResume(w)
  \/ \E c \in Cases, s \in Statuses : TakeAtOnce(w, c, s) \/ TakeWait(w, c, s)
Windowing(w) ==
  ClosePage(w) \/ CloseWindow(w) \/ Lapse(w) \/ \E e \in Exams : Beat(w, e)
Reads(w) == \E e \in Exams, claim, release \in BOOLEAN : ListRead(w, e, claim, release)

(* The disjuncts of Next, grouped as the proofs split them. *)
LEMMA NextCases ==
  ASSUME TypeOK, Next
  PROVE  \/ \E w \in Windows : Windowing(w) \/ Takes(w) \/ Reads(w) \/ Listing(w)
         \/ \E r \in Save : Saves(r)
         \/ \E c \in Cases : CaseChange(c)
<1>1. ASSUME NEW w \in Windows, NEW c \in Cases, NEW s \in Statuses,
             SaveSend(w, c, s) \/ SaveQueue(w, c, s)
      PROVE  \E r \in Save : Saves(r)
  <2> DEFINE r == [window |-> w, case |-> c, status |-> s]
  <2>1. r \in Save /\ r.window = w /\ r.case = c /\ r.status = s
    BY DEF Save
  <2>2. Saves(r)
    BY <1>1, <2>1 DEF Saves
  <2> QED BY <2>1, <2>2
<1>2. \A r \in queued \cup saving : r \in Save
  BY DEF TypeOK
<1> QED BY <1>1, <1>2 DEF Next, Windowing, Takes, Reads, Saves

(* One step from a well typed state leads to a well typed state. *)
LEMMA TypeNext ==
  ASSUME TypeOK, [Next]_vars
  PROVE  TypeOK'
<1>1. CASE UNCHANGED vars
  BY <1>1 DEF vars, TypeOK
<1>2. ASSUME NEW w \in Windows, Windowing(w) PROVE TypeOK'
  BY <1>2, PageType, BeatType DEF Windowing
<1>3. ASSUME NEW w \in Windows, Takes(w) PROVE TypeOK'
  <2>1. CASE TakeResume(w) /\ Cases # {}
    <3>1. NoAction \in Statuses
      BY DEF Statuses
    <3> QED BY <2>1, <3>1, TakeType
  <2>2. CASE TakeResume(w) /\ Cases = {}
    BY <2>2 DEF TakeResume, TypeOK, Take
  <2> QED BY <1>3, <2>1, <2>2, TakeType DEF Takes
<1>4. ASSUME NEW w \in Windows, Reads(w) PROVE TypeOK'
  BY <1>4, ListReadType DEF Reads
<1> QED BY <1>1, <1>2, <1>3, <1>4, NextCases, ListType, SaveType, CaseChangeType DEF Saves

(***************************************************************************)
(* The tables keep their shape, and a hold always belongs to a window that *)
(* has a row (the foreign key of CallReservation).                         *)
(***************************************************************************)
THEOREM CallsTypeCorrect == Spec => []TypeOK
<1>1. Init => TypeOK
  BY NoListType, BoundNames DEF Init, TypeOK, Bounds, Call, NotCalled, Statuses, Hold, Free
<1> QED BY <1>1, TypeNext, PTL DEF Spec

-----------------------------------------------------------------------------
(***************************************************************************)
(* The two locks of a case exclude each other and a save excludes another; *)
(* what a claim is about to hold is locked and, while it is, uncalled.     *)
(* Nobody but its sender (or an overseer) has a live hold on a case whose  *)
(* action is being written.                                                *)
(***************************************************************************)
LocksExclude ==
  /\ \A w \in Windows : \A c \in list[w].locked : ~SavingNow(c)
  /\ \A r, q \in saving : r.case = q.case => r = q
ClaimsUncalled ==
  \A w \in Windows : list[w].pc = "hold" =>
    \A c \in list[w].wanted : c \in list[w].locked /\ call[c].status = NoAction
FreeOrOwn(r) ==
  r.window \in Overseers \/ ~Live(hold[r.case].by) \/ hold[r.case].by = r.window
SavesFreeOrOwn == \A r \in saving : FreeOrOwn(r)

LockInv == LocksExclude /\ ClaimsUncalled
SafeInv == LockInv /\ BatchIsUncalled /\ SavesFreeOrOwn

(* A step that leaves the saves alone frees no lock of a save. *)
LEMMA LockSame ==
  ASSUME LockInv, UNCHANGED <<list, saving, call>>
  PROVE  LockInv'
BY DEF LockInv, LocksExclude, ClaimsUncalled, SavingNow

(* A hold that stays, in the hands of a window that was live if it is. *)
Stays(c) ==
  /\ hold'[c] = hold[c]
  /\ hold[c].by # NoWindow /\ window'[hold[c].by] = "live" => Live(hold[c].by)

(* A hold that appears is by hand, or on an uncalled case, and never on one being saved. *)
LEMMA HoldsStep ==
  ASSUME TypeOK, SafeInv, UNCHANGED <<saving, call>>, LockInv',
         \A c \in Cases :
           \/ hold'[c] = Free
           \/ Stays(c)
           \/ ~SavingNow(c) /\ (hold'[c].origin = "hand" \/ call[c].status = NoAction)
  PROVE  SafeInv'
<1>1. BatchIsUncalled'
  BY DEF SafeInv, BatchIsUncalled, Free, Stays
<1>2. \A r \in saving : r.case \in Cases /\ SavingNow(r.case)
  BY DEF TypeOK, Save, SavingNow
<1>3. ~Live(NoWindow)'
  BY DEF Live
<1>4. ASSUME NEW r \in saving PROVE FreeOrOwn(r)'
  <2>1. FreeOrOwn(r)
    BY DEF SafeInv, SavesFreeOrOwn
  <2>2. hold'[r.case] = Free \/ Stays(r.case)
    BY <1>2
  <2>3. CASE hold'[r.case] = Free
    BY <1>3, <2>3 DEF FreeOrOwn, Free
  <2>4. CASE Stays(r.case)
    BY <2>1, <2>4 DEF FreeOrOwn, Live, Stays
  <2> QED BY <2>2, <2>3, <2>4
<1> QED BY <1>1, <1>4 DEF SafeInv, SavesFreeOrOwn

(* After a touch a live holder was live before. *)
LEMMA TouchSafe ==
  ASSUME TypeOK, NEW w \in Windows, NEW e, NEW let, window' = WindowsAfterTouch(w),
         NEW c \in Cases,
         hold'[c] = HoldsAfterTouch(w, e, let)[c]
  PROVE  hold'[c] = Free \/ Stays(c)
<1>1. CASE hold'[c] = hold[c] /\ hold[c].by \notin Stale
  BY <1>1 DEF TypeOK, Hold, Stale, Live, Stays
<1> QED BY <1>1, TouchType

(* Beats, closings and lapses only end holds, or make them not live. *)
LEMMA WindowingSafe ==
  ASSUME TypeOK, SafeInv, NEW w \in Windows, Windowing(w)
  PROVE  SafeInv'
<1>1. UNCHANGED <<list, saving, call>>
  BY DEF Windowing, ClosePage, CloseWindow, Lapse, Beat
<1>2. LockInv'
  BY <1>1, LockSame DEF SafeInv
<1>3. CASE \E e \in Exams : Beat(w, e)
  BY <1>1, <1>2, <1>3, TouchSafe, HoldsStep DEF Beat
<1>4. CASE ClosePage(w)
  BY <1>1, <1>2, <1>4, HoldsStep DEF ClosePage, Live, Stays
<1>5. CASE CloseWindow(w)
  BY <1>1, <1>2, <1>5, HoldsStep DEF CloseWindow, Live, TypeOK, Stays
<1>6. CASE Lapse(w)
  BY <1>1, <1>2, <1>6, HoldsStep DEF Lapse, Live, TypeOK, Stays
<1> QED BY <1>3, <1>4, <1>5, <1>6 DEF Windowing

(* A take waits for the save on its case, so it gives nobody a case under a save. *)
LEMMA TakesSafe ==
  ASSUME TypeOK, SafeInv, NEW w \in Windows, Takes(w)
  PROVE  SafeInv'
<1>1. UNCHANGED <<list, saving, call>>
  BY DEF Takes, TakeResume, TakeAtOnce, TakeWait, TakeCase
<1>2. LockInv'
  BY <1>1, LockSame DEF SafeInv
<1>3. ASSUME NEW t \in Take, TakeCase(w, t) PROVE SafeInv'
  <2> DEFINE kept == HoldsAfterTouch(w, ExamOf[t.case], {})
             mine == [by |-> w, since |-> t.at, origin |-> "hand"]
  <2>1. window' = WindowsAfterTouch(w) /\ ~SavingNow(t.case)
        /\ (hold' = kept \/ hold' = [kept EXCEPT ![t.case] = mine])
    BY <1>3 DEF TakeCase
  <2>2. mine.origin = "hand" /\ kept \in [Cases -> Hold]
    BY TouchType
  <2>3. \A c \in Cases : hold'[c] = kept[c] => hold'[c] = Free \/ Stays(c)
    BY <2>1, TouchSafe
  <2> HIDE DEF kept, mine
  <2>4. \A c \in Cases :
           \/ hold'[c] = Free
           \/ Stays(c)
           \/ ~SavingNow(c) /\ (hold'[c].origin = "hand" \/ call[c].status = NoAction)
    BY <2>1, <2>2, <2>3
  <2> QED BY <1>1, <1>2, <2>4, HoldsStep
<1>4. ASSUME NEW c \in Cases, NEW s \in Statuses
      PROVE  [case |-> c, seen |-> s, at |-> clock] \in Take
  BY DEF Take, TypeOK
<1>5. \A t \in take[w] : t \in Take
  BY DEF TypeOK
<1>6. ASSUME NEW c \in Cases, NEW s \in Statuses, TakeWait(w, c, s) PROVE SafeInv'
  BY <1>1, <1>2, <1>6, HoldsStep DEF TakeWait, Live, Stays
<1> QED BY <1>3, <1>4, <1>5, <1>6 DEF Takes, TakeResume, TakeAtOnce

(* A list step that locks only cases nobody saves, and holds only what it locked. *)
LEMMA LockList ==
  ASSUME TypeOK, LockInv, UNCHANGED <<saving, call>>, NEW w \in Windows, NEW j \in List,
         ListStep(w, j),
         \A c \in j.locked : ~SavingNow(c),
         j.pc = "hold" => \A c \in j.wanted : c \in j.locked /\ call[c].status = NoAction
  PROVE  LockInv'
<1>1. \A v \in Windows : list'[v] = IF v = w THEN j ELSE list[v]
  BY DEF ListStep, TypeOK
<1>2. \A c : SavingNow(c)' = SavingNow(c)
  BY DEF SavingNow
<1> QED BY <1>1, <1>2 DEF LockInv, LocksExclude, ClaimsUncalled

(* A new list request holds no lock. *)
LEMMA ListReadSafe ==
  ASSUME TypeOK, SafeInv, NEW w \in Windows, Reads(w)
  PROVE  SafeInv'
<1>1. PICK e \in Exams, claim \in BOOLEAN, release \in BOOLEAN : ListRead(w, e, claim, release)
  BY DEF Reads
<1> DEFINE j2 == [NoList EXCEPT !.pc = "read", !.exam = e, !.at = clock, !.claim = claim,
                    !.release = release, !.seen = call,
                    !.listed = {c \in due : ExamOf[c] = e}]
<1>2. j2 \in List /\ ListStep(w, j2)
  BY <1>1, NoListType DEF List, ListRead, TypeOK
<1>3. j2.pc = "read" /\ j2.locked = {}
  BY DEF NoList
<1> HIDE DEF j2
<1>4. LockInv'
  BY <1>1, <1>2, <1>3, LockList DEF ListRead, SafeInv
<1> QED BY <1>1, <1>4, HoldsStep DEF ListRead, Live, Stays

(* A claim locks the cases it found open until its holds are placed. *)
LEMMA ListSafe ==
  ASSUME TypeOK, SafeInv, NEW w \in Windows, Listing(w)
  PROVE  SafeInv'
<1> DEFINE j == list[w]
<1>1. j \in List /\ UNCHANGED <<saving, call>> /\ LockInv
      /\ (\A c \in j.locked : ~SavingNow(c))
  BY DEF TypeOK, Listing, ListTouch, ListDrop, ListPick, ListCheck, ListHold, SafeInv, LockInv,
         LocksExclude
<1>2. NoList.pc = "idle" /\ NoList.locked = {}
  BY DEF NoList
<1>3. CASE ListTouch(w)
  <2> DEFINE let == IF j.release THEN HeldBy(w) ELSE {}
             mine == {c \in HeldBy(w) : w \notin Stale /\ c \notin let /\ ExamOf[c] = j.exam}
             finished == {c \in mine : Finished(j, c)}
             j2 == [j EXCEPT !.pc = "drop", !.finished = finished,
                             !.claim = j.claim /\ mine \subseteq finished]
  <2>1. ListStep(w, j2) \/ ListStep(w, AfterDrop(j, mine))
    BY <1>3 DEF ListTouch
  <2>2. j2 \in List /\ j2.pc = "drop" /\ j2.locked = j.locked
    BY <1>1 DEF List, HeldBy
  <2>3. window' = WindowsAfterTouch(w) /\ hold' = HoldsAfterTouch(w, j.exam, let)
    BY <1>3 DEF ListTouch
  <2> HIDE DEF j2, mine, let
  <2>4. LockInv'
    BY <1>1, <2>1, <2>2, AfterDropType, LockList
  <2> QED BY <1>1, <2>3, <2>4, TouchSafe, HoldsStep
<1>4. CASE ListDrop(w)
  <2>1. LockInv'
    BY <1>1, <1>4, AfterDropType, LockList DEF ListDrop
  <2> QED BY <1>1, <1>4, <2>1, HoldsStep DEF ListDrop, Live, Stays
<1>5. CASE ListPick(w)
  <2>1. \A wanted \in SUBSET j.openIds :
          LET j2 == [j EXCEPT !.pc = "check", !.wanted = wanted] IN
          j2 \in List /\ j2.pc = "check" /\ j2.locked = j.locked
    BY <1>1 DEF List
  <2>2. LockInv'
    BY <1>1, <1>2, <1>5, <2>1, NoListType, LockList DEF ListPick
  <2> QED BY <1>1, <1>5, <2>2, HoldsStep DEF ListPick, Live, Stays
<1>6. CASE ListCheck(w)
  <2> DEFINE free == {c \in j.wanted : ~SavingNow(c)}
             j2 == [j EXCEPT !.pc = "hold", !.wanted = StillOpen(j),
                           !.openIds = @ \ (j.wanted \ StillOpen(j)),
                           !.locked = @ \cup free]
  <2>1. ListStep(w, j2)
    BY <1>6 DEF ListCheck
  <2>2. j2 \in List /\ j2.wanted = StillOpen(j) /\ j2.locked = j.locked \cup free
    BY <1>1 DEF List, StillOpen
  <2>3. \A c \in StillOpen(j) : c \in free /\ call[c].status = NoAction
    BY DEF StillOpen, OpenForBatch
  <2> HIDE DEF j2
  <2>4. \A c \in j2.locked : ~SavingNow(c)
    BY <1>1, <2>2
  <2>5. LockInv'
    BY <1>1, <2>1, <2>2, <2>3, <2>4, LockList
  <2> QED BY <1>1, <1>6, <2>5, HoldsStep DEF ListCheck, Live, Stays
<1>7. CASE ListHold(w)
  <2> DEFINE j2 == [j EXCEPT !.pc = "pick", !.wanted = {}, !.tries = @ + 1]
  <2>1. j.at \in Nat /\ j.tries + 1 \in Nat
    BY <1>1 DEF List
  <2>2. j2 \in List /\ j2.pc = "pick" /\ j2.locked = j.locked
    BY <1>1, <2>1 DEF List
  <2>3. ListStep(w, j2) /\ hold' = Holds(w, j.wanted, j.at, "batch")
    BY <1>7 DEF ListHold
  <2>4. \A c \in j.wanted : ~SavingNow(c) /\ call[c].status = NoAction
    BY <1>1, <1>7 DEF ListHold, LockInv, ClaimsUncalled
  <2> HIDE DEF j2
  <2>5. LockInv'
    BY <1>1, <2>2, <2>3, LockList
  <2>6. \A c \in Cases : hold'[c] = hold[c] \/ c \in j.wanted
    BY <2>1, <2>3, HoldsType
  <2>7. UNCHANGED window
    BY <1>7 DEF ListHold
  <2> QED BY <1>1, <2>4, <2>5, <2>6, <2>7, HoldsStep DEF Live, Stays
<1> QED BY <1>3, <1>4, <1>5, <1>6, <1>7 DEF Listing

(* A save that passes its check finds its case free or its own, and unclaimed. *)
LEMMA SaveCheckSafe ==
  ASSUME TypeOK, SafeInv, NEW r \in Save, SaveCheck(r)
  PROVE  SafeInv'
<1>1. UNCHANGED <<window, call, hold, list>> /\ ~SavingNow(r.case) /\ ~ClaimingNow(r.case)
      /\ (saving' = saving \/ (saving' = saving \cup {r} /\ ~HeldByOther(r)))
  BY DEF SaveCheck
<1>2. LocksExclude'
  BY <1>1 DEF SafeInv, LockInv, LocksExclude, SavingNow, ClaimingNow
<1>3. ClaimsUncalled' /\ BatchIsUncalled'
  BY <1>1 DEF SafeInv, LockInv, ClaimsUncalled, BatchIsUncalled
<1>4. SavesFreeOrOwn'
  BY <1>1 DEF SafeInv, SavesFreeOrOwn, FreeOrOwn, HeldByOther, Live
<1> QED BY <1>2, <1>3, <1>4 DEF SafeInv, LockInv

(* The write of an action ends the hold it contradicts. *)
LEMMA SaveWriteSafe ==
  ASSUME TypeOK, SafeInv, NEW r \in Save, NEW lost \in BOOLEAN, SaveWrite(r, lost)
  PROVE  SafeInv'
<1>1. UNCHANGED <<window, list>> /\ r \in saving /\ saving' = saving \ {r} /\ hold' = HoldAfter(r)
  BY DEF SaveWrite
<1>2. r.case \in Cases /\ \A c \in Cases : call'[c].status = IF c = r.case THEN r.status ELSE call[c].status
  BY DEF SaveWrite, TypeOK, Save
<1>3. LocksExclude'
  BY <1>1 DEF SafeInv, LockInv, LocksExclude, SavingNow
<1>4. SavingNow(r.case)
  BY <1>1 DEF SavingNow
<1>5. ClaimsUncalled'
  <2>1. \A w \in Windows : list[w].wanted \subseteq Cases
    BY DEF TypeOK, List
  <2> QED BY <1>1, <1>2, <1>4, <2>1 DEF SafeInv, LockInv, LocksExclude, ClaimsUncalled
<1>6. BatchIsUncalled'
  <2>1. ASSUME NEW c \in Cases, c # r.case, hold'[c].origin \in {"batch", "back"}
        PROVE  call'[c].status = NoAction
    BY <1>1, <1>2, <2>1, HoldAfterType DEF SafeInv, BatchIsUncalled
  <2>2. ASSUME hold'[r.case].origin \in {"batch", "back"} PROVE call'[r.case].status = NoAction
    BY <1>1, <1>2, <2>2, HoldAfterType DEF Free
  <2> QED BY <2>1, <2>2 DEF BatchIsUncalled
<1>7. SavesFreeOrOwn'
  <2>1. \A q \in saving' : q.case # r.case /\ q.case \in Cases /\ FreeOrOwn(q)
    BY <1>1 DEF SafeInv, LockInv, LocksExclude, SavesFreeOrOwn, TypeOK, Save
  <2> QED BY <1>1, <2>1, HoldAfterType DEF SavesFreeOrOwn, FreeOrOwn, Live
<1> QED BY <1>3, <1>5, <1>6, <1>7 DEF SafeInv, LockInv

(* Steps that touch neither holds nor locks nor call rows keep the invariant. *)
LEMMA SafeQuiet ==
  ASSUME SafeInv, UNCHANGED <<window, call, hold, list, saving>>
  PROVE  SafeInv'
BY DEF SafeInv, LockInv, LocksExclude, ClaimsUncalled, SavingNow, BatchIsUncalled,
       SavesFreeOrOwn, FreeOrOwn, Live

(* Every step of a save keeps the invariant. *)
LEMMA SavesSafe ==
  ASSUME TypeOK, SafeInv, NEW r \in Save, Saves(r)
  PROVE  SafeInv'
<1>1. r = [window |-> r.window, case |-> r.case, status |-> r.status]
  BY DEF Save
<1>2. CASE SaveQueue(r.window, r.case, r.status)
  BY <1>2, SafeQuiet DEF SaveQueue
<1> QED BY <1>1, <1>2, SaveCheckSafe, SaveWriteSafe DEF Saves, SaveResend, SaveSend

(* The inductive step of the safety invariant. *)
LEMMA SafeNext ==
  ASSUME TypeOK, SafeInv, [Next]_vars
  PROVE  SafeInv'
<1>1. CASE UNCHANGED vars
  BY <1>1, SafeQuiet DEF vars
<1>2. ASSUME NEW c \in Cases, CaseChange(c) PROVE SafeInv'
  BY <1>2, SafeQuiet DEF CaseChange
<1> QED BY <1>1, <1>2, NextCases, WindowingSafe, TakesSafe, ListReadSafe, ListSafe, SavesSafe

(* The types and the safety invariant hold in every reachable state. *)
LEMMA SafeAlways == Spec => [](TypeOK /\ SafeInv)
<1>1. Init => SafeInv
  BY DEF Init, SafeInv, LockInv, LocksExclude, ClaimsUncalled, NoList, BatchIsUncalled, Free,
         SavesFreeOrOwn
<1> QED BY <1>1, SafeNext, CallsTypeCorrect, PTL DEF Spec

(***************************************************************************)
(* However claims, takes, saves and retries interleave, a student in a     *)
(* batch has no action on record.                                          *)
(***************************************************************************)
THEOREM BatchesUncalled == Spec => []BatchIsUncalled
BY SafeAlways, PTL DEF SafeInv

(***************************************************************************)
(* Whatever happens between the check of a save and its write, the action  *)
(* lands on a student who is free or held by the window that acts.         *)
(***************************************************************************)
THEOREM ActionsOnFreeOrOwn == Spec => ActsOnlyOnFreeOrOwn
<1>1. SafeInv /\ [Next]_vars =>
        [\A r \in saving \ saving' :
           r.window \in Overseers \/ ~Live(hold[r.case].by) \/ hold[r.case].by = r.window]_vars
  BY DEF SafeInv, SavesFreeOrOwn, FreeOrOwn
<1> QED BY <1>1, SafeAlways, PTL DEF Spec, ActsOnlyOnFreeOrOwn

-----------------------------------------------------------------------------
(* A window that wakes has just been touched, and a touch leaves it what it had as a live *)
(* window only.                                                                           *)
Wakes(w) == ~Live(w) /\ window'[w] = "live"

LEMMA TouchWakes ==
  ASSUME TypeOK, NEW w \in Windows, NEW v \in Windows, window' = WindowsAfterTouch(w), Wakes(v)
  PROVE  w = v /\ \A e, let : \A c \in Cases : HoldsAfterTouch(w, e, let)[c].by # v
<1>1. w = v
  BY DEF WindowsAfterTouch, Wakes, Live, TypeOK
<1>2. ASSUME NEW e, NEW let, NEW c \in Cases PROVE HoldsAfterTouch(w, e, let)[c].by # v
  <2>1. v # NoWindow /\ window[v] \in {"gone", "silent"}
    BY DEF Wakes, Live, TypeOK
  <2>2. hold[c].by = v => v \in Stale
    BY <2>1 DEF TypeOK, Stale
  <2> QED BY <2>1, <2>2 DEF HoldsAfterTouch, Kept, Free
<1> QED BY <1>1, <1>2

(* What the theorem says of a window v that wakes. *)
AloneByHand(v) ==
  \A c \in WakesWith(v) : TakesNow(v) /\ hold'[c].origin = "hand" /\ WakesWith(v) = {c}

LEMMA TakesWake ==
  ASSUME TypeOK, NEW w \in Windows, NEW t \in Take, TakeCase(w, t), NEW v \in Windows, Wakes(v),
         w = v => TakesNow(w)
  PROVE  AloneByHand(v)
<1> DEFINE kept == HoldsAfterTouch(w, ExamOf[t.case], {})
           mine == [by |-> w, since |-> t.at, origin |-> "hand"]
<1>1. window' = WindowsAfterTouch(w) /\ (hold' = kept \/ hold' = [kept EXCEPT ![t.case] = mine])
  BY DEF TakeCase
<1>2. w = v /\ \A c \in Cases : kept[c].by # v
  BY <1>1, TouchWakes
<1>3. mine.origin = "hand" /\ kept \in [Cases -> Hold]
  BY TouchType
<1> HIDE DEF kept, mine
<1>4. \A c \in Cases : hold'[c].by = v => c = t.case /\ hold'[c].origin = "hand"
  BY <1>1, <1>2, <1>3
<1> QED BY <1>2, <1>4 DEF AloneByHand, WakesWith

LEMMA NextWakes ==
  ASSUME TypeOK, Next, NEW v \in Windows, Wakes(v)
  PROVE  AloneByHand(v)
<1>1. ASSUME NEW w \in Windows, Windowing(w) PROVE AloneByHand(v)
  <2>1. PICK e \in Exams : Beat(w, e)
    BY <1>1 DEF Windowing, ClosePage, CloseWindow, Lapse, Wakes, Live, TypeOK
  <2> QED BY <2>1, TouchWakes DEF Beat, AloneByHand, WakesWith
<1>2. ASSUME NEW w \in Windows, Takes(w) PROVE AloneByHand(v)
  <2>1. CASE TakeResume(w)
    <3>1. PICK t \in take[w] : TakeCase(w, t)
      BY <2>1 DEF TakeResume
    <3>2. t \in Take
      BY DEF TypeOK
    <3>3. TakesNow(w)
      BY <2>1 DEF TakeResume, TakesNow, TypeOK
    <3> QED BY <3>1, <3>2, <3>3, TakesWake
  <2>2. ASSUME NEW c \in Cases, NEW s \in Statuses, TakeAtOnce(w, c, s) PROVE AloneByHand(v)
    <3> DEFINE t == [case |-> c, seen |-> s, at |-> clock]
    <3>1. t \in Take /\ TakeCase(w, t)
      BY <2>2 DEF Take, TypeOK, TakeAtOnce
    <3> HIDE DEF t
    <3>2. TakesNow(w)
      <4>1. "takes" \in DOMAIN Bounds
        BY BoundNames
      <4>2. spent.takes \in Nat /\ spent'.takes = spent.takes + 1
        BY <2>2, <4>1 DEF TakeAtOnce, Spend, TypeOK
      <4> QED BY <4>2 DEF TakesNow
    <3> QED BY <3>1, <3>2, TakesWake
  <2>3. ASSUME NEW c \in Cases, NEW s \in Statuses, TakeWait(w, c, s) PROVE AloneByHand(v)
    BY <2>3 DEF TakeWait, Wakes, Live
  <2> QED BY <1>2, <2>1, <2>2, <2>3 DEF Takes
<1>3. ASSUME NEW w \in Windows, Reads(w) PROVE AloneByHand(v)
  BY <1>3 DEF Reads, ListRead, Wakes, Live
<1>4. ASSUME NEW w \in Windows, Listing(w) PROVE AloneByHand(v)
  <2>1. CASE ListTouch(w)
    <3>1. window' = WindowsAfterTouch(w) /\ \E e, let : hold' = HoldsAfterTouch(w, e, let)
      BY <2>1 DEF ListTouch
    <3> QED BY <3>1, TouchWakes DEF AloneByHand, WakesWith
  <2> QED BY <1>4, <2>1 DEF Listing, ListDrop, ListPick, ListCheck, ListHold, Wakes, Live
<1>5. ASSUME NEW r \in Save, Saves(r) PROVE AloneByHand(v)
  BY <1>5 DEF Saves, SaveResend, SaveSend, SaveQueue, SaveWrite, SaveCheck, Wakes, Live
<1>6. ASSUME NEW c \in Cases, CaseChange(c) PROVE AloneByHand(v)
  BY <1>6 DEF CaseChange, Wakes, Live
<1> QED BY <1>1, <1>2, <1>3, <1>4, <1>5, <1>6, NextCases

(***************************************************************************)
(* Whoever was told that a silent window's students are free may rely on   *)
(* it: the window comes back with none of them, however late its beats,    *)
(* lists and takes arrive, and with one student only if it takes it then.  *)
(***************************************************************************)
THEOREM SilentWakesEmpty == Spec => SilentNeverWakesHolding
<1>1. TypeOK /\ [Next]_vars =>
        [\A w \in Windows : ~Live(w) /\ window'[w] = "live" =>
           \A c \in WakesWith(w) :
             TakesNow(w) /\ hold'[c].origin = "hand" /\ WakesWith(w) = {c}]_vars
  <2> SUFFICES ASSUME TypeOK, Next, NEW w \in Windows, ~Live(w) /\ window'[w] = "live"
               PROVE  \A c \in WakesWith(w) :
                        TakesNow(w) /\ hold'[c].origin = "hand" /\ WakesWith(w) = {c}
    OBVIOUS
  <2> QED BY NextWakes DEF Wakes, AloneByHand
<1> QED BY <1>1, CallsTypeCorrect, PTL DEF Spec, SilentNeverWakesHolding

-----------------------------------------------------------------------------
(***************************************************************************)
(* The refinement of CallDuty.  What a step does to the duty of one case:  *)
(* the same steps as the abstract ones, on OnDuty and ActingOn.            *)
(***************************************************************************)
MayAct(c, w) == w \in Overseers \/ OnDuty(c) \in {NoWindow, w}

DutyStay(c) == OnDuty(c)' = OnDuty(c) /\ ActingOn(c)' = ActingOn(c)
DutyYield(c) == OnDuty(c)' = NoWindow /\ ActingOn(c)' = ActingOn(c)
DutyGrant(c) ==
  OnDuty(c) = NoWindow /\ ActingOn(c) = {} /\ OnDuty(c)' \in Windows /\ ActingOn(c)' = {}
DutyBegin(c) ==
  /\ OnDuty(c)' = OnDuty(c) /\ ActingOn(c) = {}
  /\ \E w \in Windows : MayAct(c, w) /\ ActingOn(c)' = {w}
DutyFinish(c) ==
  \E w \in ActingOn(c) :
    /\ MayAct(c, w) /\ ActingOn(c)' = {}
    /\ OnDuty(c)' \in {NoWindow, OnDuty(c), w}
    /\ OnDuty(c)' = w => OnDuty(c) \in {NoWindow, w}

DutyMove(c) ==
  DutyStay(c) \/ DutyYield(c) \/ DutyGrant(c) \/ DutyBegin(c) \/ DutyFinish(c)

(* A case with no save running is acted on by nobody. *)
LEMMA ActingNone ==
  ASSUME NEW c
  PROVE  (~SavingNow(c) <=> ActingOn(c) = {})
BY DEF ActingOn, SavingNow

(***************************************************************************)
(* A step that only moves holds: each ends, stays, or appears on a case    *)
(* that no live window held and nobody saves.                              *)
(***************************************************************************)
HoldMove(c) ==
  \/ hold'[c] = Free
  \/ Stays(c)
  \/ ~SavingNow(c) /\ ~Live(hold[c].by) /\ hold'[c].by \in Windows /\ window'[hold'[c].by] = "live"

(* Such a step moves the duty as CallDuty allows. *)
LEMMA HoldsDuty ==
  ASSUME TypeOK, UNCHANGED saving, NEW c \in Cases, HoldMove(c)
  PROVE  DutyMove(c)
<1>1. ActingOn(c)' = ActingOn(c)
  BY DEF ActingOn
<1>2. CASE hold'[c] = Free
  <2>1. OnDuty(c)' = NoWindow
    BY <1>2 DEF OnDuty, Live, Free
  <2> QED BY <1>1, <2>1 DEF DutyMove, DutyYield
<1>3. CASE Stays(c)
  <2>1. OnDuty(c)' \in {OnDuty(c), NoWindow}
    BY <1>3 DEF OnDuty, Live, Stays
  <2> QED BY <1>1, <2>1 DEF DutyMove, DutyYield, DutyStay
<1>4. CASE ~SavingNow(c) /\ ~Live(hold[c].by) /\ hold'[c].by \in Windows /\ window'[hold'[c].by] = "live"
  <2>1. OnDuty(c) = NoWindow /\ OnDuty(c)' \in Windows
    BY <1>4 DEF OnDuty, Live
  <2> QED BY <1>1, <1>4, <2>1, ActingNone DEF DutyMove, DutyGrant
<1> QED BY <1>2, <1>3, <1>4 DEF HoldMove

(* Beats, closings and lapses end duty. *)
LEMMA WindowingDuty ==
  ASSUME TypeOK, NEW w \in Windows, Windowing(w)
  PROVE  UNCHANGED saving /\ \A c \in Cases : HoldMove(c)
<1>1. CASE \E e \in Exams : Beat(w, e)
  BY <1>1, TouchSafe DEF Beat, HoldMove
<1>2. CASE ClosePage(w)
  BY <1>2 DEF ClosePage, Live, Stays, HoldMove
<1>3. CASE CloseWindow(w)
  BY <1>3 DEF CloseWindow, Live, TypeOK, Stays, HoldMove
<1>4. CASE Lapse(w)
  BY <1>4 DEF Lapse, Live, TypeOK, Stays, HoldMove
<1> QED BY <1>1, <1>2, <1>3, <1>4 DEF Windowing

(* A take gives a case no live window held, unless it is being saved. *)
LEMMA TakesDuty ==
  ASSUME TypeOK, NEW w \in Windows, Takes(w)
  PROVE  UNCHANGED saving /\ \A c \in Cases : HoldMove(c)
<1>1. ASSUME NEW t \in Take, TakeCase(w, t) PROVE UNCHANGED saving /\ \A c \in Cases : HoldMove(c)
  <2> DEFINE kept == HoldsAfterTouch(w, ExamOf[t.case], {})
             mine == [by |-> w, since |-> t.at, origin |-> "hand"]
  <2>1. window' = WindowsAfterTouch(w) /\ ~SavingNow(t.case) /\ UNCHANGED saving
        /\ (hold' = kept \/ (hold' = [kept EXCEPT ![t.case] = mine] /\ kept[t.case].by = NoWindow))
    BY <1>1 DEF TakeCase
  <2>2. mine.by = w /\ window'[w] = "live" /\ kept \in [Cases -> Hold] /\ t.case \in Cases
    BY <2>1, TouchType DEF WindowsAfterTouch, Take
  <2>3. \A c \in Cases : hold'[c] = kept[c] => hold'[c] = Free \/ Stays(c)
    BY <2>1, TouchSafe
  <2>4. kept[t.case].by = NoWindow => ~Live(hold[t.case].by)
    BY <2>2 DEF HoldsAfterTouch, Kept, Live, Stale, TypeOK, Hold, Free
  <2> HIDE DEF kept, mine
  <2> QED BY <2>1, <2>2, <2>3, <2>4 DEF HoldMove
<1>2. ASSUME NEW c \in Cases, NEW s \in Statuses
      PROVE  [case |-> c, seen |-> s, at |-> clock] \in Take
  BY DEF Take, TypeOK
<1>3. \A t \in take[w] : t \in Take
  BY DEF TypeOK
<1>4. ASSUME NEW c \in Cases, NEW s \in Statuses, TakeWait(w, c, s)
      PROVE  UNCHANGED saving /\ \A d \in Cases : HoldMove(d)
  BY <1>4 DEF TakeWait, Live, Stays, HoldMove
<1> QED BY <1>1, <1>2, <1>3, <1>4 DEF Takes, TakeResume, TakeAtOnce

(* A list ends holds, and claims cases nobody holds. *)
LEMMA ListDuty ==
  ASSUME TypeOK, SafeInv, NEW w \in Windows, Reads(w) \/ Listing(w)
  PROVE  UNCHANGED saving /\ \A c \in Cases : HoldMove(c)
<1> DEFINE j == list[w]
<1>1. CASE Reads(w)
  BY <1>1 DEF Reads, ListRead, Live, Stays, HoldMove
<1>2. CASE ListTouch(w)
  BY <1>2, TouchSafe DEF ListTouch, HoldMove
<1>3. CASE ListDrop(w)
  BY <1>3 DEF ListDrop, Live, Stays, HoldMove
<1>4. CASE ListPick(w) \/ ListCheck(w)
  BY <1>4 DEF ListPick, ListCheck, Live, Stays, HoldMove
<1>5. CASE ListHold(w)
  <2>1. j \in List /\ j.at \in Nat
    BY DEF TypeOK, List
  <2>2. hold' = Holds(w, j.wanted, j.at, "batch") /\ UNCHANGED <<saving, window>>
    BY <1>5 DEF ListHold
  <2>3. \A c \in j.wanted : ~SavingNow(c)
    BY <1>5 DEF ListHold, SafeInv, LockInv, LocksExclude, ClaimsUncalled
  <2>4. ASSUME NEW c \in Cases PROVE HoldMove(c)
    <3>1. CASE hold'[c] = hold[c]
      BY <2>2, <3>1 DEF Stays, Live, HoldMove
    <3>2. CASE hold'[c].by = w /\ Live(w) /\ c \in j.wanted /\ hold[c].by = NoWindow
      BY <2>2, <2>3, <3>2 DEF HoldMove, Live
    <3> QED BY <2>1, <2>2, <3>1, <3>2, HoldsType
  <2> QED BY <2>2, <2>4
<1> QED BY <1>1, <1>2, <1>3, <1>4, <1>5 DEF Listing

(* A save begins an action only if the case is free, its own, or the actor an overseer. *)
LEMMA SaveCheckDuty ==
  ASSUME TypeOK, NEW r \in Save, SaveCheck(r), NEW c \in Cases
  PROVE  DutyMove(c)
<1>1. UNCHANGED <<window, hold>> /\ ~SavingNow(r.case)
      /\ (saving' = saving \/ (saving' = saving \cup {r} /\ ~HeldByOther(r)))
  BY DEF SaveCheck
<1>2. OnDuty(c)' = OnDuty(c)
  BY <1>1 DEF OnDuty, Live
<1>3. CASE saving' = saving \/ c # r.case
  BY <1>1, <1>2, <1>3 DEF DutyMove, DutyStay, ActingOn
<1>4. CASE saving' = saving \cup {r} /\ ~HeldByOther(r) /\ c = r.case
  <2>1. ActingOn(c) = {}
    BY <1>1, <1>4, ActingNone
  <2>2. ActingOn(c)' = {r.window} /\ r.window \in Windows
    BY <1>4, <2>1 DEF ActingOn, Save
  <2>3. MayAct(c, r.window)
    BY <1>4 DEF HeldByOther, MayAct, OnDuty
  <2> QED BY <1>2, <2>1, <2>2, <2>3 DEF DutyMove, DutyBegin
<1> QED BY <1>1, <1>3, <1>4

(* The write of an action finishes it, and ends the duty or gives it to who took it back. *)
LEMMA SaveWriteDuty ==
  ASSUME TypeOK, SafeInv, NEW r \in Save, NEW lost \in BOOLEAN, SaveWrite(r, lost), NEW c \in Cases
  PROVE  DutyMove(c)
<1>1. UNCHANGED window /\ r \in saving /\ saving' = saving \ {r} /\ hold' = HoldAfter(r)
  BY DEF SaveWrite
<1>2. CASE c # r.case
  <2>1. hold'[c] = hold[c]
    BY <1>1, <1>2, HoldAfterType
  <2> QED BY <1>1, <1>2, <2>1 DEF DutyMove, DutyStay, OnDuty, Live, ActingOn
<1>3. CASE c = r.case
  <2>1. \A q \in saving : q.case = c => q = r
    BY <1>1, <1>3 DEF SafeInv, LockInv, LocksExclude
  <2>2. r.window \in ActingOn(c) /\ ActingOn(c)' = {}
    BY <1>1, <1>3, <2>1 DEF ActingOn
  <2>3. MayAct(c, r.window)
    BY <1>1, <1>3 DEF SafeInv, SavesFreeOrOwn, FreeOrOwn, MayAct, OnDuty
  <2>4. hold'[c] = Free \/ hold'[c] = hold[c]
        \/ (hold'[c].by = r.window /\ Live(r.window) /\ (hold'[c] = hold[c] \/ hold[c].by = NoWindow))
    BY <1>1, <1>3, HoldAfterType DEF HoldAfter, Holds
  <2>5. OnDuty(c)' \in {NoWindow, OnDuty(c), r.window}
        /\ (OnDuty(c)' = r.window => OnDuty(c) \in {NoWindow, r.window})
    BY <1>1, <2>4 DEF OnDuty, Live, Free, Save
  <2> QED BY <2>2, <2>3, <2>5 DEF DutyMove, DutyFinish
<1> QED BY <1>2, <1>3

(* Every step of the calls moves the duty of each case by an abstract step. *)
LEMMA NextMoves ==
  ASSUME TypeOK, SafeInv, [Next]_vars
  PROVE  \A c \in Cases : DutyMove(c)
<1>1. CASE UNCHANGED vars
  BY <1>1 DEF vars, DutyMove, DutyStay, OnDuty, Live, ActingOn
<1>2. ASSUME NEW d \in Cases, CaseChange(d) PROVE \A c \in Cases : DutyMove(c)
  BY <1>2 DEF CaseChange, DutyMove, DutyStay, OnDuty, Live, ActingOn
<1>3. ASSUME NEW w \in Windows, Windowing(w) \/ Takes(w) \/ Reads(w) \/ Listing(w)
      PROVE  \A c \in Cases : DutyMove(c)
  BY <1>3, WindowingDuty, TakesDuty, ListDuty, HoldsDuty
<1>4. ASSUME NEW r \in Save, Saves(r) PROVE \A c \in Cases : DutyMove(c)
  <2>1. r = [window |-> r.window, case |-> r.case, status |-> r.status]
    BY DEF Save
  <2>2. CASE SaveQueue(r.window, r.case, r.status)
    BY <2>2 DEF SaveQueue, DutyMove, DutyStay, OnDuty, Live, ActingOn
  <2> QED BY <1>4, <2>1, <2>2, SaveCheckDuty, SaveWriteDuty DEF Saves, SaveResend, SaveSend
<1> QED BY <1>1, <1>2, <1>3, <1>4, NextCases

(***************************************************************************)
(* The tables, locks and requests of the calls page implement CallDuty: a  *)
(* student is on one window's duty at a time, changes hands only through   *)
(* nobody and never under an action.                                       *)
(***************************************************************************)
THEOREM CallsImplementDuty == Spec => DutyKept
<1>1. Init => Duty!Init
  BY DEF Init, Duty!Init, OnDuty, ActingOn, Free, Live
<1>2. TypeOK /\ SafeInv /\ [Next]_vars => [Duty!Next]_(Duty!vars)
  <2> SUFFICES ASSUME TypeOK, SafeInv, [Next]_vars PROVE Duty!Next
    OBVIOUS
  <2>1. ASSUME NEW c \in Cases
        PROVE  Duty!Stay(c) \/ Duty!Grant(c) \/ Duty!Yield(c) \/ Duty!Begin(c) \/ Duty!Finish(c)
    <3>1. DutyMove(c)
      BY NextMoves
    <3> QED BY <3>1 DEF DutyMove, DutyStay, DutyYield, DutyGrant, DutyBegin, DutyFinish, MayAct,
              Duty!Stay, Duty!Grant, Duty!Yield, Duty!Begin, Duty!Finish, Duty!Allowed
  <2> QED BY <2>1 DEF Duty!Next
<1> QED BY <1>1, <1>2, SafeAlways, PTL DEF Spec, DutyKept, Duty!Spec
=============================================================================
