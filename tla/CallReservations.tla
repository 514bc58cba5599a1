--------------------------- MODULE CallReservations ---------------------------
(***************************************************************************)
(* The batches of the calls page: each open page (a window) holds students *)
(* nobody else gets, so that two people never call the same student.       *)
(*                                                                         *)
(* The state is three tables (StudentCall, CallWindow, CallReservation)    *)
(* under READ COMMITTED, and the requests the pages have running: the list *)
(* (which may claim a batch), the take of one student by hand, and the     *)
(* save of a contact action.  A case is a student of an exam.  The two     *)
(* advisory locks of a case are read off the running requests: a save      *)
(* that checked holds it exclusively, a claim that checked holds it shared.*)
(***************************************************************************)
EXTENDS Naturals, FiniteSets

CONSTANTS
  Windows,      \* the open calls pages, each with the id it made for itself
  Overseers,    \* those of the admin and the supervisors
  NoWindow,     \* the absence of a window
  Cases,        \* (student, exam) pairs
  Exams,
  ExamOf,       \* the exam of each case
  Actions,      \* contact statuses: answered, no answer, wrong number
  NoAction,     \* the empty status
  BatchSize,    \* CALL_BATCH_SIZE
  MaxTries,     \* the attempts of one claim
  MaxSaves,     \* bound: contact actions that reach the server
  MaxLists,     \* bound: lists asked for
  MaxTakes,     \* bound: students taken by hand
  MaxLapses,    \* bound: windows that fall silent
  MaxChanges,   \* bound: cases that appear or disappear
  MaxResends    \* bound: saves queued because they or their answers are lost

Bounds == [saves |-> MaxSaves, lists |-> MaxLists, takes |-> MaxTakes,
           lapses |-> MaxLapses, changes |-> MaxChanges, resends |-> MaxResends]

ASSUME ReservationAssumption ==
  /\ Overseers \subseteq Windows /\ NoWindow \notin Windows
  /\ ExamOf \in [Cases -> Exams] /\ Exams # {}
  /\ NoAction \notin Actions
  /\ BatchSize \in Nat /\ MaxTries \in Nat
  /\ \A b \in DOMAIN Bounds : Bounds[b] \in Nat

VARIABLES
  page,     \* page[w]: the browser's page
  window,   \* window[w]: the CallWindow row; silent once past its grace
  call,     \* call[c]: the StudentCall row's status and actedAt (0: no row)
  due,      \* the cases the exam has a call for
  hold,     \* hold[c]: the CallReservation row
  list,     \* list[w]: the running list request of the page
  take,     \* take[w]: the take by hand that waits for a case's lock
  queued,   \* saves in the pages' offline queues
  saving,   \* saves that hold their case's lock
  clock,    \* time, as far as holds and actions are ordered by it
  spent     \* how much of each bound is used

vars == <<page, window, call, due, hold, list, take, queued, saving, clock, spent>>

Statuses == Actions \cup {NoAction}

(* origin is a history value: how the hold began. *)
Free == [by |-> NoWindow, since |-> 0, origin |-> "none"]
Hold == [by: Windows \cup {NoWindow}, since: Nat, origin: {"none", "batch", "hand", "back"}]

Call == [status: Statuses, at: Nat]
NotCalled == [status |-> NoAction, at |-> 0]

(***************************************************************************)
(* A list request: what it read (listed, seen) and when (at); then the     *)
(* holds it found finished, the cases it may still claim (openIds), those  *)
(* it is trying now (wanted) and those whose lock it has.                  *)
(***************************************************************************)
NoList == [pc |-> "idle", exam |-> CHOOSE e \in Exams : TRUE, at |-> 0,
           seen |-> [c \in Cases |-> NotCalled], listed |-> {}, claim |-> FALSE,
           release |-> FALSE, finished |-> {}, openIds |-> {}, wanted |-> {},
           locked |-> {}, tries |-> 0]
List == [pc: {"idle", "read", "drop", "pick", "check", "hold"}, exam: Exams, at: Nat,
         seen: [Cases -> Call], listed: SUBSET Cases, claim: BOOLEAN, release: BOOLEAN,
         finished: SUBSET Cases, openIds: SUBSET Cases, wanted: SUBSET Cases,
         locked: SUBSET Cases, tries: Nat]

Take == [case: Cases, seen: Statuses, at: Nat]
Save == [window: Windows, case: Cases, status: Statuses]

TypeOK ==
  /\ page \in [Windows -> {"open", "closing", "closed"}]
  /\ window \in [Windows -> {"gone", "live", "silent"}]
  /\ call \in [Cases -> Call]
  /\ due \subseteq Cases
  /\ hold \in [Cases -> Hold]
  /\ \A c \in Cases : hold[c].by = NoWindow \/ window[hold[c].by] # "gone"
  /\ list \in [Windows -> List]
  /\ take \in [Windows -> SUBSET Take]
  /\ queued \subseteq Save /\ saving \subseteq Save
  /\ clock \in Nat
  /\ spent \in [DOMAIN Bounds -> Nat]

Init ==
  /\ page = [w \in Windows |-> "open"]
  /\ window = [w \in Windows |-> "gone"]
  /\ call = [c \in Cases |-> NotCalled]
  /\ due = Cases
  /\ hold = [c \in Cases |-> Free]
  /\ list = [w \in Windows |-> NoList]
  /\ take = [w \in Windows |-> {}]
  /\ queued = {} /\ saving = {}
  /\ clock = 1
  /\ spent = [b \in DOMAIN Bounds |-> 0]

-----------------------------------------------------------------------------
(* Helpers *)

Spend(b) == spent[b] < Bounds[b] /\ spent' = [spent EXCEPT ![b] = @ + 1]

(* liveCallHolders: a silent window's holds do not count. *)
Live(w) == w # NoWindow /\ window[w] = "live"
HasFallen(w) == w # NoWindow /\ window[w] = "silent"
HeldBy(w) == {c \in Cases : hold[c].by = w}

LockIgnored(c) == FALSE   \* faulty: nobody waits for a save
SavingNow(c) == \E r \in saving : r.case = c
ClaimingNow(c) == \E w \in Windows : c \in list[w].locked

(* callCaseOpenForBatch *)
OpenForBatch(row) == row.status = NoAction

-----------------------------------------------------------------------------
(***************************************************************************)
(* releaseStaleCallWindows, then touchCallWindow, in one transaction: the  *)
(* silent windows go with their holds, the asking one's own too if it was  *)
(* silent, and the window lets go of what it held on other exams.          *)
(***************************************************************************)
NothingStale == {}   \* faulty: nothing is released
Stale == {w \in Windows : window[w] = "silent"}

KeptByStale(w, e, c) == hold[c].by = w => ExamOf[c] = e   \* faulty: holds do not cascade
Kept(w, e, c) == hold[c].by \notin Stale /\ (hold[c].by = w => ExamOf[c] = e)

WindowsAfterTouch(w) ==
  [v \in Windows |-> IF v = w THEN "live" ELSE IF v \in Stale THEN "gone" ELSE window[v]]

(* The holds after the touch, less those of the cases in let. *)
HoldsAfterTouch(w, e, let) ==
  [c \in Cases |-> IF Kept(w, e, c) /\ c \notin let THEN hold[c] ELSE Free]

Beat(w, e) ==
  /\ page[w] = "open"
  /\ window' = WindowsAfterTouch(w)
  /\ hold' = HoldsAfterTouch(w, e, {})
  /\ UNCHANGED <<page, call, due, list, take, queued, saving, clock, spent>>

(***************************************************************************)
(* holdCallCase: one row per case, for a live window; whoever holds it     *)
(* already, silent or not, keeps it.                                       *)
(***************************************************************************)
HoldsAnyway(w, cases, at, origin) ==   \* faulty: the last one to ask gets it
  [c \in Cases |-> IF c \in cases /\ Live(w)
                   THEN [by |-> w, since |-> at, origin |-> origin] ELSE hold[c]]

Holds(w, cases, at, origin) ==
  [c \in Cases |-> IF c \in cases /\ hold[c].by = NoWindow /\ Live(w)
                   THEN [by |-> w, since |-> at, origin |-> origin] ELSE hold[c]]

(* closeCallWindow, when the page unloads; the request may be overtaken. *)
ClosePage(w) ==
  /\ page[w] = "open" /\ page' = [page EXCEPT ![w] = "closing"]
  /\ UNCHANGED <<window, call, due, hold, list, take, queued, saving, clock, spent>>

CloseWindow(w) ==
  /\ page[w] = "closing" /\ page' = [page EXCEPT ![w] = "closed"]
  /\ window' = [window EXCEPT ![w] = "gone"]
  /\ hold' = [c \in Cases |-> IF hold[c].by = w THEN Free ELSE hold[c]]
  /\ UNCHANGED <<call, due, list, take, queued, saving, clock, spent>>

(* No beat reached the server within the timeout, or within the away grace. *)
Lapse(w) ==
  /\ window[w] = "live" /\ Spend("lapses")
  /\ window' = [window EXCEPT ![w] = "silent"]
  /\ UNCHANGED <<page, call, due, hold, list, take, queued, saving, clock>>

-----------------------------------------------------------------------------
(* «خذه للاتصال»: a student taken by hand *)

(***************************************************************************)
(* The transaction of a request t: touch, then hold the case unless its    *)
(* status is not the one the card showed (currentCallStatus, which waits   *)
(* for a save in progress).                                                *)
(***************************************************************************)
TakeCase(w, t) ==
  LET kept == HoldsAfterTouch(w, ExamOf[t.case], {})
      mine == [by |-> w, since |-> t.at, origin |-> "hand"] IN
  /\ ~SavingNow(t.case)
  /\ window' = WindowsAfterTouch(w)
  /\ hold' = IF call[t.case].status = t.seen /\ kept[t.case].by = NoWindow
             THEN [kept EXCEPT ![t.case] = mine] ELSE kept
  /\ UNCHANGED <<page, call, due, list, queued, saving, clock>>

TakeAtOnce(w, c, seen) ==
  /\ page[w] = "open" /\ Spend("takes") /\ UNCHANGED take
  /\ TakeCase(w, [case |-> c, seen |-> seen, at |-> clock])

(* The request fixed its time before it waits. *)
TakeWait(w, c, seen) ==
  /\ page[w] = "open" /\ take[w] = {} /\ SavingNow(c) /\ Spend("takes")
  /\ take' = [take EXCEPT ![w] = {[case |-> c, seen |-> seen, at |-> clock]}]
  /\ UNCHANGED <<page, window, call, due, hold, list, queued, saving, clock>>

TakeResume(w) ==
  /\ \E t \in take[w] : TakeCase(w, t)
  /\ take' = [take EXCEPT ![w] = {}] /\ UNCHANGED spent

-----------------------------------------------------------------------------
(* The list of candidates, and the claim of a batch *)

ListStep(w, j) == list' = [list EXCEPT ![w] = j]

(* The list reads the cases and their contact rows.  (A list of another view, or
   a search, is a beat and no more.) *)
ListRead(w, e, claim, release) ==
  /\ page[w] = "open" /\ list[w].pc = "idle" /\ Spend("lists")
  /\ ListStep(w, [NoList EXCEPT !.pc = "read", !.exam = e, !.at = clock, !.claim = claim,
                    !.release = release, !.seen = call,
                    !.listed = {c \in due : ExamOf[c] = e}])
  /\ UNCHANGED <<page, window, call, due, hold, take, queued, saving, clock>>

(* A held case that left the list, or was acted on since the hold began. *)
Finished(j, c) ==
  \/ c \notin j.listed
  \/ ~OpenForBatch(j.seen[c]) /\ j.seen[c].at > hold[c].since

(* Where the request goes once it knows which cases the window still holds. *)
AfterDrop(j, mine) ==
  IF j.claim /\ mine = {}
  THEN [NoList EXCEPT !.pc = "pick", !.exam = j.exam, !.at = j.at,
                      !.openIds = {c \in j.listed : OpenForBatch(j.seen[c])}]
  ELSE NoList

(***************************************************************************)
(* Asking counts as a beat; the window may let go of its batch (release).  *)
(* Its live holds are read, and the finished ones found.                   *)
(***************************************************************************)
ListTouch(w) ==
  LET j == list[w]
      let == IF j.release THEN HeldBy(w) ELSE {}
      mine == {c \in HeldBy(w) : w \notin Stale /\ c \notin let /\ ExamOf[c] = j.exam}
      finished == {c \in mine : Finished(j, c)} IN
  /\ j.pc = "read"
  /\ window' = WindowsAfterTouch(w)
  /\ hold' = HoldsAfterTouch(w, j.exam, let)
  /\ ListStep(w, IF finished # {} THEN [j EXCEPT !.pc = "drop", !.finished = finished,
                                                  !.claim = j.claim /\ mine \subseteq finished]
                 ELSE AfterDrop(j, mine))
  /\ UNCHANGED <<page, call, due, take, queued, saving, clock, spent>>

(* dropCallHold by student and exam, whoever holds the case by now. *)
ListDrop(w) ==
  LET j == list[w] IN
  /\ j.pc = "drop"
  /\ hold' = [c \in Cases |-> IF c \in j.finished THEN Free ELSE hold[c]]
  /\ ListStep(w, AfterDrop(j, {}))
  /\ UNCHANGED <<page, window, call, due, take, queued, saving, clock, spent>>

(***************************************************************************)
(* claimCallBatch.  One claim of an exam at a time: the cases to try are   *)
(* those read open, not found closed since and held by no live window, up  *)
(* to the batch size; which ones the filters and the list's order decide.  *)
(***************************************************************************)
ListPick(w) ==
  LET j == list[w]
      held == IF Live(w) THEN {c \in HeldBy(w) : ExamOf[c] = j.exam} ELSE {}
      free == {c \in j.openIds : ~Live(hold[c].by)} IN
  /\ j.pc = "pick"
  /\ \A v \in Windows : v # w /\ list[v].exam = j.exam => list[v].pc \notin {"check", "hold"}
  /\ \/ ListStep(w, NoList)
     \/ \E wanted \in (SUBSET free) \ {{}} :
          /\ Cardinality(wanted) + Cardinality(held) <= BatchSize
          /\ j.tries < MaxTries
          /\ ListStep(w, [j EXCEPT !.pc = "check", !.wanted = wanted])
  /\ UNCHANGED <<page, window, call, due, hold, take, queued, saving, clock, spent>>

(* stillOpenCallCases: try the shared lock of each case, then read it fresh. *)
OpenUnlocked(j) ==   \* faulty: the locks are not tried
  {c \in j.wanted : OpenForBatch(call[c])}

StillOpen(j) == {c \in j.wanted : ~SavingNow(c) /\ OpenForBatch(call[c])}

ListCheck(w) ==
  LET j == list[w] IN
  /\ j.pc = "check"
  /\ ListStep(w, [j EXCEPT !.pc = "hold", !.wanted = StillOpen(j),
                           !.openIds = @ \ (j.wanted \ StillOpen(j)),
                           !.locked = @ \cup {c \in j.wanted : ~SavingNow(c)}])
  /\ UNCHANGED <<page, window, call, due, hold, take, queued, saving, clock, spent>>

ListHold(w) ==
  LET j == list[w] IN
  /\ j.pc = "hold"
  /\ hold' = Holds(w, j.wanted, j.at, "batch")
  /\ ListStep(w, [j EXCEPT !.pc = "pick", !.wanted = {}, !.tries = @ + 1])
  /\ UNCHANGED <<page, window, call, due, take, queued, saving, clock, spent>>

-----------------------------------------------------------------------------
(* Saving a contact action *)

(* liveCallHolders: somebody else's student. *)
HeldByOther(r) ==
  /\ Live(hold[r.case].by) /\ hold[r.case].by # r.window
  /\ r.window \notin Overseers

(***************************************************************************)
(* POST /api/student-calls: lock the case, refuse if somebody else holds   *)
(* it, do nothing if there is no action to take back.                      *)
(***************************************************************************)
SaveCheck(r) ==
  /\ ~SavingNow(r.case) /\ ~ClaimingNow(r.case)
  /\ saving' = IF HeldByOther(r) \/ (r.status = NoAction /\ call[r.case].at = 0)
               THEN saving ELSE saving \cup {r}
  /\ UNCHANGED <<page, window, call, due, hold, list, take, clock>>

SaveSend(w, c, s) ==
  /\ page[w] = "open" /\ Spend("saves") /\ UNCHANGED queued
  /\ SaveCheck([window |-> w, case |-> c, status |-> s])

(* The request failed on its way: the page queues it. *)
SaveQueue(w, c, s) ==
  /\ page[w] = "open" /\ Spend("resends")
  /\ queued' = queued \cup {[window |-> w, case |-> c, status |-> s]}
  /\ UNCHANGED <<page, window, call, due, hold, list, take, saving, clock>>

SaveResend(r) ==
  /\ r \in queued /\ queued' = queued \ {r} /\ UNCHANGED spent
  /\ SaveCheck(r)

(* An action ends the hold on the case; taking it back holds it again. *)
HoldKeptAfter(r) == hold   \* faulty: the hold outlives the action

HoldAfter(r) ==
  IF r.status # NoAction THEN [hold EXCEPT ![r.case] = Free]
  ELSE Holds(r.window, {r.case}, clock + 1, "back")

(***************************************************************************)
(* The write and the commit, which frees the lock.  An answer that is lost *)
(* leaves the save in the page's queue, to be sent again.                  *)
(***************************************************************************)
SaveWrite(r, lost) ==
  /\ r \in saving /\ saving' = saving \ {r}
  /\ call' = [call EXCEPT ![r.case] = [status |-> r.status, at |-> clock + 1]]
  /\ clock' = clock + 1
  /\ hold' = HoldAfter(r)
  /\ IF lost THEN Spend("resends") /\ queued' = queued \cup {r} ELSE UNCHANGED <<spent, queued>>
  /\ UNCHANGED <<page, window, due, list, take>>

(* A grade or a leave changed: the exam has this call to make, or no more. *)
CaseChange(c) ==
  /\ Spend("changes")
  /\ due' = IF c \in due THEN due \ {c} ELSE due \cup {c}
  /\ UNCHANGED <<page, window, call, hold, list, take, queued, saving, clock>>

-----------------------------------------------------------------------------
Listing(w) == ListTouch(w) \/ ListDrop(w) \/ ListPick(w) \/ ListCheck(w) \/ ListHold(w)

Next ==
  \/ \E w \in Windows :
       \/ \E e \in Exams : Beat(w, e)
       \/ ClosePage(w) \/ CloseWindow(w) \/ Lapse(w)
       \/ \E c \in Cases, s \in Statuses :
            TakeAtOnce(w, c, s) \/ TakeWait(w, c, s) \/ SaveSend(w, c, s) \/ SaveQueue(w, c, s)
       \/ TakeResume(w)
       \/ \E e \in Exams, claim, release \in BOOLEAN : ListRead(w, e, claim, release)
       \/ Listing(w)
  \/ \E r \in queued : SaveResend(r)
  \/ \E r \in saving, lost \in BOOLEAN : SaveWrite(r, lost)
  \/ \E c \in Cases : CaseChange(c)

Spec == Init /\ [][Next]_vars

(***************************************************************************)
(* Fairness: a page that stays open beats (its interval timer); requests   *)
(* the server has begun go on.  Nothing forces a page to stay open.        *)
(***************************************************************************)
Fairness ==
  \A w \in Windows : WF_vars(\E e \in Exams : Beat(w, e)) /\ WF_vars(CloseWindow(w))

FairSpec == Spec /\ Fairness

-----------------------------------------------------------------------------
(***************************************************************************)
(* A student handed out in a batch, or returned by taking an action back,  *)
(* has no action: an action saved while a claim reads the list can never   *)
(* leave a student called a moment ago in somebody's batch                 *)
(* (stillOpenCallCases against lockCallCaseForSave).                       *)
(***************************************************************************)
BatchIsUncalled ==
  \A c \in Cases : hold[c].origin \in {"batch", "back"} => call[c].status = NoAction

(***************************************************************************)
(* No action lands on a student somebody else holds at that moment: the    *)
(* check of the holder still stands when the action is written, whatever   *)
(* claims, takes and beats ran in between (the admin and the supervisors   *)
(* may act on anyone).                                                     *)
(***************************************************************************)
ActsOnlyOnFreeOrOwn ==
  [][\A r \in saving \ saving' :
       r.window \in Overseers \/ ~Live(hold[r.case].by) \/ hold[r.case].by = r.window]_vars

(***************************************************************************)
(* A window that fell silent, or was released, never wakes up with the     *)
(* students it had: meanwhile everybody else was told they are free        *)
(* (liveCallHolders).  If a take by hand wakes it, the student it takes is *)
(* the only one.                                                           *)
(***************************************************************************)
TakesNow(w) == spent'.takes # spent.takes \/ take'[w] # take[w]

WakesWith(w) == {c \in Cases : hold'[c].by = w}

SilentNeverWakesHolding ==
  [][\A w \in Windows : ~Live(w) /\ window'[w] = "live" =>
       \A c \in WakesWith(w) :
         TakesNow(w) /\ hold'[c].origin = "hand" /\ WakesWith(w) = {c}]_vars

(***************************************************************************)
(* The students of a window that fell silent go back to everyone, as long  *)
(* as a page is open to beat.                                              *)
(***************************************************************************)
SilentHoldsReleased ==
  \A c \in Cases :
    HasFallen(hold[c].by) ~>
      ~HasFallen(hold[c].by) \/ \A w \in Windows : page[w] # "open"

(***************************************************************************)
(* The calls keep the duty of CallDuty: the window on duty for a case is   *)
(* the live one that holds it, and it acts while its save has the lock.    *)
(* So a student goes from one window to another only by way of nobody (an  *)
(* action, a drop, a closed, silent or moved window), whatever lists,      *)
(* takes, beats and late saves run in between; nobody gets a student whose *)
(* action is being saved; no window wakes up with students.                *)
(***************************************************************************)
OnDuty(c) == IF Live(hold[c].by) THEN hold[c].by ELSE NoWindow
ActingOn(c) == {r.window : r \in {q \in saving : q.case = c}}

Duty == INSTANCE CallDuty WITH
  holder <- [c \in Cases |-> OnDuty(c)], acting <- [c \in Cases |-> ActingOn(c)]

DutyKept == Duty!Spec
=============================================================================
