---------------------------- MODULE AcademicReplay ----------------------------
(***************************************************************************)
(* recalculateAcademicState for one student in one active chapter: the     *)
(* balance, the bonuses and the dismissal that follow from the results and *)
(* from the opportunity commands (ledger version 2).                       *)
(*                                                                         *)
(* Results and commands are replayed in the order of the ledger: a command *)
(* stands where it was recorded, a result on its exam's day, except that a *)
(* result that can deduct follows the credits of that day it was entered   *)
(* after.  Exams are numbered in the order of (date, id) and stand at the  *)
(* first moment of their day.                                              *)
(***************************************************************************)
EXTENDS Naturals, Sequences, FiniteSets

CONSTANTS
  Cap,         \* the chapter's opportunities
  Exams,       \* numbered from 1 in the order of (date, id)
  DayOf,       \* the day of each exam
  Finals,      \* exams of type "فاينل"
  PenaltyOf,   \* examPenaltyValue
  BonusLimit,  \* BONUS_LIMIT_PER_CHAPTER
  DayLength    \* moments in a day

ASSUME ReplayAssumption ==
  /\ Cap \in Nat \ {0} /\ BonusLimit \in Nat /\ DayLength \in Nat \ {0}
  /\ IsFiniteSet(Exams) /\ Exams = 1..Cardinality(Exams) /\ Finals \subseteq Exams
  /\ DayOf \in [Exams -> Nat \ {0}] /\ PenaltyOf \in [Exams -> Nat \ {0}]
  /\ \A d, e \in Exams : d <= e => DayOf[d] <= DayOf[e]

Scores == {"pass", "weak", "low"}   \* passed, failed above the discount mark, discounted
Marks == {"absent", "cheat"}
Losses == {"low", "absent"}

(* A Grade row: at is its createdAt and, with the exam, its identity; excl is
   academicEffectExcluded. *)
NoRow == [res |-> "none", at |-> 0, excl |-> FALSE]
Row == [res: Scores \cup Marks \cup {"none"}, at: Nat, excl: BOOLEAN]
Entered(rows) == {e \in Exams : rows[e].res # "none"}
IdsOf(rows) == {<<e, rows[e].at>> : e \in Entered(rows)}

(***************************************************************************)
(* An OpportunityLog row of an administrator: the amount it applied, the   *)
(* balance it recorded, the entry it undoes (0: none), whether its reason  *)
(* carries the zero-balance marker, and the rows it settled.               *)
(***************************************************************************)
Entry == [action: {"add", "deduct", "reset", "grant"}, applied: Nat, after: Nat, at: Nat,
          undoes: Nat, violation: BOOLEAN, settled: SUBSET (Exams \X Nat)]

(* Why a student is dismissed: the rule, and the exam or the entry. *)
NoWhy == [rule |-> "none", of |-> 0]
Why == [rule: {"none", "loss", "final", "cheat", "cheats", "hand"}, of: Nat]

Student == [status: {"active", "dismissed"}, why: Why, balance: Nat, progress: 0..2,
            bonuses: SUBSET Exams, dismissals: SUBSET Why]

-----------------------------------------------------------------------------
(* Numbers and moments *)

Least(S) == CHOOSE x \in S : \A y \in S : x <= y
Greatest(S) == CHOOSE x \in S : \A y \in S : x >= y
Smaller(x, y) == IF x <= y THEN x ELSE y

LessUntruncated(balance, n) == balance - n   \* faulty: a balance below zero

(* applyOpportunityPenalty *)
Less(balance, n) == IF balance > n THEN balance - n ELSE 0
Capped(n) == Smaller(Cap, n)

Day(t) == t \div DayLength
At(e) == DayOf[e] * DayLength

-----------------------------------------------------------------------------
(* The opening of the balance *)

Latest(log, actions) == Greatest({0} \cup {i \in DOMAIN log : log[i].action \in actions})

FullBalance == [action |-> "reset", applied |-> 0, after |-> Cap, at |-> 0,
                undoes |-> 0, violation |-> FALSE, settled |-> {}]

(* The settlement: the last reset or return. *)
Opening(log) ==
  LET i == Latest(log, {"reset", "grant"}) IN IF i = 0 THEN FullBalance ELSE log[i]

(* reactivationStartDate *)
ReturnDay(log) ==
  LET i == Latest(log, {"grant"}) IN IF i = 0 THEN 0 ELSE Day(log[i].at)

Pending(log) == {i \in DOMAIN log : i > Latest(log, {"reset", "grant"})}
Undone(log) == {log[i].undoes : i \in DOMAIN log}
Credits(log) ==
  {log[i].at : i \in {j \in Pending(log) : log[j].action = "add" /\ log[j].applied > 0}}

SettledExams(rows, log) ==
  {e \in Entered(rows) : <<e, rows[e].at>> \in Opening(log).settled}

-----------------------------------------------------------------------------
(* The order of the ledger.  c is what the replay reads. *)

Context(rows, log) ==
  [rows |-> rows, log |-> log, open |-> Opening(log), back |-> ReturnDay(log),
   credits |-> Credits(log), events |-> {}]

SettlementIgnored(c, e) == c.rows[e].excl \/ DayOf[e] < c.back   \* faulty

(* A result this replay gives no effect at all. *)
Neutral(c, e) ==
  \/ c.rows[e].excl
  \/ <<e, c.rows[e].at>> \in c.open.settled
  \/ DayOf[e] < c.back

OnlyNeutralKeep(c, e) == Neutral(c, e)   \* faulty: a late pass moves to its credit

(* A result that cannot deduct keeps its exam's place. *)
KeepsPlace(c, e) == Neutral(c, e) \/ c.rows[e].res \in {"pass", "weak"}

(* examResultTimelineDate *)
OwnTime(c, e) ==
  LET followed == {t \in c.credits : t > At(e) /\ t <= c.rows[e].at /\ Day(t) = DayOf[e]} IN
  IF KeepsPlace(c, e) THEN At(e) ELSE Greatest({At(e)} \cup followed)

(* examResultLedgerDates: never ahead of an earlier exam of its day. *)
LedgerTime(c, e) ==
  IF KeepsPlace(c, e)
  THEN Greatest({OwnTime(c, f) : f \in {g \in Entered(c.rows) : g <= e /\ DayOf[g] = DayOf[e]}})
  ELSE OwnTime(c, e)

(* An event is its moment, its kind (commands, 0, stand before results, 1, of
   the same moment) and the place of its entry or its exam. *)
CommandEvents(c) == {<<c.log[i].at, 0, i>> : i \in Pending(c.log)}
ResultEvents(c) == {<<LedgerTime(c, e), 1, e>> : e \in Entered(c.rows)}

WithEvents(c) == [c EXCEPT !.events = CommandEvents(c) \cup ResultEvents(c)]

Before(x, y) ==
  \/ x[1] < y[1]
  \/ x[1] = y[1] /\ x[2] < y[2]
  \/ x[1] = y[1] /\ x[2] = y[2] /\ x[3] < y[3]

Last(S) == CHOOSE x \in S : \A y \in S \ {x} : Before(y, x)

(***************************************************************************)
(* breakAfterVisit: the passes of earlier exams of x's day that are        *)
(* replayed after the result x, the last of which x's break waits for (0:  *)
(* none).                                                                  *)
(***************************************************************************)
LatePasses(c, x) ==
  {y \in c.events :
     /\ y[2] = 1 /\ y[3] < x[3] /\ DayOf[y[3]] = DayOf[x[3]]
     /\ c.rows[y[3]].res = "pass" /\ KeepsPlace(c, y[3]) /\ Before(x, y)}

BreakWaitsFor(c, x) == IF LatePasses(c, x) = {} THEN 0 ELSE Last(LatePasses(c, x))[3]

-----------------------------------------------------------------------------
(***************************************************************************)
(* What the replay carries from event to event.  shadow is the balance     *)
(* without bonuses and saved the places where a bonus prevented a          *)
(* dismissal (0: a deduction by hand); late is the credit an old result    *)
(* was entered after and known the balance without such results; first,    *)
(* waiting and last are the streak of passes, deferred the breaks that     *)
(* wait, each with the pass it waits for.                                  *)
(***************************************************************************)
Beginning(c, stored) ==
  LET from == Greatest({c.back, Day(c.open.at)}) IN
  [bal |-> Capped(c.open.after), shadow |-> Capped(c.open.after), hold |-> 0,
   gone |-> FALSE, why |-> NoWhy, priority |-> 0, cheats |-> 0,
   late |-> 0, known |-> 0, saved |-> {}, bonuses |-> {}, dismissals |-> {},
   count |-> Cardinality({b \in stored.bonuses \cap SettledExams(c.rows, c.log) : At(b) <= c.open.at}),
   first |-> 0, waiting |-> FALSE, deferred |-> {},
   last |-> Greatest({0} \cup {e \in Exams : DayOf[e] < from})]

(* setDismissal *)
Dismiss(a, priority, why) ==
  LET b == [a EXCEPT !.late = 0, !.gone = TRUE] IN
  IF priority >= a.priority THEN [b EXCEPT !.priority = priority, !.why = why] ELSE b

DismissAt(a, priority, rule, e) ==
  LET why == [rule |-> rule, of |-> e] IN
  [Dismiss(a, priority, why) EXCEPT !.bal = 0, !.dismissals = @ \cup {why}]

-----------------------------------------------------------------------------
(* applyCommandsThrough *)

(* Nothing is held beyond the gap. *)
ClampHold(a) == [a EXCEPT !.hold = Smaller(@, Less(Cap, a.bal))]

AddEntry(a, l) ==
  LET bal == Capped(a.bal + l.applied)
      back == IF l.undoes # 0 THEN bal - a.bal ELSE 0 IN
  ClampHold([a EXCEPT !.bal = bal, !.shadow = Capped(@ + l.applied),
                      !.late = IF l.applied > 0 THEN 0 ELSE @, !.hold = Less(@, back)])

DeductEntry(c, a, i) ==
  LET l == c.log[i]
      counted == i \notin Undone(c.log)
      dismisses == counted /\ (l.violation \/ (l.applied > 0 /\ a.bal = 0))
      b == [a EXCEPT !.bal = Less(@, l.applied), !.shadow = Less(@, l.applied),
                     !.known = Less(@, l.applied),
                     !.hold = IF l.undoes # 0 THEN @ ELSE @ + Smaller(a.bal, l.applied)] IN
  IF dismisses THEN Dismiss(b, 60, [rule |-> "hand", of |-> i])
  ELSE [b EXCEPT !.saved = IF counted /\ l.applied > 0 /\ a.shadow = 0 THEN @ \cup {0} ELSE @]

ReplayCommand(c, a, i) ==
  IF c.log[i].action = "add" THEN AddEntry(a, c.log[i]) ELSE DeductEntry(c, a, i)

-----------------------------------------------------------------------------
(* The streak of passes *)

ResetStreak(a, e) ==
  [a EXCEPT !.first = 0, !.waiting = FALSE, !.last = Greatest({@, e})]

BreakOrDefer(a, e, f) ==
  IF f = 0 THEN ResetStreak(a, e) ELSE [a EXCEPT !.deferred = @ \cup {<<e, f>>}]

BreakStreak(c, a, x) == BreakOrDefer(a, x[3], BreakWaitsFor(c, x))

ApplyDeferred(a, f) ==
  LET due == {d \in a.deferred : d[2] = f} IN
  IF due = {} THEN a ELSE ResetStreak([a EXCEPT !.deferred = @ \ due], Greatest({d[1] : d \in due}))

FullOnlyAtCap(a) == a.count >= BonusLimit \/ a.bal >= Cap   \* faulty: passes give back a deduction by hand

(* Nothing to earn back: a deduction by hand is not. *)
Full(a) == a.count >= BonusLimit \/ a.bal + a.hold >= Cap

(* An exam without a result between the two passes; one of an earlier day
   than the return does not count. *)
Missing(c, e, f) ==
  \E m \in Exams \ Entered(c.rows) : e < m /\ m < f /\ DayOf[m] >= c.back

(* countBonusPass *)
CountPass(c, a, e) ==
  IF a.gone \/ e <= a.last THEN a
  ELSE IF Full(a) THEN ResetStreak(a, e)
  ELSE IF a.first = 0 THEN [a EXCEPT !.first = e, !.last = e]
  ELSE IF Missing(c, a.first, e) THEN [a EXCEPT !.first = e, !.last = e, !.waiting = TRUE]
  ELSE ResetStreak([a EXCEPT !.bal = Capped(@ + 1), !.known = Capped(@ + 1),
                             !.count = @ + 1, !.bonuses = @ \cup {e}], e)

-----------------------------------------------------------------------------
(* The results *)

(***************************************************************************)
(* The first credit e was entered after, if it is of a later day: until    *)
(* that credit an old result spends the old balance and dismisses nobody,  *)
(* nor do the results after it that the balance without it could pay.      *)
(***************************************************************************)
LaterCredit(c, e) ==
  LET after == {t \in c.credits : Day(t) >= DayOf[e] /\ t <= c.rows[e].at} IN
  IF after # {} /\ Day(Least(after)) > DayOf[e] THEN Least(after) ELSE 0

Knowing(c, a, e) ==
  LET credit == LaterCredit(c, e) IN
  IF a.gone \/ credit = 0 \/ a.late # 0 THEN a
  ELSE [a EXCEPT !.late = credit, !.known = a.bal]

Omitted(c, a, e) == LaterCredit(c, e) # 0 /\ LaterCredit(c, e) = a.late

NeverIntroduced(c, a, e) == FALSE   \* faulty: every old result counts in full

(* historicalZeroIntroduced *)
Introduced(c, a, e) ==
  ~a.gone /\ a.late # 0 /\ (Omitted(c, a, e) \/ a.known > 0)

DismissIf(test, a, e) == IF test THEN DismissAt(a, 60, "loss", e) ELSE a

LoseKnowing(c, a, x) ==
  LET e == x[3]
      p == PenaltyOf[e]
      spared == Introduced(c, a, e)
      lost == [a EXCEPT !.bal = Less(@, p), !.shadow = Less(@, p),
                        !.known = IF a.gone \/ a.late = 0 \/ Omitted(c, a, e) THEN @ ELSE Less(@, p),
                        !.saved = IF a.shadow = 0 /\ a.bal > 0 /\ ~spared THEN @ \cup {e} ELSE @] IN
  DismissIf(a.bal = 0 /\ ~spared, BreakStreak(c, lost, x), e)

Lose(c, a, x) == LoseKnowing(c, Knowing(c, a, x[3]), x)

Cheat(a, e) ==
  IF a.cheats = 0 THEN DismissAt([a EXCEPT !.cheats = 1], 80, "cheat", e)
  ELSE DismissAt([a EXCEPT !.cheats = @ + 1], 100, "cheats", e)

ReplayResult(c, a, x) ==
  LET e == x[3]
      res == c.rows[e].res IN
  IF Neutral(c, e) THEN a
  ELSE IF res = "cheat" THEN Cheat(a, e)
  ELSE IF res \in Losses THEN IF e \in Finals THEN DismissAt(a, 75, "final", e) ELSE Lose(c, a, x)
  ELSE IF res = "pass" THEN CountPass(c, a, e)
  ELSE BreakStreak(c, a, x)

ReplayEvent(c, a, x) ==
  IF x[2] = 0 THEN ReplayCommand(c, a, x[3])
  ELSE ApplyDeferred(ReplayResult(c, a, x), x[3])

(* The events of S, the last of them last. *)
Run(c, stored) ==
  LET run[S \in SUBSET c.events] ==
        IF S = {} THEN Beginning(c, stored)
        ELSE LET x == Last(S) IN ReplayEvent(c, run[S \ {x}], x) IN
  run[c.events]

Replayed(rows, log, stored) == Run(WithEvents(Context(rows, log)), stored)

-----------------------------------------------------------------------------
(* What is saved *)

(* BONUS_PROGRESS: one pass counted, or a bonus that waits for a result. *)
Progress(a) ==
  IF a.gone \/ Full(a) THEN 0
  ELSE IF a.waiting THEN 2 ELSE IF a.first # 0 THEN 1 ELSE 0

NoLongerFound(a, stored) == TRUE   \* faulty: a dismissal not found again is lifted

(***************************************************************************)
(* The one implicit return: a bonus kept the student above zero where the  *)
(* stored dismissal happened.  isRuleManagedDismissal does not know the    *)
(* reason of a first cheating.                                             *)
(***************************************************************************)
SavedByBonus(a, stored) ==
  /\ stored.why.rule # "cheat"
  /\ IF stored.why \in stored.dismissals THEN stored.why.of \in a.saved
     ELSE stored.why.rule = "hand" /\ 0 \in a.saved

(* settledAutomaticHistory: what settled results once caused is kept. *)
HistoryForgotten(rows, log, es) == {}   \* faulty: every run rewrites the whole history
History(rows, log, es) == {e \in es \cap SettledExams(rows, log) : At(e) <= Opening(log).at}

Saved(rows, log, stored, a) ==
  LET stays == stored.status = "dismissed" /\ ~a.gone /\ ~SavedByBonus(a, stored)
      kept == {w \in stored.dismissals : w.of \in History(rows, log, Exams)} IN
  [status |-> IF a.gone \/ stays THEN "dismissed" ELSE "active",
   why |-> IF stays THEN stored.why ELSE a.why,
   balance |-> IF a.gone \/ stays THEN 0 ELSE Capped(a.bal),
   progress |-> IF stays THEN 0 ELSE Progress(a),
   bonuses |-> a.bonuses \cup History(rows, log, stored.bonuses),
   dismissals |-> a.dismissals \cup kept]

Replay(rows, log, stored) == Saved(rows, log, stored, Replayed(rows, log, stored))
=============================================================================
