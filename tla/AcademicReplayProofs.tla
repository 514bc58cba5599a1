------------------------- MODULE AcademicReplayProofs -------------------------
(***************************************************************************)
(* The replay of any ledger, for every chapter: what one event may do to   *)
(* the balance and to what is held back of it, and, by induction over the  *)
(* events, what a whole replay leaves.                                     *)
(***************************************************************************)
EXTENDS AcademicReplay, FiniteSetTheorems, WellFoundedInduction, TLAPS

(* A record with the fields these facts are about, typed as they are saved. *)
IsAccount(a) ==
  /\ a = [x \in DOMAIN a |-> a[x]]
  /\ {"bal", "hold", "why", "bonuses", "dismissals"} \subseteq DOMAIN a

Typed(a) == a.why \in Why /\ a.bonuses \subseteq Exams /\ a.dismissals \subseteq Why

(* A balance within the limit, and nothing held beyond the gap. *)
Balanced(a) == a.bal \in Nat /\ a.hold \in Nat /\ a.bal + a.hold <= Cap

Sound(a) == IsAccount(a) /\ Typed(a) /\ Balanced(a)

(* Only the other fields differ. *)
SameAccount(a, b) ==
  /\ IsAccount(b)
  /\ b.bal = a.bal /\ b.hold = a.hold
  /\ b.why = a.why /\ b.bonuses = a.bonuses /\ b.dismissals = a.dismissals

(* What the recorded amounts are. *)
IsCommand(l) == l.applied \in Nat

-----------------------------------------------------------------------------
LEMMA LessBounds ==
  ASSUME NEW b \in Nat, NEW n \in Nat
  PROVE  Less(b, n) \in Nat /\ Less(b, n) <= b /\ Less(b, n) + Smaller(b, n) = b
BY DEF Less, Smaller

LEMMA ExamsAreNumbers ==
  ASSUME ReplayAssumption
  PROVE  Exams \subseteq Nat
BY FS_CardinalityType DEF ReplayAssumption

LEMMA SameKeeps ==
  ASSUME NEW a, Sound(a), NEW b, SameAccount(a, b)
  PROVE  Sound(b)
BY DEF Sound, SameAccount, Typed, Balanced

(* The replay clamps a credit at the limit and the hold at the gap. *)
LEMMA AddKeeps ==
  ASSUME ReplayAssumption, NEW a, Sound(a), NEW l, IsCommand(l)
  PROVE  Sound(AddEntry(a, l))
<1> DEFINE bal == Capped(a.bal + l.applied)
           back == IF l.undoes # 0 THEN bal - a.bal ELSE 0
           b == [a EXCEPT !.bal = bal, !.shadow = Capped(@ + l.applied),
                          !.late = IF l.applied > 0 THEN 0 ELSE @, !.hold = Less(@, back)]
           hold == Smaller(b.hold, Less(Cap, b.bal))
<1>1. Cap \in Nat /\ bal \in Nat /\ a.bal <= bal /\ bal <= Cap
  BY DEF ReplayAssumption, Sound, Balanced, IsCommand, Capped, Smaller
<1>2. back \in Nat
  BY <1>1 DEF Sound, Balanced
<1> HIDE DEF back, bal
<1>3. b.bal = bal /\ b.hold = Less(a.hold, back) /\ IsAccount(b)
      /\ b.why = a.why /\ b.bonuses = a.bonuses /\ b.dismissals = a.dismissals
  BY DEF Sound, IsAccount
<1>4. b.hold \in Nat
  BY <1>2, <1>3 DEF Sound, Balanced, Less
<1>5. AddEntry(a, l) = ClampHold(b)
  BY DEF AddEntry, bal, back
<1> HIDE DEF b
<1>6. ClampHold(b) = [b EXCEPT !.hold = hold]
  BY <1>3 DEF ClampHold, IsAccount
<1>7. hold \in Nat /\ b.bal + hold <= Cap
  BY <1>1, <1>3, <1>4 DEF Smaller, Less
<1> HIDE DEF hold
<1>8. ClampHold(b).hold = hold /\ ClampHold(b).bal = b.bal /\ IsAccount(ClampHold(b))
      /\ ClampHold(b).why = a.why /\ ClampHold(b).bonuses = a.bonuses
      /\ ClampHold(b).dismissals = a.dismissals
  BY <1>3, <1>6 DEF IsAccount
<1> QED
  BY <1>1, <1>3, <1>5, <1>7, <1>8 DEF Sound, Typed, Balanced

(* What leaves the hold alone and does not raise the balance is harmless. *)
LEMMA LoweringKeeps ==
  ASSUME Cap \in Nat, NEW a, Sound(a), NEW b, IsAccount(b), Typed(b), b.hold = a.hold,
         b.bal \in Nat, b.bal <= a.bal
  PROVE  Sound(b)
BY DEF Sound, Balanced

LEMMA DismissKeeps ==
  ASSUME Cap \in Nat, NEW a, Sound(a), NEW priority, NEW why \in Why
  PROVE  Sound(Dismiss(a, priority, why))
<1> DEFINE b == Dismiss(a, priority, why)
<1>1. IsAccount(b) /\ b.hold = a.hold /\ b.bal = a.bal /\ b.why \in {a.why, why}
      /\ b.bonuses = a.bonuses /\ b.dismissals = a.dismissals
  BY DEF Dismiss, Sound, IsAccount
<1> HIDE DEF b
<1>2. b.bal \in Nat /\ b.bal <= a.bal /\ Typed(b)
  BY <1>1 DEF Sound, Balanced, Typed
<1> QED
  BY <1>1, <1>2, LoweringKeeps DEF b

LEMMA DismissAtKeeps ==
  ASSUME ReplayAssumption, NEW a, Sound(a), NEW priority, NEW e \in Exams,
         NEW rule \in {"loss", "final", "cheat", "cheats"}
  PROVE  Sound(DismissAt(a, priority, rule, e))
<1> DEFINE why == [rule |-> rule, of |-> e]
           b == Dismiss(a, priority, why)
           d == [b EXCEPT !.bal = 0, !.dismissals = @ \cup {why}]
<1>0. Cap \in Nat /\ why \in Why
  BY ExamsAreNumbers DEF ReplayAssumption, Why
<1> HIDE DEF why
<1>1. Sound(b)
  BY <1>0, DismissKeeps
<1>2. DismissAt(a, priority, rule, e) = d
  BY DEF DismissAt, why
<1> HIDE DEF b
<1>3. IsAccount(d) /\ d.hold = b.hold /\ d.bal = 0 /\ d.why = b.why
      /\ d.bonuses = b.bonuses /\ d.dismissals = b.dismissals \cup {why}
  BY <1>1 DEF Sound, IsAccount
<1> HIDE DEF d
<1>4. d.bal \in Nat /\ d.bal <= b.bal /\ Typed(d)
  BY <1>0, <1>1, <1>3 DEF Sound, Balanced, Typed
<1> QED
  BY <1>0, <1>1, <1>2, <1>3, <1>4, LoweringKeeps

(* A deduction moves from the balance to the hold what it takes, and the
   undo of an addition only lowers the balance. *)
LEMMA DeductKeeps ==
  ASSUME ReplayAssumption, NEW c, NEW a, Sound(a), NEW i \in Nat, IsCommand(c.log[i])
  PROVE  Sound(DeductEntry(c, a, i))
<1> DEFINE l == c.log[i]
           counted == i \notin Undone(c.log)
           dismisses == counted /\ (l.violation \/ (l.applied > 0 /\ a.bal = 0))
           held == IF l.undoes # 0 THEN a.hold ELSE a.hold + Smaller(a.bal, l.applied)
           b == [a EXCEPT !.bal = Less(@, l.applied), !.shadow = Less(@, l.applied),
                          !.known = Less(@, l.applied),
                          !.hold = IF l.undoes # 0 THEN @ ELSE @ + Smaller(a.bal, l.applied)]
           d == [b EXCEPT !.saved =
                   IF counted /\ l.applied > 0 /\ a.shadow = 0 THEN @ \cup {0} ELSE @]
<1>0. Cap \in Nat /\ l.applied \in Nat /\ [rule |-> "hand", of |-> i] \in Why
  BY DEF ReplayAssumption, IsCommand, Why
<1>1. DeductEntry(c, a, i) =
        IF dismisses THEN Dismiss(b, 60, [rule |-> "hand", of |-> i]) ELSE d
  BY DEF DeductEntry
<1> HIDE DEF l, counted, dismisses
<1>2. b.bal = Less(a.bal, l.applied) /\ b.hold = held /\ IsAccount(b)
      /\ b.why = a.why /\ b.bonuses = a.bonuses /\ b.dismissals = a.dismissals
  BY DEF Sound, IsAccount
<1> HIDE DEF b
<1>3. b.bal \in Nat /\ b.hold \in Nat /\ b.bal + b.hold <= Cap
  <2>1. a.bal \in Nat /\ a.hold \in Nat /\ a.bal + a.hold <= Cap
    BY DEF Sound, Balanced
  <2>2. held = a.hold \/ held = a.hold + Smaller(a.bal, l.applied)
    OBVIOUS
  <2> HIDE DEF held
  <2>3. Less(a.bal, l.applied) \in Nat /\ Smaller(a.bal, l.applied) \in Nat
        /\ Less(a.bal, l.applied) + Smaller(a.bal, l.applied) = a.bal
    BY <1>0, <2>1 DEF Less, Smaller
  <2> QED BY <1>0, <1>2, <2>1, <2>2, <2>3
<1>4. Sound(b)
  BY <1>2, <1>3 DEF Sound, Balanced, Typed
<1>5. SameAccount(b, d)
  BY <1>2 DEF IsAccount, SameAccount
<1> HIDE DEF d
<1>6. Sound(d)
  BY <1>4, <1>5, SameKeeps
<1> QED
  BY <1>0, <1>1, <1>4, <1>6, DismissKeeps

-----------------------------------------------------------------------------
LEMMA ResetStreakKeeps ==
  ASSUME NEW a, Sound(a), NEW e
  PROVE  Sound(ResetStreak(a, e))
<1>1. SameAccount(a, ResetStreak(a, e))
  BY DEF ResetStreak, Sound, IsAccount, SameAccount
<1> QED
  BY <1>1, SameKeeps

LEMMA DeferredKeeps ==
  ASSUME NEW a, Sound(a), NEW d
  PROVE  Sound([a EXCEPT !.deferred = d])
<1>1. SameAccount(a, [a EXCEPT !.deferred = d])
  BY DEF Sound, IsAccount, SameAccount
<1> QED
  BY <1>1, SameKeeps

LEMMA BreakStreakKeeps ==
  ASSUME NEW c, NEW a, Sound(a), NEW x
  PROVE  Sound(BreakStreak(c, a, x))
<1>1. ASSUME NEW e, NEW f
      PROVE  Sound([a EXCEPT !.deferred = @ \cup {<<e, f>>}])
  BY DeferredKeeps
<1> QED
  BY <1>1, ResetStreakKeeps DEF BreakStreak, BreakOrDefer

LEMMA ApplyDeferredKeeps ==
  ASSUME NEW a, Sound(a), NEW f
  PROVE  Sound(ApplyDeferred(a, f))
<1>1. ASSUME NEW due
      PROVE  Sound([a EXCEPT !.deferred = @ \ due])
  BY DeferredKeeps
<1> QED
  BY <1>1, ResetStreakKeeps DEF ApplyDeferred

(* A bonus is given only where balance and hold together are below the limit. *)
LEMMA CountPassKeeps ==
  ASSUME ReplayAssumption, NEW c, NEW a, Sound(a), NEW e \in Exams
  PROVE  Sound(CountPass(c, a, e))
<1> DEFINE started == [a EXCEPT !.first = e, !.last = e]
           waits == [a EXCEPT !.first = e, !.last = e, !.waiting = TRUE]
           earned == [a EXCEPT !.bal = Capped(@ + 1), !.known = Capped(@ + 1),
                               !.count = @ + 1, !.bonuses = @ \cup {e}]
<1>0. Sound(started)
  <2>1. SameAccount(a, started)
    BY DEF Sound, IsAccount, SameAccount
  <2> QED
    BY <2>1, SameKeeps
<1>1. Sound(waits)
  <2>1. SameAccount(a, waits)
    BY DEF Sound, IsAccount, SameAccount
  <2> QED
    BY <2>1, SameKeeps
<1>2. ASSUME ~Full(a)
      PROVE  Sound(earned)
  <2>1. earned.bal = Capped(a.bal + 1) /\ earned.hold = a.hold /\ IsAccount(earned)
        /\ earned.why = a.why /\ earned.dismissals = a.dismissals
        /\ earned.bonuses = a.bonuses \cup {e}
    BY DEF Sound, IsAccount
  <2>2. a.bal + a.hold < Cap
    BY <1>2 DEF Full, Sound, Balanced, ReplayAssumption
  <2>3. Capped(a.bal + 1) = a.bal + 1
    BY <2>2 DEF Capped, Smaller, Sound, Balanced, ReplayAssumption
  <2> HIDE DEF earned
  <2>4. Typed(earned)
    BY <2>1 DEF Sound, Typed
  <2> QED
    BY <2>1, <2>2, <2>3, <2>4 DEF Sound, Balanced, ReplayAssumption
<1> HIDE DEF started, waits, earned
<1>3. CountPass(c, a, e) \in {a, ResetStreak(a, e), started, waits}
        \/ (~Full(a) /\ CountPass(c, a, e) = ResetStreak(earned, e))
  BY DEF CountPass, started, waits, earned
<1> QED
  BY <1>0, <1>1, <1>2, <1>3, ResetStreakKeeps

-----------------------------------------------------------------------------
(* A loss lowers the balance, whatever it spares or dismisses. *)
LEMMA LoseKnowingKeeps ==
  ASSUME ReplayAssumption, NEW c, NEW a, Sound(a), NEW x, x[3] \in Exams
  PROVE  Sound(LoseKnowing(c, a, x))
<1> DEFINE e == x[3]
           p == PenaltyOf[e]
           spared == Introduced(c, a, e)
           lost == [a EXCEPT !.bal = Less(@, p), !.shadow = Less(@, p),
                             !.known = IF a.gone \/ a.late = 0 \/ Omitted(c, a, e) THEN @ ELSE Less(@, p),
                             !.saved = IF a.shadow = 0 /\ a.bal > 0 /\ ~spared THEN @ \cup {e} ELSE @]
<1>0. Cap \in Nat /\ p \in Nat
  BY DEF ReplayAssumption
<1>1. LoseKnowing(c, a, x) = DismissIf(a.bal = 0 /\ ~spared, BreakStreak(c, lost, x), e)
  BY DEF LoseKnowing
<1> HIDE DEF spared, p
<1>2. IsAccount(lost) /\ lost.hold = a.hold /\ lost.bal = Less(a.bal, p)
      /\ lost.why = a.why /\ lost.bonuses = a.bonuses /\ lost.dismissals = a.dismissals
  BY DEF Sound, IsAccount
<1> HIDE DEF lost
<1>3. lost.bal \in Nat /\ lost.bal <= a.bal /\ Typed(lost)
  BY <1>0, <1>2 DEF Sound, Balanced, Typed, Less
<1>4. Sound(lost)
  BY <1>0, <1>2, <1>3, LoweringKeeps
<1>5. Sound(BreakStreak(c, lost, x))
  BY <1>4, BreakStreakKeeps
<1> QED
  BY <1>1, <1>5, DismissAtKeeps DEF DismissIf

LEMMA LoseKeeps ==
  ASSUME ReplayAssumption, NEW c, NEW a, Sound(a), NEW x, x[3] \in Exams
  PROVE  Sound(Lose(c, a, x))
<1>1. ASSUME NEW credit
      PROVE  Sound([a EXCEPT !.late = credit, !.known = a.bal])
  <2>1. SameAccount(a, [a EXCEPT !.late = credit, !.known = a.bal])
    BY DEF Sound, IsAccount, SameAccount
  <2> QED
    BY <2>1, SameKeeps
<1>2. Sound(Knowing(c, a, x[3]))
  BY <1>1 DEF Knowing
<1> QED
  BY <1>2, LoseKnowingKeeps DEF Lose

LEMMA CheatKeeps ==
  ASSUME ReplayAssumption, NEW a, Sound(a), NEW e \in Exams
  PROVE  Sound(Cheat(a, e))
<1>1. ASSUME NEW n
      PROVE  Sound([a EXCEPT !.cheats = n])
  <2>1. SameAccount(a, [a EXCEPT !.cheats = n])
    BY DEF Sound, IsAccount, SameAccount
  <2> QED
    BY <2>1, SameKeeps
<1> QED
  BY <1>1, DismissAtKeeps DEF Cheat

LEMMA ResultKeeps ==
  ASSUME ReplayAssumption, NEW c, NEW a, Sound(a), NEW x, x[3] \in Exams
  PROVE  Sound(ReplayResult(c, a, x))
BY CheatKeeps, DismissAtKeeps, LoseKeeps, CountPassKeeps, BreakStreakKeeps DEF ReplayResult

(* An event is of a command of the log, or of the result of an exam. *)
IsEvent(c, x) ==
  /\ x \in Nat \X Nat \X Nat
  /\ IF x[2] = 0 THEN IsCommand(c.log[x[3]]) ELSE x[3] \in Exams

LEMMA EventKeeps ==
  ASSUME ReplayAssumption, NEW c, NEW a, Sound(a), NEW x, IsEvent(c, x)
  PROVE  Sound(ReplayEvent(c, a, x))
<1>1. CASE x[2] = 0
  BY <1>1, AddKeeps, DeductKeeps DEF ReplayEvent, ReplayCommand, IsEvent
<1>2. CASE x[2] # 0
  BY <1>2, ResultKeeps, ApplyDeferredKeeps DEF ReplayEvent, IsEvent
<1> QED
  BY <1>1, <1>2

-----------------------------------------------------------------------------
(* Orders on finite sets *)

LEMMA LeastNumber ==
  ASSUME NEW T, T \subseteq Nat, T # {}
  PROVE  \E x \in T : \A y \in T : x <= y
<1> DEFINE R == {ss \in Nat \X Nat : ss[1] < ss[2]}
<1>1. R = OpToRel(<, Nat)
  BY Zenon DEF OpToRel
<1>2. IsWellFoundedOn(R, Nat)
  BY Zenon, <1>1, NatLessThanWellFounded
<1> HIDE DEF R
<1>3. PICK x \in T : \A y \in T : <<y, x>> \notin R
  BY <1>2, WFMin
<1>4. ASSUME NEW y \in T
      PROVE  x <= y
  <2>1. x \in Nat /\ y \in Nat
    OBVIOUS
  <2>2. ~(y < x)
    BY <1>3, <2>1 DEF R
  <2> QED
    BY <2>1, <2>2
<1> QED
  BY <1>3, <1>4

IsOrder(R, U) ==
  /\ \A x, y \in U : x = y \/ <<x, y>> \in R \/ <<y, x>> \in R
  /\ \A x, y, z \in U : <<x, y>> \in R /\ <<y, z>> \in R => <<x, z>> \in R

IsLast(x, S, R) == x \in S /\ \A y \in S \ {x} : <<y, x>> \in R

(* A finite set has a last element in a total order: a smallest set without
   one would have one as soon as any element is put aside. *)
LEMMA HasLast ==
  ASSUME NEW U, NEW R, IsOrder(R, U), NEW S, IsFiniteSet(S), S \subseteq U, S # {}
  PROVE  \E x : IsLast(x, S, R)
<1> DEFINE Endless(Q) == Q # {} /\ \A x : ~IsLast(x, Q, R)
           T == {Cardinality(Q) : Q \in {P \in SUBSET S : Endless(P)}}
<1> SUFFICES ASSUME Endless(S)
             PROVE  FALSE
  OBVIOUS
<1>1. T \subseteq Nat /\ T # {}
  <2>1. \A Q \in SUBSET S : Cardinality(Q) \in Nat
    BY FS_Subset, FS_CardinalityType
  <2>2. S \in {P \in SUBSET S : Endless(P)}
    OBVIOUS
  <2> HIDE DEF Endless
  <2> QED
    BY <2>1, <2>2
<1>2. PICK n \in T : \A m \in T : n <= m
  BY <1>1, LeastNumber
<1>3. PICK Q \in SUBSET S : Endless(Q) /\ n = Cardinality(Q)
  BY <1>2
<1>4. PICK z : z \in Q
  BY <1>3
<1>5. \A P \in SUBSET S : Endless(P) => Cardinality(P) \in T
  OBVIOUS
<1>6. \A P : (P # {} /\ ~Endless(P)) => \E x : IsLast(x, P, R)
  OBVIOUS
<1>7. Q # {} /\ \A x : ~IsLast(x, Q, R)
  BY <1>3
<1> HIDE DEF T, Endless
<1>8. n \in Nat /\ IsFiniteSet(Q) /\ Cardinality(Q \ {z}) = n - 1
  BY <1>1, <1>2, <1>3, <1>4, FS_Subset, FS_RemoveElement
<1>9. ~Endless(Q \ {z})
  BY <1>2, <1>5, <1>8
<1>10. Q \ {z} # {}
  <2>1. ~IsLast(z, Q, R)
    BY <1>7
  <2> QED
    BY <1>4, <2>1 DEF IsLast
<1>11. PICK x : IsLast(x, Q \ {z}, R)
  BY <1>6, <1>9, <1>10
<1>12. x \in Q \ {z} /\ \A y \in Q \ {z} : y = x \/ <<y, x>> \in R
  BY <1>11 DEF IsLast
<1>13. Q \subseteq U /\ (<<x, z>> \in R \/ <<z, x>> \in R)
  BY <1>4, <1>12 DEF IsOrder
<1>14. CASE <<x, z>> \in R
  <2>1. IsLast(z, Q, R)
    BY <1>4, <1>12, <1>13, <1>14 DEF IsLast, IsOrder
  <2> QED
    BY <1>7, <2>1
<1>15. CASE <<z, x>> \in R
  <2>1. IsLast(x, Q, R)
    BY <1>12, <1>15 DEF IsLast
  <2> QED
    BY <1>7, <2>1
<1> QED
  BY <1>13, <1>14, <1>15

LEMMA GreatestIsIn ==
  ASSUME NEW S, IsFiniteSet(S), S \subseteq Nat, S # {}
  PROVE  Greatest(S) \in S /\ \A y \in S : Greatest(S) >= y
<1> DEFINE R == {ss \in Nat \X Nat : ss[1] < ss[2]}
<1>1. \A x, y \in Nat : <<x, y>> \in R <=> x < y
  OBVIOUS
<1> HIDE DEF R
<1>2. IsOrder(R, Nat)
  BY <1>1 DEF IsOrder
<1>3. PICK x : IsLast(x, S, R)
  BY <1>2, HasLast
<1>4. x \in S /\ \A y \in S \ {x} : y < x
  BY <1>1, <1>3 DEF IsLast
<1>5. \A y \in S : x >= y
  BY <1>4
<1> QED
  BY <1>4, <1>5 DEF Greatest

(* The events of a ledger are totally ordered, so the last is one of them. *)
LEMMA LastIsIn ==
  ASSUME NEW S, IsFiniteSet(S), S \subseteq Nat \X Nat \X Nat, S # {}
  PROVE  Last(S) \in S /\ \A y \in S \ {Last(S)} : Before(y, Last(S))
<1> DEFINE U == Nat \X Nat \X Nat
           R == {ss \in U \X U : Before(ss[1], ss[2])}
<1>1. \A x, y \in U : <<x, y>> \in R <=> Before(x, y)
  OBVIOUS
<1> HIDE DEF R
<1>2. \A x, y \in U : x = y \/ Before(x, y) \/ Before(y, x)
  BY DEF Before
<1>3. \A x, y, z \in U : Before(x, y) /\ Before(y, z) => Before(x, z)
  BY DEF Before
<1> HIDE DEF U
<1>4. IsOrder(R, U)
  BY <1>1, <1>2, <1>3 DEF IsOrder
<1>5. S \subseteq U
  BY DEF U
<1>6. PICK x : IsLast(x, S, R)
  BY <1>4, <1>5, HasLast
<1>7. x \in S /\ \A y \in S \ {x} : Before(y, x)
  BY <1>1, <1>5, <1>6 DEF IsLast
<1> QED
  BY <1>7 DEF Last

-----------------------------------------------------------------------------
(***************************************************************************)
(* The replay of a set of events is well defined, and every replay of      *)
(* sound events from a sound beginning is sound.                           *)
(***************************************************************************)
Replays(c, stored, f, D) ==
  \A S \in D : f[S] = IF S = {} THEN Beginning(c, stored)
                      ELSE ReplayEvent(c, f[S \ {Last(S)}], Last(S))

UpTo(n, E) == {S \in SUBSET E : Cardinality(S) <= n}

IsHistory(E) == IsFiniteSet(E) /\ E \subseteq Nat \X Nat \X Nat

LEMMA WithoutLast ==
  ASSUME NEW E, IsHistory(E), NEW S \in SUBSET E, S # {}
  PROVE  /\ Last(S) \in S /\ S \ {Last(S)} \in SUBSET E
         /\ Cardinality(S) \in Nat \ {0}
         /\ Cardinality(S \ {Last(S)}) = Cardinality(S) - 1
<1>1. IsFiniteSet(S) /\ S \subseteq Nat \X Nat \X Nat
  BY FS_Subset DEF IsHistory
<1>2. Last(S) \in S
  BY <1>1, LastIsIn
<1>3. Cardinality(S) \in Nat /\ Cardinality(S) # 0
  BY <1>1, FS_CardinalityType, FS_EmptySet
<1>4. Cardinality(S \ {Last(S)}) = Cardinality(S) - 1
  BY <1>1, <1>2, FS_RemoveElement
<1> QED
  BY <1>2, <1>3, <1>4

(* Each number of events more extends the function by one event. *)
LEMMA OneEventMore ==
  ASSUME NEW c, NEW stored, NEW E, IsHistory(E), NEW n \in Nat,
         NEW f, Replays(c, stored, f, UpTo(n, E))
  PROVE  \E g : Replays(c, stored, g, UpTo(n + 1, E))
<1> DEFINE Extended(S) == ReplayEvent(c, f[S \ {Last(S)}], Last(S))
           g == [S \in UpTo(n + 1, E) |->
                   IF S = {} THEN Beginning(c, stored) ELSE Extended(S)]
<1>1. ASSUME NEW S \in UpTo(n, E)
      PROVE  g[S] = f[S]
  <2>1. S \in UpTo(n + 1, E)
    <3>1. S \in SUBSET E /\ Cardinality(S) <= n /\ Cardinality(S) \in Nat
      BY FS_Subset, FS_CardinalityType DEF UpTo, IsHistory
    <3> QED
      BY <3>1 DEF UpTo
  <2> QED
    BY <2>1 DEF Replays
<1>2. ASSUME NEW S \in UpTo(n + 1, E), S # {}
      PROVE  S \ {Last(S)} \in UpTo(n, E)
  <2>1. S \in SUBSET E /\ Cardinality(S) <= n + 1
    BY DEF UpTo
  <2> QED
    BY <1>2, <2>1, WithoutLast DEF UpTo
<1>3. ASSUME NEW S \in UpTo(n + 1, E)
      PROVE  g[S] = IF S = {} THEN Beginning(c, stored)
                    ELSE ReplayEvent(c, g[S \ {Last(S)}], Last(S))
  <2>1. CASE S = {}
    BY <2>1
  <2>2. CASE S # {}
    <3>1. g[S \ {Last(S)}] = f[S \ {Last(S)}]
      BY <1>1, <1>2, <2>2
    <3>2. g[S] = Extended(S)
      BY <2>2
    <3> QED
      BY <2>2, <3>1, <3>2
  <2> QED
    BY <2>1, <2>2
<1>4. Replays(c, stored, g, UpTo(n + 1, E))
  BY <1>3 DEF Replays
<1> QED
  BY <1>4

LEMMA ReplayExists ==
  ASSUME NEW c, NEW stored, NEW E, IsHistory(E), NEW n \in Nat
  PROVE  \E f : Replays(c, stored, f, UpTo(n, E))
<1> DEFINE T == {m \in Nat : ~ \E f : Replays(c, stored, f, UpTo(m, E))}
<1> SUFFICES ASSUME T # {}
             PROVE  FALSE
  OBVIOUS
<1>1. PICK m \in T : \A k \in T : m <= k
  BY LeastNumber
<1>2. m \in Nat /\ ~ \E f : Replays(c, stored, f, UpTo(m, E))
  OBVIOUS
<1>3. m # 0
  <2> DEFINE f == [S \in UpTo(0, E) |-> Beginning(c, stored)]
  <2>1. ASSUME NEW S \in UpTo(0, E)
        PROVE  S = {}
    <3>1. S \in SUBSET E /\ Cardinality(S) <= 0
      BY DEF UpTo
    <3>2. Cardinality(S) = 0 /\ IsFiniteSet(S)
      BY <3>1, FS_Subset, FS_CardinalityType DEF IsHistory
    <3> QED
      BY <3>2, FS_EmptySet
  <2>2. Replays(c, stored, f, UpTo(0, E))
    BY <2>1 DEF Replays
  <2> QED
    BY <1>2, <2>2
<1>4. m - 1 \in Nat /\ m - 1 \notin T
  BY <1>1, <1>2, <1>3
<1>5. PICK f : Replays(c, stored, f, UpTo(m - 1, E))
  BY <1>4
<1>6. \E g : Replays(c, stored, g, UpTo((m - 1) + 1, E))
  BY <1>4, <1>5, OneEventMore
<1> QED
  BY <1>2, <1>6

(* What Run computes is what the last event makes of the others' replay. *)
LEMMA RunReplays ==
  ASSUME NEW c, NEW stored, IsHistory(c.events)
  PROVE  \E f : Replays(c, stored, f, SUBSET c.events) /\ Run(c, stored) = f[c.events]
<1> DEFINE E == c.events
           run[S \in SUBSET c.events] ==
             IF S = {} THEN Beginning(c, stored)
             ELSE LET x == Last(S) IN ReplayEvent(c, run[S \ {x}], x)
           IsRun(r) == r = [S \in SUBSET c.events |->
                              IF S = {} THEN Beginning(c, stored)
                              ELSE LET x == Last(S) IN ReplayEvent(c, r[S \ {x}], x)]
<1>1. PICK n \in Nat : UpTo(n, E) = SUBSET E
  <2>1. Cardinality(E) \in Nat /\ \A S \in SUBSET E : Cardinality(S) <= Cardinality(E)
    BY FS_CardinalityType, FS_Subset DEF IsHistory
  <2>2. UpTo(Cardinality(E), E) = SUBSET E
    BY <2>1 DEF UpTo
  <2> QED
    BY <2>1, <2>2
<1>2. PICK f : Replays(c, stored, f, SUBSET E)
  <2> HIDE DEF run, IsRun
  <2>1. \E f : Replays(c, stored, f, UpTo(n, E))
    BY ReplayExists
  <2> QED
    BY <1>1, <2>1
<1> DEFINE g == [S \in SUBSET E |-> f[S]]
<1>3. IsRun(g)
  <2>1. ASSUME NEW S \in SUBSET E, S # {}
        PROVE  g[S \ {Last(S)}] = f[S \ {Last(S)}]
    OBVIOUS
  <2>2. ASSUME NEW S \in SUBSET E
        PROVE  g[S] = IF S = {} THEN Beginning(c, stored)
                      ELSE LET x == Last(S) IN ReplayEvent(c, g[S \ {x}], x)
    BY <1>2, <2>1 DEF Replays
  <2> QED
    BY <2>2
<1>4. run = CHOOSE r : IsRun(r)
  OBVIOUS
<1>5. IsRun(run)
  <2> HIDE DEF run, IsRun, g
  <2> QED
    BY <1>3, <1>4
<1>6. Replays(c, stored, run, SUBSET E)
  <2> HIDE DEF run
  <2> QED
    BY <1>5 DEF Replays
<1>7. Run(c, stored) = run[c.events]
  BY DEF Run
<1> QED
  BY <1>6, <1>7

LEMMA RunKeeps ==
  ASSUME ReplayAssumption, NEW c, NEW stored, IsFiniteSet(c.events),
         \A x \in c.events : IsEvent(c, x), Sound(Beginning(c, stored))
  PROVE  Sound(Run(c, stored))
<1> DEFINE E == c.events
<1>1. IsHistory(E)
  BY DEF IsHistory, IsEvent
<1>2. PICK f : Replays(c, stored, f, SUBSET E) /\ Run(c, stored) = f[E]
  BY <1>1, RunReplays
<1> DEFINE T == {Cardinality(S) : S \in {P \in SUBSET E : ~Sound(f[P])}}
<1> SUFFICES ASSUME ~Sound(f[E])
             PROVE  FALSE
  BY <1>2
<1>3. T \subseteq Nat /\ T # {}
  <2>1. \A S \in SUBSET E : Cardinality(S) \in Nat
    BY <1>1, FS_Subset, FS_CardinalityType DEF IsHistory
  <2>2. E \in {P \in SUBSET E : ~Sound(f[P])}
    OBVIOUS
  <2> QED
    BY <2>1, <2>2
<1>4. PICK n \in T : \A m \in T : n <= m
  BY <1>3, LeastNumber
<1>5. PICK S \in SUBSET E : ~Sound(f[S]) /\ n = Cardinality(S)
  BY <1>4
<1>6. \A P \in SUBSET E : ~Sound(f[P]) => Cardinality(P) \in T
  OBVIOUS
<1> HIDE DEF T
<1>7. S # {}
  BY <1>2, <1>5 DEF Replays
<1> DEFINE x == Last(S)
<1> HIDE DEF x, E
<1>8. x \in S /\ S \ {x} \in SUBSET E /\ n \in Nat \ {0} /\ Cardinality(S \ {x}) = n - 1
  BY <1>1, <1>5, <1>7, WithoutLast DEF x
<1>9. Sound(f[S \ {x}])
  BY <1>4, <1>6, <1>8
<1>10. Sound(ReplayEvent(c, f[S \ {x}], x))
  BY <1>8, <1>9, EventKeeps DEF E
<1> QED
  BY <1>2, <1>5, <1>7, <1>10 DEF Replays, x

-----------------------------------------------------------------------------
(***************************************************************************)
(* The events of a stored ledger are finitely many numbered moments.       *)
(***************************************************************************)
IsLedger(rows, log) == rows \in [Exams -> Row] /\ log \in Seq(Entry)

LEMMA ImageIsFinite ==
  ASSUME NEW S, IsFiniteSet(S), NEW f, NEW T, T = {f[s] : s \in S}
  PROVE  IsFiniteSet(T)
<1> DEFINE g == [s \in S |-> f[s]]
<1>1. g \in Surjection(S, T)
  BY DEF Surjection
<1> QED
  BY <1>1, FS_Surjection

LEMMA EntriesAreTyped ==
  ASSUME NEW log \in Seq(Entry)
  PROVE  /\ IsFiniteSet(DOMAIN log) /\ DOMAIN log \subseteq Nat \ {0}
         /\ \A i \in DOMAIN log : log[i] \in Entry
<1>1. Len(log) \in Nat /\ DOMAIN log = 1..Len(log)
  OBVIOUS
<1>2. IsFiniteSet(1..Len(log))
  BY <1>1, FS_Interval
<1>3. 1..Len(log) \subseteq Nat \ {0}
  BY <1>1
<1> QED
  BY <1>1, <1>2, <1>3

LEMMA LatestIsPlace ==
  ASSUME NEW log \in Seq(Entry), NEW actions
  PROVE  Latest(log, actions) \in {0} \cup DOMAIN log
<1> DEFINE P == {i \in DOMAIN log : log[i].action \in actions}
           Q == {0} \cup P
<1>1. IsFiniteSet(P) /\ P \subseteq Nat
  BY EntriesAreTyped, FS_Subset
<1>2. IsFiniteSet(P \cup {0}) /\ Q = P \cup {0}
  BY <1>1, FS_AddElement
<1>3. Q \subseteq Nat /\ Q # {}
  BY <1>1
<1> HIDE DEF Q
<1>4. Greatest(Q) \in Q
  BY <1>2, <1>3, GreatestIsIn
<1> QED
  BY <1>4 DEF Latest, Q

LEMMA OpeningIsEntry ==
  ASSUME ReplayAssumption, NEW log \in Seq(Entry)
  PROVE  Opening(log) \in Entry
<1>1. FullBalance \in Entry
  BY DEF FullBalance, Entry, ReplayAssumption
<1> QED
  BY <1>1, LatestIsPlace, EntriesAreTyped DEF Opening

LEMMA CreditsAreMoments ==
  ASSUME NEW log \in Seq(Entry)
  PROVE  IsFiniteSet(Credits(log)) /\ Credits(log) \subseteq Nat
<1> DEFINE P == {j \in Pending(log) : log[j].action = "add" /\ log[j].applied > 0}
           f == [i \in P |-> log[i].at]
<1>1. P \subseteq DOMAIN log
  BY DEF Pending
<1>2. IsFiniteSet(P) /\ \A i \in P : log[i].at \in Nat
  BY <1>1, EntriesAreTyped, FS_Subset DEF Entry
<1>3. Credits(log) = {f[i] : i \in P} /\ Credits(log) \subseteq Nat
  BY <1>2 DEF Credits
<1> HIDE DEF P, f
<1> QED
  BY <1>2, <1>3, ImageIsFinite

(* A result stands at its exam's moment or at a credit's. *)
LEMMA TimesAreAmong ==
  ASSUME ReplayAssumption, NEW rows, NEW log, IsLedger(rows, log), NEW M, M \subseteq Nat,
         \A e \in Entered(rows) : At(e) \in M, Credits(log) \subseteq M
  PROVE  \A e \in Entered(rows) : LedgerTime(Context(rows, log), e) \in M
<1> DEFINE c == Context(rows, log)
<1>0. c.rows = rows /\ c.credits = Credits(log)
  BY DEF Context
<1> HIDE DEF c
<1>1. ASSUME NEW e \in Entered(rows)
      PROVE  OwnTime(c, e) \in M
  <2> DEFINE F == {t \in c.credits : t > At(e) /\ t <= c.rows[e].at /\ Day(t) = DayOf[e]}
  <2>1. IsFiniteSet(F) /\ F \subseteq M
    BY <1>0, CreditsAreMoments, FS_Subset DEF IsLedger
  <2>2. IsFiniteSet(F \cup {At(e)}) /\ F \cup {At(e)} \subseteq Nat
    BY <2>1, FS_AddElement
  <2>3. {At(e)} \cup F = F \cup {At(e)}
    OBVIOUS
  <2>4. OwnTime(c, e) = IF KeepsPlace(c, e) THEN At(e) ELSE Greatest({At(e)} \cup F)
    BY DEF OwnTime
  <2> HIDE DEF F
  <2>5. Greatest({At(e)} \cup F) \in {At(e)} \cup F
    BY <2>2, <2>3, GreatestIsIn
  <2> QED
    BY <2>1, <2>4, <2>5
<1>2. ASSUME NEW e \in Entered(rows)
      PROVE  LedgerTime(c, e) \in M
  <2> DEFINE G == {g \in Entered(c.rows) : g <= e /\ DayOf[g] = DayOf[e]}
             f == [x \in G |-> OwnTime(c, x)]
             T == {OwnTime(c, x) : x \in G}
  <2>1. e \in Exams /\ e \in Nat /\ Entered(c.rows) \subseteq Exams /\ e \in Entered(c.rows)
    BY <1>0, ExamsAreNumbers DEF Entered
  <2>2. IsFiniteSet(G) /\ G \subseteq Entered(rows) /\ e \in G
    BY <1>0, <2>1, FS_Subset DEF ReplayAssumption
  <2>3. T = {f[x] : x \in G} /\ T \subseteq M /\ T # {}
    BY <1>1, <2>2
  <2>4. IsFiniteSet(T)
    <3> HIDE DEF T, f, G
    <3> QED
      BY <2>2, <2>3, ImageIsFinite
  <2>5. LedgerTime(c, e) = IF KeepsPlace(c, e) THEN Greatest(T) ELSE OwnTime(c, e)
    BY DEF LedgerTime
  <2> HIDE DEF T
  <2> QED
    BY <1>1, <2>3, <2>4, <2>5, GreatestIsIn
<1> QED
  BY <1>2 DEF c

LEMMA TimesAreMoments ==
  ASSUME ReplayAssumption, NEW rows, NEW log, IsLedger(rows, log)
  PROVE  \A e \in Entered(rows) : LedgerTime(Context(rows, log), e) \in Nat
<1>1. \A e \in Entered(rows) : At(e) \in Nat
  BY DEF At, Entered, ReplayAssumption
<1> QED
  BY <1>1, TimesAreAmong, CreditsAreMoments DEF IsLedger

LEMMA EventsAreEvents ==
  ASSUME ReplayAssumption, NEW rows, NEW log, IsLedger(rows, log)
  PROVE  LET c == WithEvents(Context(rows, log)) IN
         IsFiniteSet(c.events) /\ \A x \in c.events : IsEvent(c, x)
<1> DEFINE b == Context(rows, log)
           c == WithEvents(b)
           f == [i \in Pending(log) |-> <<log[i].at, 0, i>>]
           g == [e \in Entered(rows) |-> <<LedgerTime(b, e), 1, e>>]
<1>1. b.rows = rows /\ b.log = log
  BY DEF Context
<1>2. c.events = CommandEvents(b) \cup ResultEvents(b) /\ c.log = log
  BY DEF WithEvents, Context
<1>3. IsFiniteSet(Pending(log)) /\ Pending(log) \subseteq DOMAIN log
  BY EntriesAreTyped, FS_Subset DEF Pending, IsLedger
<1>4. IsFiniteSet(Entered(rows)) /\ Entered(rows) \subseteq Exams
  BY FS_Subset DEF Entered, ReplayAssumption
<1>5. CommandEvents(b) = {f[i] : i \in Pending(log)}
  BY <1>1 DEF CommandEvents
<1>6. ResultEvents(b) = {g[e] : e \in Entered(rows)}
  BY <1>1 DEF ResultEvents
<1>7. ASSUME NEW i \in Pending(log)
      PROVE  IsEvent(c, f[i])
  <2>1. i \in Nat /\ log[i] \in Entry
    BY <1>3, EntriesAreTyped DEF IsLedger
  <2>2. log[i].at \in Nat /\ log[i].applied \in Nat
    BY <2>1 DEF Entry
  <2> HIDE DEF c
  <2> QED
    BY <1>2, <2>1, <2>2 DEF IsEvent, IsCommand
<1>8. ASSUME NEW e \in Entered(rows)
      PROVE  IsEvent(c, g[e])
  <2>1. e \in Exams /\ e \in Nat /\ LedgerTime(b, e) \in Nat
    BY <1>4, ExamsAreNumbers, TimesAreMoments
  <2> HIDE DEF c, b
  <2> QED
    BY <2>1 DEF IsEvent
<1>9. IsFiniteSet(c.events)
  <2> HIDE DEF c, b, f, g
  <2>1. IsFiniteSet(CommandEvents(b))
    BY <1>3, <1>5, ImageIsFinite
  <2>2. IsFiniteSet(ResultEvents(b))
    BY <1>4, <1>6, ImageIsFinite
  <2> QED
    BY <1>2, <2>1, <2>2, FS_Union
<1>10. ASSUME NEW x \in c.events
       PROVE  IsEvent(c, x)
  <2> HIDE DEF c, f, g
  <2> QED
    BY <1>2, <1>5, <1>6, <1>7, <1>8
<1> QED
  BY <1>9, <1>10

LEMMA CappedBounds ==
  ASSUME Cap \in Nat, NEW n \in Nat
  PROVE  Capped(n) \in Nat /\ Capped(n) <= Cap /\ Capped(n) <= n
BY DEF Capped, Smaller

LEMMA BeginningIsSound ==
  ASSUME ReplayAssumption, NEW c, c.open.after \in Nat, NEW stored
  PROVE  Sound(Beginning(c, stored))
<1> DEFINE b == Beginning(c, stored)
<1>1. IsAccount(b) /\ b.bal = Capped(c.open.after) /\ b.hold = 0 /\ b.why = NoWhy
      /\ b.bonuses = {} /\ b.dismissals = {}
  BY DEF Beginning, IsAccount
<1> HIDE DEF b
<1>2. Typed(b)
  BY <1>1 DEF Typed, NoWhy, Why
<1>3. Balanced(b)
  BY <1>1, CappedBounds DEF Balanced, ReplayAssumption
<1> QED
  BY <1>1, <1>2, <1>3 DEF Sound, b

(***************************************************************************)
(* Whatever is stored, the replay ends with the balance and what is held   *)
(* back of it within the chapter's limit: what administrators took by hand *)
(* no bonus and no credit of the ledger gives back beyond it.              *)
(***************************************************************************)
THEOREM ReplayIsSound ==
  ASSUME ReplayAssumption, NEW rows, NEW log, IsLedger(rows, log), NEW stored
  PROVE  Sound(Replayed(rows, log, stored))
<1> DEFINE c == WithEvents(Context(rows, log))
<1>1. IsFiniteSet(c.events) /\ \A x \in c.events : IsEvent(c, x)
  BY EventsAreEvents
<1>2. c.open.after \in Nat
  <2>1. c.open = Opening(log)
    BY DEF WithEvents, Context
  <2> QED
    BY <2>1, OpeningIsEntry DEF IsLedger, Entry
<1> HIDE DEF c
<1>3. Sound(Run(c, stored))
  BY <1>1, <1>2, BeginningIsSound, RunKeeps
<1> QED
  BY <1>3 DEF Replayed, c

(* What the replay saves is a student again. *)
LEMMA ReplayIsStudent ==
  ASSUME ReplayAssumption, NEW rows, NEW log, IsLedger(rows, log), NEW stored \in Student
  PROVE  /\ Replay(rows, log, stored) \in Student
         /\ Replay(rows, log, stored).balance <= Cap
<1> DEFINE a == Replayed(rows, log, stored)
           s == Saved(rows, log, stored, a)
<1>1. Sound(a)
  BY ReplayIsSound
<1> HIDE DEF a
<1>2. stored.why \in Why /\ stored.bonuses \subseteq Exams /\ stored.dismissals \subseteq Why
  BY DEF Student
<1>3. a.why \in Why /\ a.bonuses \subseteq Exams /\ a.dismissals \subseteq Why /\ a.bal \in Nat
  BY <1>1 DEF Sound, Typed, Balanced
<1>4. Capped(a.bal) \in Nat /\ Capped(a.bal) <= Cap /\ Cap \in Nat
  BY <1>3, CappedBounds DEF ReplayAssumption
<1>5. Progress(a) \in 0..2
  BY DEF Progress
<1>6. History(rows, log, stored.bonuses) \subseteq Exams
  BY <1>2 DEF History
<1>7. s \in Student /\ s.balance <= Cap
  <2>1. s.status \in {"active", "dismissed"} /\ s.why \in {stored.why, a.why}
        /\ s.balance \in {0, Capped(a.bal)} /\ s.progress \in {0, Progress(a)}
        /\ s.bonuses \subseteq Exams /\ s.dismissals \subseteq a.dismissals \cup stored.dismissals
    BY <1>3, <1>6 DEF Saved
  <2>2. s = [status |-> s.status, why |-> s.why, balance |-> s.balance, progress |-> s.progress,
             bonuses |-> s.bonuses, dismissals |-> s.dismissals]
    BY DEF Saved
  <2> HIDE DEF s
  <2>3. s.why \in Why /\ s.balance \in Nat /\ s.balance <= Cap /\ s.progress \in 0..2
        /\ s.dismissals \subseteq Why
    BY <1>2, <1>3, <1>4, <1>5, <2>1
  <2> QED
    BY <2>1, <2>2, <2>3 DEF Student
<1> QED
  BY <1>7 DEF Replay, a

-----------------------------------------------------------------------------
(***************************************************************************)
(* Replaying twice: what a replay saved, replayed again, is the same.      *)
(***************************************************************************)

(* The parts of what the replay carries. *)
Parts == {"bal", "shadow", "hold", "gone", "why", "priority", "cheats", "late", "known", "saved",
          "bonuses", "dismissals", "count", "first", "waiting", "deferred", "last"}
Whole(a) == DOMAIN a = Parts /\ a = [x \in Parts |-> a[x]]

(* The results this replay gives an effect. *)
Effective(c) == {e \in Entered(c.rows) : ~Neutral(c, e)}

(***************************************************************************)
(* What a replay found is explained by effective results: its bonuses are  *)
(* theirs, and its automatic dismissals, never by hand, leave the student  *)
(* dismissed.                                                              *)
(***************************************************************************)
Explained(c, a) ==
  /\ Whole(a)
  /\ a.bonuses \subseteq Effective(c)
  /\ a.dismissals # {} => a.gone
  /\ \A w \in a.dismissals : w.rule # "hand" /\ w.of \in Entered(c.rows)

(* An explained replay goes on: nobody dismissed comes back within it. *)
Follows(c, a, b) == Explained(c, b) /\ (a.gone => b.gone)

LEMMA Unmoved ==
  ASSUME NEW c, NEW a, Explained(c, a), NEW b, Whole(b), b.gone = a.gone,
         b.bonuses = a.bonuses, b.dismissals = a.dismissals
  PROVE  Follows(c, a, b)
BY DEF Explained, Follows

LEMMA AddFollows ==
  ASSUME NEW c, NEW a, Explained(c, a), NEW l
  PROVE  Follows(c, a, AddEntry(a, l))
<1> DEFINE bal == Capped(a.bal + l.applied)
           back == IF l.undoes # 0 THEN bal - a.bal ELSE 0
           b == [a EXCEPT !.bal = bal, !.shadow = Capped(@ + l.applied),
                          !.late = IF l.applied > 0 THEN 0 ELSE @, !.hold = Less(@, back)]
<1>1. AddEntry(a, l) = ClampHold(b)
  BY DEF AddEntry
<1> HIDE DEF bal, back
<1>2. Whole(b) /\ b.gone = a.gone /\ b.bonuses = a.bonuses /\ b.dismissals = a.dismissals
  BY DEF Explained, Whole, Parts
<1> HIDE DEF b
<1>3. Whole(ClampHold(b)) /\ ClampHold(b).gone = a.gone /\ ClampHold(b).bonuses = a.bonuses
      /\ ClampHold(b).dismissals = a.dismissals
  BY <1>2 DEF ClampHold, Whole, Parts
<1> QED BY <1>1, <1>3, Unmoved

LEMMA DismissFollows ==
  ASSUME NEW c, NEW a, Explained(c, a), NEW priority, NEW why
  PROVE  Follows(c, a, Dismiss(a, priority, why)) /\ Dismiss(a, priority, why).gone
<1> DEFINE b == [a EXCEPT !.late = 0, !.gone = TRUE]
           d == [b EXCEPT !.priority = priority, !.why = why]
<1>1. Dismiss(a, priority, why) \in {b, d}
  BY DEF Dismiss
<1>2. Whole(b) /\ b.gone = TRUE /\ b.bonuses = a.bonuses /\ b.dismissals = a.dismissals
  BY DEF Explained, Whole, Parts
<1> HIDE DEF b
<1>3. Whole(d) /\ d.gone = TRUE /\ d.bonuses = a.bonuses /\ d.dismissals = a.dismissals
  BY <1>2 DEF Whole, Parts
<1> HIDE DEF d
<1> QED BY <1>1, <1>2, <1>3 DEF Explained, Follows

LEMMA DismissAtFollows ==
  ASSUME NEW c, NEW a, Explained(c, a), NEW priority, NEW e \in Entered(c.rows),
         NEW rule, rule # "hand"
  PROVE  Follows(c, a, DismissAt(a, priority, rule, e))
<1> DEFINE why == [rule |-> rule, of |-> e]
           b == Dismiss(a, priority, why)
           d == [b EXCEPT !.bal = 0, !.dismissals = @ \cup {why}]
<1>1. DismissAt(a, priority, rule, e) = d
  BY DEF DismissAt
<1>2. Explained(c, b) /\ b.gone
  BY DismissFollows DEF Follows
<1>3. why.rule # "hand" /\ why.of = e
  OBVIOUS
<1> HIDE DEF b, why
<1>4. Whole(d) /\ d.gone = b.gone /\ d.bonuses = b.bonuses /\ d.dismissals = b.dismissals \cup {why}
  BY <1>2 DEF Explained, Whole, Parts
<1> HIDE DEF d
<1> QED BY <1>1, <1>2, <1>3, <1>4 DEF Explained, Follows

LEMMA Onward ==
  ASSUME NEW c, NEW a, NEW b, NEW d, Follows(c, a, b), Follows(c, b, d)
  PROVE  Follows(c, a, d)
BY DEF Follows

LEMMA DeductFollows ==
  ASSUME NEW c, NEW a, Explained(c, a), NEW i
  PROVE  Follows(c, a, DeductEntry(c, a, i))
<1> DEFINE l == c.log[i]
           counted == i \notin Undone(c.log)
           dismisses == counted /\ (l.violation \/ (l.applied > 0 /\ a.bal = 0))
           b == [a EXCEPT !.bal = Less(@, l.applied), !.shadow = Less(@, l.applied),
                          !.known = Less(@, l.applied),
                          !.hold = IF l.undoes # 0 THEN @ ELSE @ + Smaller(a.bal, l.applied)]
           d == [b EXCEPT !.saved =
                   IF counted /\ l.applied > 0 /\ a.shadow = 0 THEN @ \cup {0} ELSE @]
<1>1. DeductEntry(c, a, i) =
        IF dismisses THEN Dismiss(b, 60, [rule |-> "hand", of |-> i]) ELSE d
  BY DEF DeductEntry
<1> HIDE DEF l, counted, dismisses
<1>2. Whole(b) /\ b.gone = a.gone /\ b.bonuses = a.bonuses /\ b.dismissals = a.dismissals
  BY DEF Explained, Whole, Parts
<1> HIDE DEF b
<1>3. Whole(d) /\ d.gone = a.gone /\ d.bonuses = a.bonuses /\ d.dismissals = a.dismissals
  BY <1>2 DEF Whole, Parts
<1> HIDE DEF d
<1>4. Follows(c, a, b) /\ Follows(c, a, d)
  BY <1>2, <1>3, Unmoved
<1> QED BY <1>1, <1>4, DismissFollows, Onward DEF Follows

LEMMA ResetStreakFollows ==
  ASSUME NEW c, NEW a, Explained(c, a), NEW e
  PROVE  Follows(c, a, ResetStreak(a, e))
<1>1. Whole(ResetStreak(a, e)) /\ ResetStreak(a, e).gone = a.gone
      /\ ResetStreak(a, e).bonuses = a.bonuses /\ ResetStreak(a, e).dismissals = a.dismissals
  BY DEF ResetStreak, Explained, Whole, Parts
<1> QED BY <1>1, Unmoved

LEMMA DeferredFollows ==
  ASSUME NEW c, NEW a, Explained(c, a), NEW d
  PROVE  Follows(c, a, [a EXCEPT !.deferred = d])
<1> DEFINE b == [a EXCEPT !.deferred = d]
<1>1. Whole(b) /\ b.gone = a.gone /\ b.bonuses = a.bonuses /\ b.dismissals = a.dismissals
  BY DEF Explained, Whole, Parts
<1> HIDE DEF b
<1>2. Follows(c, a, b)
  BY <1>1, Unmoved
<1> QED BY <1>2 DEF b

LEMMA BreakStreakFollows ==
  ASSUME NEW c, NEW a, Explained(c, a), NEW x
  PROVE  Follows(c, a, BreakStreak(c, a, x))
<1>1. ASSUME NEW e, NEW f
      PROVE  Follows(c, a, [a EXCEPT !.deferred = @ \cup {<<e, f>>}])
  BY DeferredFollows
<1> QED BY <1>1, ResetStreakFollows DEF BreakStreak, BreakOrDefer

LEMMA ApplyDeferredFollows ==
  ASSUME NEW c, NEW a, Explained(c, a), NEW f
  PROVE  Follows(c, a, ApplyDeferred(a, f))
<1>1. ASSUME NEW due PROVE Follows(c, a, [a EXCEPT !.deferred = @ \ due])
  BY DeferredFollows
<1>2. ASSUME NEW due, NEW e PROVE Follows(c, a, ResetStreak([a EXCEPT !.deferred = @ \ due], e))
  BY <1>1, ResetStreakFollows, Onward DEF Follows
<1>3. Follows(c, a, a)
  BY DEF Follows
<1> QED BY <1>2, <1>3 DEF ApplyDeferred

(* Only an effective pass earns a bonus. *)
LEMMA CountPassFollows ==
  ASSUME NEW c, NEW a, Explained(c, a), NEW e \in Effective(c)
  PROVE  Follows(c, a, CountPass(c, a, e))
<1> DEFINE started == [a EXCEPT !.first = e, !.last = e]
           waits == [a EXCEPT !.first = e, !.last = e, !.waiting = TRUE]
           earned == [a EXCEPT !.bal = Capped(@ + 1), !.known = Capped(@ + 1),
                               !.count = @ + 1, !.bonuses = @ \cup {e}]
<1>1. Whole(started) /\ started.gone = a.gone /\ started.bonuses = a.bonuses
      /\ started.dismissals = a.dismissals
  BY DEF Explained, Whole, Parts
<1>2. Whole(waits) /\ waits.gone = a.gone /\ waits.bonuses = a.bonuses
      /\ waits.dismissals = a.dismissals
  BY DEF Explained, Whole, Parts
<1>3. Whole(earned) /\ earned.gone = a.gone /\ earned.bonuses = a.bonuses \cup {e}
      /\ earned.dismissals = a.dismissals
  BY DEF Explained, Whole, Parts
<1>4. CountPass(c, a, e) \in {a, ResetStreak(a, e), started, waits, ResetStreak(earned, e)}
  BY DEF CountPass, started, waits, earned
<1> HIDE DEF started, waits, earned
<1>5. Follows(c, a, a) /\ Follows(c, a, started) /\ Follows(c, a, waits)
  BY <1>1, <1>2, Unmoved DEF Follows
<1>6. Follows(c, a, earned)
  BY <1>3 DEF Explained, Follows
<1> QED BY <1>4, <1>5, <1>6, ResetStreakFollows, Onward DEF Follows

LEMMA LoseKnowingFollows ==
  ASSUME NEW c, NEW a, Explained(c, a), NEW x, x[3] \in Entered(c.rows)
  PROVE  Follows(c, a, LoseKnowing(c, a, x))
<1> DEFINE e == x[3]
           p == PenaltyOf[e]
           spared == Introduced(c, a, e)
           lost == [a EXCEPT !.bal = Less(@, p), !.shadow = Less(@, p),
                             !.known = IF a.gone \/ a.late = 0 \/ Omitted(c, a, e) THEN @ ELSE Less(@, p),
                             !.saved = IF a.shadow = 0 /\ a.bal > 0 /\ ~spared THEN @ \cup {e} ELSE @]
           broken == BreakStreak(c, lost, x)
<1>1. LoseKnowing(c, a, x) = DismissIf(a.bal = 0 /\ ~spared, broken, e)
  BY DEF LoseKnowing
<1> HIDE DEF spared, p
<1>2. Whole(lost) /\ lost.gone = a.gone /\ lost.bonuses = a.bonuses
      /\ lost.dismissals = a.dismissals
  BY DEF Explained, Whole, Parts
<1> HIDE DEF lost
<1>3. Follows(c, a, broken)
  BY <1>2, Unmoved, BreakStreakFollows, Onward DEF Follows
<1> HIDE DEF broken
<1> QED BY <1>1, <1>3, DismissAtFollows, Onward DEF DismissIf, Follows

LEMMA LoseFollows ==
  ASSUME NEW c, NEW a, Explained(c, a), NEW x, x[3] \in Entered(c.rows)
  PROVE  Follows(c, a, Lose(c, a, x))
<1>1. ASSUME NEW credit
      PROVE  Follows(c, a, [a EXCEPT !.late = credit, !.known = a.bal])
  <2> DEFINE b == [a EXCEPT !.late = credit, !.known = a.bal]
  <2>1. Whole(b) /\ b.gone = a.gone /\ b.bonuses = a.bonuses /\ b.dismissals = a.dismissals
    BY DEF Explained, Whole, Parts
  <2> HIDE DEF b
  <2>2. Follows(c, a, b)
    BY <2>1, Unmoved
  <2> QED BY <2>2 DEF b
<1>2. Follows(c, a, Knowing(c, a, x[3]))
  BY <1>1 DEF Knowing, Follows
<1> QED BY <1>2, LoseKnowingFollows, Onward DEF Lose, Follows

LEMMA CheatFollows ==
  ASSUME NEW c, NEW a, Explained(c, a), NEW e \in Entered(c.rows)
  PROVE  Follows(c, a, Cheat(a, e))
<1>1. ASSUME NEW n
      PROVE  Follows(c, a, [a EXCEPT !.cheats = n])
  <2> DEFINE b == [a EXCEPT !.cheats = n]
  <2>1. Whole(b) /\ b.gone = a.gone /\ b.bonuses = a.bonuses /\ b.dismissals = a.dismissals
    BY DEF Explained, Whole, Parts
  <2> HIDE DEF b
  <2>2. Follows(c, a, b)
    BY <2>1, Unmoved
  <2> QED BY <2>2 DEF b
<1>2. ASSUME NEW n, NEW priority, NEW rule, rule # "hand"
      PROVE  Follows(c, a, DismissAt([a EXCEPT !.cheats = n], priority, rule, e))
  BY <1>1, <1>2, DismissAtFollows, Onward DEF Follows
<1> QED BY <1>2 DEF Cheat

LEMMA ResultFollows ==
  ASSUME NEW c, NEW a, Explained(c, a), NEW x, x[3] \in Entered(c.rows)
  PROVE  Follows(c, a, ReplayResult(c, a, x))
<1>1. Follows(c, a, a)
  BY DEF Follows
<1> QED
  BY <1>1, CheatFollows, DismissAtFollows, LoseFollows, CountPassFollows, BreakStreakFollows
  DEF ReplayResult, Effective

LEMMA EventFollows ==
  ASSUME NEW c, NEW a, Explained(c, a), NEW x, x[2] # 0 => x[3] \in Entered(c.rows)
  PROVE  Follows(c, a, ReplayEvent(c, a, x))
<1>1. CASE x[2] = 0
  BY <1>1, AddFollows, DeductFollows DEF ReplayEvent, ReplayCommand
<1>2. CASE x[2] # 0
  BY <1>2, ResultFollows, ApplyDeferredFollows, Onward DEF ReplayEvent, Follows
<1> QED BY <1>1, <1>2

(* What holds of no event, and of each set of events once it holds without the last, *)
(* holds of every set of events. *)
LEMMA HistoryInduction ==
  ASSUME NEW E, IsHistory(E), NEW G, {} \in G,
         \A S \in SUBSET E : S # {} /\ S \ {Last(S)} \in G => S \in G
  PROVE  SUBSET E \subseteq G
<1> DEFINE Bad == {P \in SUBSET E : P \notin G}
           T == {Cardinality(S) : S \in Bad}
<1> SUFFICES ASSUME NEW W \in SUBSET E, W \notin G
             PROVE  FALSE
  OBVIOUS
<1>1. T \subseteq Nat /\ T # {}
  <2>1. \A S \in SUBSET E : Cardinality(S) \in Nat
    BY FS_Subset, FS_CardinalityType DEF IsHistory
  <2>2. W \in Bad
    OBVIOUS
  <2> QED BY <2>1, <2>2
<1>2. PICK n \in T : \A m \in T : n <= m
  BY <1>1, LeastNumber
<1>3. PICK S \in SUBSET E : S \notin G /\ n = Cardinality(S)
  BY <1>2
<1>4. \A P \in SUBSET E : P \notin G => Cardinality(P) \in T
  OBVIOUS
<1> HIDE DEF T, Bad
<1>5. S # {}
  BY <1>3
<1>6. S \ {Last(S)} \in SUBSET E /\ n \in Nat \ {0} /\ Cardinality(S \ {Last(S)}) = n - 1
  BY <1>3, <1>5, WithoutLast
<1>7. S \ {Last(S)} \in G
  BY <1>2, <1>4, <1>6
<1> QED BY <1>3, <1>5, <1>7

LEMMA BeginningIsExplained ==
  ASSUME NEW c, NEW stored
  PROVE  Explained(c, Beginning(c, stored))
<1> DEFINE b == Beginning(c, stored)
<1>1. Whole(b) /\ b.bonuses = {} /\ b.dismissals = {}
  BY DEF Beginning, Whole, Parts
<1> HIDE DEF b
<1>2. Explained(c, b)
  BY <1>1 DEF Explained
<1> QED BY <1>2 DEF b

LEMMA RunIsExplained ==
  ASSUME NEW c, NEW stored, IsHistory(c.events),
         \A x \in c.events : x[2] # 0 => x[3] \in Entered(c.rows)
  PROVE  Explained(c, Run(c, stored))
<1> DEFINE E == c.events
<1>1. PICK f : Replays(c, stored, f, SUBSET E) /\ Run(c, stored) = f[E]
  BY RunReplays
<1> DEFINE G == {S \in SUBSET E : Explained(c, f[S])}
<1>2. {} \in G
  BY <1>1, BeginningIsExplained DEF Replays
<1>3. ASSUME NEW S \in SUBSET E, S # {}, S \ {Last(S)} \in G PROVE S \in G
  <2>1. Last(S) \in E
    BY <1>3, WithoutLast
  <2>2. Explained(c, ReplayEvent(c, f[S \ {Last(S)}], Last(S)))
    BY <1>3, <2>1, EventFollows DEF Follows
  <2> QED BY <1>1, <1>3, <2>2 DEF Replays
<1>4. SUBSET E \subseteq G
  <2> HIDE DEF G
  <2> QED BY <1>2, <1>3, HistoryInduction
<1> QED BY <1>1, <1>4

(* The events of a ledger are numbered moments, and its results those of rows. *)
LEMMA LedgerIsHistory ==
  ASSUME NEW rows, NEW log, IsLedger(rows, log)
  PROVE  LET c == WithEvents(Context(rows, log)) IN
         /\ IsHistory(c.events)
         /\ \A x \in c.events : x[2] # 0 => x[3] \in Entered(c.rows)
         /\ c.rows = rows /\ c.log = log /\ c.open = Opening(log) /\ c.back = ReturnDay(log)
         /\ c.credits = Credits(log)
<1> DEFINE b == Context(rows, log)
           c == WithEvents(b)
<1>1. c.rows = rows /\ c.log = log /\ c.open = Opening(log) /\ c.back = ReturnDay(log)
      /\ c.credits = Credits(log) /\ c.events = CommandEvents(b) \cup ResultEvents(b)
      /\ b.rows = rows
  BY DEF WithEvents, Context
<1>2. IsHistory(c.events)
  BY ReplayAssumption, EventsAreEvents DEF IsHistory, IsEvent
<1> HIDE DEF c, b
<1>3. \A x \in c.events : x[2] # 0 => x[3] \in Entered(c.rows)
  BY <1>1 DEF CommandEvents, ResultEvents
<1> QED BY <1>1, <1>2, <1>3 DEF c, b

(* The replay reads of the stored student only which bonuses of settled rows it has. *)
LEMMA BeginningReads ==
  ASSUME NEW rows, NEW log, NEW s, NEW t,
         History(rows, log, s.bonuses) = History(rows, log, t.bonuses)
  PROVE  Replayed(rows, log, s) = Replayed(rows, log, t)
<1> DEFINE b == Context(rows, log)
           c == WithEvents(b)
           From(stored) == {d \in stored.bonuses \cap SettledExams(c.rows, c.log) : At(d) <= c.open.at}
           Rec(begin) ==
             LET run[S \in SUBSET c.events] ==
                   IF S = {} THEN begin
                   ELSE LET x == Last(S) IN ReplayEvent(c, run[S \ {x}], x) IN
             run[c.events]
<1>1. \A stored : Run(c, stored) = Rec(Beginning(c, stored))
  BY DEF Run
<1>2. c.rows = rows /\ c.log = log /\ c.open = Opening(log)
  BY DEF WithEvents, Context
<1> HIDE DEF Rec, c
<1>3. \A stored : From(stored) = History(rows, log, stored.bonuses)
  BY <1>2 DEF History
<1>4. Beginning(c, s) = Beginning(c, t)
  BY <1>3 DEF Beginning
<1> QED BY <1>1, <1>4 DEF Replayed, c

LEMMA ReplayedIsExplained ==
  ASSUME NEW rows, NEW log, IsLedger(rows, log), NEW stored
  PROVE  LET a == Replayed(rows, log, stored) IN
         /\ a.bonuses \subseteq Entered(rows) /\ a.bonuses \cap SettledExams(rows, log) = {}
         /\ a.dismissals # {} => a.gone
         /\ \A w \in a.dismissals : w.rule # "hand" /\ w.of \in Entered(rows)
<1> DEFINE c == WithEvents(Context(rows, log))
           a == Run(c, stored)
<1>1. /\ IsHistory(c.events)
      /\ \A x \in c.events : x[2] # 0 => x[3] \in Entered(c.rows)
      /\ c.rows = rows /\ c.open = Opening(log)
  BY LedgerIsHistory
<1> HIDE DEF c
<1>2. Explained(c, a)
  BY <1>1, RunIsExplained
<1>3. Effective(c) \subseteq Entered(rows) /\ Effective(c) \cap SettledExams(rows, log) = {}
  BY <1>1 DEF Effective, Neutral, SettledExams
<1> QED BY <1>1, <1>2, <1>3 DEF Explained, Replayed, c

(* No stored dismissal by the rules is one by hand. *)
NoneByHand(stored) == \A w \in stored.dismissals : w.rule # "hand"

(* The saved student is about the rows that were replayed. *)
Fits(rows, s) ==
  /\ s.bonuses \subseteq Entered(rows)
  /\ \A w \in s.dismissals : w.rule # "hand" /\ w.of \in Entered(rows)
  /\ s.status = "dismissed" => s.progress = 0

LEMMA ReplayFits ==
  ASSUME NEW rows, NEW log, IsLedger(rows, log), NEW stored, NoneByHand(stored)
  PROVE  Fits(rows, Replay(rows, log, stored))
<1> DEFINE a == Replayed(rows, log, stored)
           s == Saved(rows, log, stored, a)
<1>1. /\ a.bonuses \subseteq Entered(rows)
      /\ \A w \in a.dismissals : w.rule # "hand" /\ w.of \in Entered(rows)
  BY ReplayedIsExplained
<1> HIDE DEF a
<1>2. \A es : History(rows, log, es) \subseteq Entered(rows)
  BY DEF History, SettledExams
<1>3. s.bonuses \subseteq Entered(rows)
  BY <1>1, <1>2 DEF Saved
<1>4. \A w \in s.dismissals : w.rule # "hand" /\ w.of \in Entered(rows)
  BY <1>1, <1>2 DEF Saved, NoneByHand
<1>5. s.status = "dismissed" => s.progress = 0
  BY DEF Saved, Progress
<1> HIDE DEF s
<1> QED BY <1>3, <1>4, <1>5 DEF Fits, Replay, s, a

(***************************************************************************)
(* Replaying what a replay saved changes nothing: the bonuses it added are *)
(* not of settled rows, so the next replay begins the same, and a          *)
(* dismissal that stays was not lifted by what stays with it.              *)
(***************************************************************************)
THEOREM ReplayTwice ==
  ASSUME NEW rows, NEW log, IsLedger(rows, log), NEW stored, NoneByHand(stored)
  PROVE  Replay(rows, log, Replay(rows, log, stored)) = Replay(rows, log, stored)
<1> DEFINE a == Replayed(rows, log, stored)
           s == Saved(rows, log, stored, a)
           H(es) == History(rows, log, es)
           kept == {w \in stored.dismissals : w.of \in H(Exams)}
           stays == stored.status = "dismissed" /\ ~a.gone /\ ~SavedByBonus(a, stored)
           again == s.status = "dismissed" /\ ~a.gone /\ ~SavedByBonus(a, s)
<1>1. /\ a.bonuses \cap SettledExams(rows, log) = {}
      /\ a.dismissals # {} => a.gone
  BY ReplayedIsExplained
<1>2. s = [status |-> IF a.gone \/ stays THEN "dismissed" ELSE "active",
           why |-> IF stays THEN stored.why ELSE a.why,
           balance |-> IF a.gone \/ stays THEN 0 ELSE Capped(a.bal),
           progress |-> IF stays THEN 0 ELSE Progress(a),
           bonuses |-> a.bonuses \cup H(stored.bonuses),
           dismissals |-> a.dismissals \cup kept]
  BY DEF Saved
<1>3. Saved(rows, log, s, a) =
          [status |-> IF a.gone \/ again THEN "dismissed" ELSE "active",
           why |-> IF again THEN s.why ELSE a.why,
           balance |-> IF a.gone \/ again THEN 0 ELSE Capped(a.bal),
           progress |-> IF again THEN 0 ELSE Progress(a),
           bonuses |-> a.bonuses \cup H(s.bonuses),
           dismissals |-> a.dismissals \cup {w \in s.dismissals : w.of \in H(Exams)}]
  BY DEF Saved
<1>4. s.status = (IF a.gone \/ stays THEN "dismissed" ELSE "active")
      /\ s.why = (IF stays THEN stored.why ELSE a.why)
      /\ s.bonuses = a.bonuses \cup H(stored.bonuses)
      /\ s.dismissals = a.dismissals \cup kept
  BY <1>2
<1> HIDE DEF s
<1>5. H(s.bonuses) = H(stored.bonuses)
  BY <1>1, <1>4 DEF History
<1>6. Replayed(rows, log, s) = a
  <2> HIDE DEF a, H
  <2>1. History(rows, log, s.bonuses) = History(rows, log, stored.bonuses)
    BY <1>5 DEF H
  <2> QED BY <2>1, BeginningReads DEF a
<1> HIDE DEF a, H
<1>7. again <=> stays
  <2>1. CASE ~stays
    BY <1>4, <2>1
  <2>2. CASE stays
    <3>1. s.dismissals = kept /\ s.why = stored.why /\ s.status = "dismissed"
      BY <1>1, <1>4, <2>2
    <3>2. ~SavedByBonus(a, s)
      BY <2>2, <3>1 DEF SavedByBonus, NoneByHand
    <3> QED BY <2>2, <3>1, <3>2
  <2> QED BY <2>1, <2>2
<1>8. a.dismissals \cup {w \in s.dismissals : w.of \in H(Exams)} = a.dismissals \cup kept
  BY <1>4
<1>9. Saved(rows, log, s, a) = s
  <2> HIDE DEF again, stays, kept
  <2> QED BY <1>2, <1>3, <1>4, <1>5, <1>7, <1>8
<1> QED BY <1>6, <1>9 DEF Replay, s, a

-----------------------------------------------------------------------------
(* A recorded entry is the last command, and the newest of its kind. *)
LEMMA LatestOfMore ==
  ASSUME NEW log \in Seq(Entry), NEW l \in Entry, NEW actions
  PROVE  Latest(Append(log, l), actions) =
           IF l.action \in actions THEN Len(log) + 1 ELSE Latest(log, actions)
<1> DEFINE more == Append(log, l)
           n == Len(log) + 1
           T == {0} \cup {i \in DOMAIN more : more[i].action \in actions}
<1>1. /\ n \in Nat /\ DOMAIN more = 1..n /\ DOMAIN log = 1..(n - 1)
      /\ more[n] = l /\ \A i \in DOMAIN log : more[i] = log[i]
  OBVIOUS
<1> HIDE DEF more, n
<1>2. CASE l.action \notin actions
  <2>1. T = {0} \cup {i \in DOMAIN log : log[i].action \in actions}
    BY <1>1, <1>2
  <2> QED BY <1>2, <2>1 DEF Latest, more
<1>3. CASE l.action \in actions
  <2>1. n \in T /\ \A y \in T : y \in Nat /\ y <= n
    BY <1>1, <1>3
  <2> HIDE DEF T
  <2>2. Greatest(T) \in T /\ \A y \in T : Greatest(T) >= y
    BY <2>1 DEF Greatest
  <2>3. Greatest(T) = n
    BY <2>1, <2>2
  <2> QED BY <1>3, <2>3 DEF Latest, T, more, n
<1> QED BY <1>2, <1>3

(* Once everything entered is settled and no command followed, the replay stays at its *)
(* beginning: the balance the reset or the return opened. *)
LEMMA SettledStays ==
  ASSUME NEW rows, NEW log, IsLedger(rows, log), NEW stored,
         IdsOf(rows) \subseteq Opening(log).settled, Pending(log) = {}
  PROVE  Replayed(rows, log, stored) = Beginning(WithEvents(Context(rows, log)), stored)
<1> DEFINE b == Context(rows, log)
           c == WithEvents(b)
           E == c.events
           begin == Beginning(c, stored)
<1>1. IsHistory(E) /\ c.rows = rows /\ c.open = Opening(log)
  BY LedgerIsHistory
<1>2. E = CommandEvents(b) \cup ResultEvents(b) /\ b.log = log /\ b.rows = rows
  BY DEF WithEvents, Context
<1>3. begin.deferred = {}
  BY DEF Beginning
<1> HIDE DEF b, c
<1>4. \A x \in E : x[2] = 1 /\ x[3] \in Entered(c.rows)
  BY <1>1, <1>2 DEF CommandEvents, ResultEvents
<1> HIDE DEF begin
<1>5. ASSUME NEW x \in E PROVE ReplayEvent(c, begin, x) = begin
  <2>1. Neutral(c, x[3])
    BY <1>1, <1>4 DEF Neutral, IdsOf
  <2>2. ReplayResult(c, begin, x) = begin
    BY <2>1 DEF ReplayResult
  <2> QED BY <1>3, <1>4, <2>2 DEF ReplayEvent, ApplyDeferred
<1>6. PICK f : Replays(c, stored, f, SUBSET E) /\ Run(c, stored) = f[E]
  BY <1>1, RunReplays
<1> DEFINE G == {S \in SUBSET E : f[S] = begin}
<1>7. {} \in G
  BY <1>6 DEF Replays, begin
<1> HIDE DEF E
<1>8. ASSUME NEW S \in SUBSET E, S # {}, S \ {Last(S)} \in G PROVE S \in G
  <2>1. Last(S) \in E
    BY <1>1, <1>8, WithoutLast
  <2> QED BY <1>5, <1>6, <1>8, <2>1 DEF Replays
<1>9. SUBSET E \subseteq G
  <2> HIDE DEF G
  <2> QED BY <1>1, <1>7, <1>8, HistoryInduction
<1> QED BY <1>6, <1>9 DEF Replayed, begin, c, b, E

(* A reset or a return opens a new balance, and nothing is pending after it. *)
LEMMA SettlementOpens ==
  ASSUME NEW log \in Seq(Entry), NEW l \in Entry, l.action \in {"reset", "grant"}
  PROVE  Opening(Append(log, l)) = l /\ Pending(Append(log, l)) = {}
<1> DEFINE n == Len(log) + 1
<1>1. /\ n \in Nat /\ n # 0 /\ DOMAIN Append(log, l) = 1..n /\ Append(log, l)[n] = l
  OBVIOUS
<1>2. Latest(Append(log, l), {"reset", "grant"}) = n
  BY LatestOfMore
<1> HIDE DEF n
<1> QED BY <1>1, <1>2 DEF Opening, Pending

(* A movement leaves what was opened, and is pending itself. *)
LEMMA MovementIsPending ==
  ASSUME NEW log \in Seq(Entry), NEW l \in Entry, l.action \in {"add", "deduct"}
  PROVE  /\ Opening(Append(log, l)) = Opening(log) /\ ReturnDay(Append(log, l)) = ReturnDay(log)
         /\ Pending(Append(log, l)) = Pending(log) \cup {Len(log) + 1}
<1> DEFINE n == Len(log) + 1
           more == Append(log, l)
<1>1. /\ n \in Nat /\ n # 0 /\ DOMAIN more = 1..n /\ DOMAIN log = 1..(n - 1)
      /\ more[n] = l /\ \A i \in DOMAIN log : more[i] = log[i]
  OBVIOUS
<1>2. Latest(more, {"reset", "grant"}) = Latest(log, {"reset", "grant"})
      /\ Latest(more, {"grant"}) = Latest(log, {"grant"})
  BY LatestOfMore
<1>3. Latest(log, {"reset", "grant"}) \in {0} \cup DOMAIN log
      /\ Latest(log, {"grant"}) \in {0} \cup DOMAIN log
  BY LatestIsPlace
<1> HIDE DEF more, n
<1>4. Opening(more) = Opening(log) /\ ReturnDay(more) = ReturnDay(log)
  BY <1>1, <1>2, <1>3 DEF Opening, ReturnDay
<1>5. Pending(more) = Pending(log) \cup {n}
  <2> DEFINE L == Latest(log, {"reset", "grant"})
  <2>1. L \in Nat /\ L < n /\ L = Latest(more, {"reset", "grant"})
    BY <1>1, <1>2, <1>3
  <2> HIDE DEF L
  <2>2. {i \in 1..n : i > L} = {i \in 1..(n - 1) : i > L} \cup {n}
    BY <1>1, <2>1
  <2> QED BY <1>1, <2>1, <2>2 DEF Pending, L
<1> QED BY <1>4, <1>5 DEF more, n

(* What a return leaves is its own replay: the settled history is kept whole. *)
LEMMA SettledIsReplay ==
  ASSUME NEW rows, NEW log, IsLedger(rows, log), IdsOf(rows) = Opening(log).settled,
         Pending(log) = {}, NEW s \in Student, Fits(rows, s),
         s.status = "active", s.why = NoWhy, s.progress = 0,
         s.balance = Opening(log).after, s.balance <= Cap,
         \A e \in Entered(rows) : At(e) <= Opening(log).at
  PROVE  Replay(rows, log, s) = s
<1> DEFINE c == WithEvents(Context(rows, log))
           a == Replayed(rows, log, s)
<1>1. c.open = Opening(log)
  BY LedgerIsHistory
<1> HIDE DEF c
<1>2. a = Beginning(c, s)
  BY SettledStays DEF c
<1>3. a.gone = FALSE /\ a.why = NoWhy /\ a.bal = Capped(Opening(log).after) /\ a.bonuses = {}
      /\ a.dismissals = {} /\ a.waiting = FALSE /\ a.first = 0
  BY <1>1, <1>2 DEF Beginning
<1> HIDE DEF a
<1>4. Progress(a) = 0
  BY <1>3 DEF Progress
<1>5. s.balance \in Nat /\ Cap \in Nat /\ Capped(a.bal) = s.balance
  BY <1>3, ReplayAssumption DEF Capped, Smaller, Student
<1>6. s.bonuses \subseteq Exams
  BY DEF Student
<1>7. \A es \in SUBSET Exams : History(rows, log, es) = es \cap Entered(rows)
  BY DEF History, SettledExams, IdsOf
<1>8. History(rows, log, s.bonuses) = s.bonuses
      /\ \A w \in s.dismissals : w.of \in History(rows, log, Exams)
  BY <1>6, <1>7 DEF Fits, Entered
<1>9. Saved(rows, log, s, a) =
        [status |-> "active", why |-> NoWhy, balance |-> s.balance, progress |-> 0,
         bonuses |-> s.bonuses, dismissals |-> s.dismissals]
  BY <1>3, <1>4, <1>5, <1>8 DEF Saved
<1>10. s = [status |-> s.status, why |-> s.why, balance |-> s.balance, progress |-> s.progress,
            bonuses |-> s.bonuses, dismissals |-> s.dismissals]
  BY DEF Student
<1> QED BY <1>9, <1>10 DEF Replay, a

-----------------------------------------------------------------------------
(***************************************************************************)
(* What the replay of a result reads of its context.  Two contexts that    *)
(* agree on it replay every result alike.                                  *)
(***************************************************************************)
Results(c) == {y \in c.events : y[2] = 1}

Alike(c, d) ==
  /\ c.back = d.back /\ Results(c) = Results(d) /\ Entered(c.rows) = Entered(d.rows)
  /\ \A e \in Entered(c.rows) :
       /\ c.rows[e].res = d.rows[e].res
       /\ Neutral(c, e) <=> Neutral(d, e)
       /\ c.rows[e].res \in Losses => LaterCredit(c, e) = LaterCredit(d, e)

LEMMA AlikeWaits ==
  ASSUME NEW c, NEW d, Alike(c, d), NEW x,
         \A y \in c.events : y[2] = 1 => y[3] \in Entered(c.rows)
  PROVE  BreakWaitsFor(c, x) = BreakWaitsFor(d, x)
<1>1. \A k : LatePasses(k, x) =
             {y \in Results(k) :
                /\ y[3] < x[3] /\ DayOf[y[3]] = DayOf[x[3]]
                /\ k.rows[y[3]].res = "pass" /\ KeepsPlace(k, y[3]) /\ Before(x, y)}
  BY DEF LatePasses, Results
<1>2. \A y \in Results(c) : y[3] \in Entered(c.rows)
  BY DEF Results
<1>3. LatePasses(c, x) = LatePasses(d, x)
  BY <1>1, <1>2 DEF Alike, KeepsPlace
<1> QED BY <1>3 DEF BreakWaitsFor

LEMMA AlikeLoss ==
  ASSUME NEW c, NEW d, NEW a, NEW x,
         LaterCredit(c, x[3]) = LaterCredit(d, x[3]), BreakWaitsFor(c, x) = BreakWaitsFor(d, x)
  PROVE  Lose(c, a, x) = Lose(d, a, x)
<1> DEFINE e == x[3]
<1>1. \A b : BreakStreak(c, b, x) = BreakStreak(d, b, x)
  BY DEF BreakStreak
<1>2. \A b : Omitted(c, b, e) <=> Omitted(d, b, e)
  BY DEF Omitted
<1>3. \A b : Introduced(c, b, e) <=> Introduced(d, b, e)
  BY <1>2 DEF Introduced
<1>4. Knowing(c, a, e) = Knowing(d, a, e)
  BY DEF Knowing
<1>5. ASSUME NEW b PROVE LoseKnowing(c, b, x) = LoseKnowing(d, b, x)
  <2> DEFINE p == PenaltyOf[e]
             Known(k) == IF b.gone \/ b.late = 0 \/ Omitted(k, b, e) THEN b.known ELSE Less(b.known, p)
             Saves(k) == IF b.shadow = 0 /\ b.bal > 0 /\ ~Introduced(k, b, e)
                         THEN b.saved \cup {e} ELSE b.saved
             Lost(known, saved) == [b EXCEPT !.bal = Less(@, p), !.shadow = Less(@, p),
                                             !.known = known, !.saved = saved]
  <2>1. Known(c) = Known(d) /\ Saves(c) = Saves(d)
    BY <1>2, <1>3
  <2>2. \A k \in {c, d} : LoseKnowing(k, b, x) =
          DismissIf(b.bal = 0 /\ ~Introduced(k, b, e),
                    BreakStreak(k, Lost(Known(k), Saves(k)), x), e)
    BY DEF LoseKnowing
  <2> HIDE DEF Known, Saves, Lost, p
  <2>3. BreakStreak(c, Lost(Known(c), Saves(c)), x) = BreakStreak(d, Lost(Known(d), Saves(d)), x)
    BY <1>1, <2>1
  <2> QED BY <1>3, <2>2, <2>3 DEF DismissIf
<1> QED BY <1>4, <1>5 DEF Lose

LEMMA AlikeResult ==
  ASSUME NEW c, NEW d, Alike(c, d), NEW x, x[2] # 0, x[3] \in Entered(c.rows),
         \A y \in c.events : y[2] = 1 => y[3] \in Entered(c.rows), NEW a
  PROVE  ReplayEvent(c, a, x) = ReplayEvent(d, a, x)
<1> DEFINE e == x[3]
<1>1. /\ c.rows[e].res = d.rows[e].res /\ (Neutral(c, e) <=> Neutral(d, e))
      /\ c.rows[e].res \in Losses => LaterCredit(c, e) = LaterCredit(d, e)
  BY DEF Alike
<1>2. BreakWaitsFor(c, x) = BreakWaitsFor(d, x)
  BY AlikeWaits
<1>3. c.rows[e].res \in Losses => Lose(c, a, x) = Lose(d, a, x)
  BY <1>1, <1>2, AlikeLoss
<1>4. BreakStreak(c, a, x) = BreakStreak(d, a, x)
  BY <1>2 DEF BreakStreak
<1>5. \A p, q : Missing(c, p, q) <=> Missing(d, p, q)
  BY DEF Missing, Alike
<1>6. CountPass(c, a, e) = CountPass(d, a, e)
  BY <1>5 DEF CountPass
<1>7. ReplayResult(c, a, x) = ReplayResult(d, a, x)
  BY <1>1, <1>3, <1>4, <1>6 DEF ReplayResult
<1> QED BY <1>7 DEF ReplayEvent

(* Of a command the replay reads its log. *)
LEMMA AlikeCommand ==
  ASSUME NEW c, NEW d, c.log = d.log, NEW x, x[2] = 0, NEW a
  PROVE  ReplayEvent(c, a, x) = ReplayEvent(d, a, x)
<1>1. DeductEntry(c, a, x[3]) = DeductEntry(d, a, x[3])
  BY DEF DeductEntry
<1> QED BY <1>1 DEF ReplayEvent, ReplayCommand

LEMMA AlikeRuns ==
  ASSUME NEW c, NEW d, Alike(c, d), c.log = d.log, c.events = d.events, IsHistory(c.events),
         \A x \in c.events : x[2] # 0 => x[3] \in Entered(c.rows),
         NEW s, NEW t, Beginning(c, s) = Beginning(d, t)
  PROVE  Run(c, s) = Run(d, t)
<1> DEFINE E == c.events
<1>0. d.events = E /\ \A y \in E : y[2] = 1 => y[3] \in Entered(c.rows)
  OBVIOUS
<1>1. PICK f : Replays(c, s, f, SUBSET E) /\ Run(c, s) = f[E]
  BY RunReplays
<1>2. PICK g : Replays(d, t, g, SUBSET E) /\ Run(d, t) = g[E]
  BY <1>0, RunReplays
<1> DEFINE G == {S \in SUBSET E : f[S] = g[S]}
<1>3. {} \in G
  BY <1>1, <1>2 DEF Replays
<1>4. ASSUME NEW S \in SUBSET E, S # {}, S \ {Last(S)} \in G PROVE S \in G
  <2>1. Last(S) \in E
    BY <1>4, WithoutLast
  <2>2. ReplayEvent(c, f[S \ {Last(S)}], Last(S)) = ReplayEvent(d, f[S \ {Last(S)}], Last(S))
    <3>1. CASE Last(S)[2] = 0
      BY <3>1, AlikeCommand
    <3>2. CASE Last(S)[2] # 0
      BY <1>0, <2>1, <3>2, AlikeResult
    <3> QED BY <3>1, <3>2
  <2> QED BY <1>1, <1>2, <1>4, <2>2 DEF Replays
<1>5. SUBSET E \subseteq G
  <2> HIDE DEF G
  <2> QED BY <1>3, <1>4, HistoryInduction
<1> QED BY <1>1, <1>2, <1>5

(* The replay of a ledger does not read when a result that takes no opportunity was *)
(* entered, as long as no reset or return settled it. *)
LEMMA EntryIsNotRead ==
  ASSUME NEW rows, NEW log, IsLedger(rows, log), NEW e \in Entered(rows),
         rows[e].res \in {"pass", "weak"}, <<e, rows[e].at>> \notin Opening(log).settled,
         NEW at \in Nat, <<e, at>> \notin Opening(log).settled, NEW s
  PROVE  Replay([rows EXCEPT ![e].at = at], log, s) = Replay(rows, log, s)
<1> DEFINE moved == [rows EXCEPT ![e].at = at]
           b == Context(rows, log)
           m == Context(moved, log)
           c == WithEvents(b)
           d == WithEvents(m)
<1>1. /\ moved \in [Exams -> Row] /\ moved[e].res = rows[e].res /\ moved[e].excl = rows[e].excl
      /\ moved[e].at = at /\ \A f \in Exams \ {e} : moved[f] = rows[f]
  BY DEF IsLedger, Row, Entered
<1> HIDE DEF moved
<1>2. Entered(moved) = Entered(rows) /\ Entered(rows) \subseteq Exams
  BY <1>1 DEF Entered
<1>3. IsLedger(moved, log)
  BY <1>1 DEF IsLedger
<1>4. /\ b.rows = rows /\ b.log = log /\ b.open = Opening(log) /\ b.back = ReturnDay(log)
      /\ b.credits = Credits(log)
      /\ m.rows = moved /\ m.log = log /\ m.open = Opening(log) /\ m.back = ReturnDay(log)
      /\ m.credits = Credits(log)
  BY DEF Context
<1>5. /\ c.rows = rows /\ c.log = log /\ c.open = Opening(log) /\ c.back = ReturnDay(log)
      /\ c.credits = Credits(log) /\ IsHistory(c.events)
      /\ \A x \in c.events : x[2] # 0 => x[3] \in Entered(c.rows)
  BY LedgerIsHistory
<1>6. /\ d.rows = moved /\ d.log = log /\ d.open = Opening(log) /\ d.back = ReturnDay(log)
      /\ d.credits = Credits(log)
  BY <1>3, LedgerIsHistory
<1>7. /\ c.events = CommandEvents(b) \cup ResultEvents(b)
      /\ d.events = CommandEvents(m) \cup ResultEvents(m)
  BY DEF WithEvents, Context
<1> HIDE DEF b, m, c, d
<1>8. \A f \in Entered(rows) :
        /\ moved[f].res = rows[f].res
        /\ Neutral(b, f) <=> Neutral(m, f)
        /\ Neutral(c, f) <=> Neutral(d, f)
        /\ KeepsPlace(b, f) <=> KeepsPlace(m, f)
  BY <1>1, <1>2, <1>4, <1>5, <1>6 DEF Neutral, KeepsPlace
<1>9. KeepsPlace(b, e) /\ KeepsPlace(m, e)
  BY <1>1, <1>4 DEF KeepsPlace
<1>10. \A f \in Entered(rows) : OwnTime(b, f) = OwnTime(m, f)
  <2>1. OwnTime(b, e) = OwnTime(m, e)
    BY <1>9 DEF OwnTime
  <2>2. ASSUME NEW f \in Entered(rows), f # e PROVE OwnTime(b, f) = OwnTime(m, f)
    <3>1. f \in Exams \ {e}
      BY <1>2, <2>2
    <3>2. moved[f] = rows[f]
      BY <1>1, <3>1
    <3>3. m.rows[f] = b.rows[f] /\ b.credits = m.credits
      BY <1>4, <3>2
    <3>4. KeepsPlace(b, f) <=> KeepsPlace(m, f)
      BY <1>8
    <3> QED BY <3>3, <3>4 DEF OwnTime
  <2> QED BY <2>1, <2>2
<1>11. \A f \in Entered(rows) : LedgerTime(b, f) = LedgerTime(m, f)
  <2>1. ASSUME NEW f \in Entered(rows) PROVE LedgerTime(b, f) = LedgerTime(m, f)
    <3> DEFINE Of(k) == {OwnTime(k, g) : g \in {h \in Entered(k.rows) : h <= f /\ DayOf[h] = DayOf[f]}}
    <3>1. Of(b) = Of(m)
      BY <1>2, <1>4, <1>10
    <3>2. \A k : LedgerTime(k, f) = IF KeepsPlace(k, f) THEN Greatest(Of(k)) ELSE OwnTime(k, f)
      BY DEF LedgerTime
    <3> HIDE DEF Of
    <3>3. OwnTime(b, f) = OwnTime(m, f) /\ (KeepsPlace(b, f) <=> KeepsPlace(m, f))
      BY <1>8, <1>10
    <3>4. CASE KeepsPlace(b, f)
      BY <3>1, <3>2, <3>3, <3>4
    <3>5. CASE ~KeepsPlace(b, f)
      BY <3>2, <3>3, <3>5
    <3> QED BY <3>4, <3>5
  <2> QED BY <2>1
<1>12. c.events = d.events
  <2>1. CommandEvents(b) = CommandEvents(m)
    BY <1>4 DEF CommandEvents
  <2>2. ResultEvents(b) = ResultEvents(m)
    BY <1>2, <1>4, <1>11 DEF ResultEvents
  <2> QED BY <1>7, <2>1, <2>2
<1>13. \A f \in Entered(rows) : rows[f].res \in Losses => LaterCredit(c, f) = LaterCredit(d, f)
  <2>1. \A f \in Entered(rows) : rows[f].res \in Losses => c.rows[f] = d.rows[f]
    BY <1>1, <1>2, <1>5, <1>6 DEF Losses
  <2> QED BY <1>5, <1>6, <2>1 DEF LaterCredit
<1>14. Alike(c, d)
  <2>1. c.log = d.log /\ c.back = d.back /\ Entered(c.rows) = Entered(d.rows)
    BY <1>2, <1>5, <1>6
  <2>2. ASSUME NEW f \in Entered(c.rows)
        PROVE  /\ c.rows[f].res = d.rows[f].res
               /\ Neutral(c, f) <=> Neutral(d, f)
               /\ c.rows[f].res \in Losses => LaterCredit(c, f) = LaterCredit(d, f)
    <3>1. f \in Entered(rows)
      BY <1>5
    <3>2. c.rows[f].res = d.rows[f].res
      BY <1>5, <1>6, <1>8, <3>1
    <3>3. Neutral(c, f) <=> Neutral(d, f)
      BY <1>8, <3>1
    <3>4. c.rows[f].res \in Losses => LaterCredit(c, f) = LaterCredit(d, f)
      BY <1>5, <1>13, <3>1
    <3> QED BY <3>2, <3>3, <3>4
  <2>3. Results(c) = Results(d)
    BY <1>12 DEF Results
  <2> QED BY <2>1, <2>2, <2>3 DEF Alike
<1>15. SettledExams(moved, log) = SettledExams(rows, log)
  BY <1>1, <1>2 DEF SettledExams
<1>16. Beginning(c, s) = Beginning(d, s)
  BY <1>5, <1>6, <1>15 DEF Beginning
<1>17. Replayed(rows, log, s) = Replayed(moved, log, s)
  <2>1. Run(c, s) = Run(d, s)
    BY <1>5, <1>6, <1>12, <1>14, <1>16, AlikeRuns
  <2> QED BY <2>1 DEF Replayed, c, d, b, m
<1>18. \A es : History(moved, log, es) = History(rows, log, es)
  BY <1>15 DEF History
<1>19. ASSUME NEW a PROVE Saved(moved, log, s, a) = Saved(rows, log, s, a)
  <2>1. History(moved, log, Exams) = History(rows, log, Exams)
        /\ History(moved, log, s.bonuses) = History(rows, log, s.bonuses)
    BY <1>18
  <2> QED BY <2>1 DEF Saved
<1> QED BY <1>17, <1>19 DEF Replay, moved

-----------------------------------------------------------------------------
(***************************************************************************)
(* What one more command changes                                           *)
(***************************************************************************)
(* Equal but for the places where a bonus prevented a dismissal. *)
Twin(a, b) == Whole(a) /\ Whole(b) /\ \A p \in Parts \ {"saved"} : a[p] = b[p]

LEMMA TwinParts ==
  ASSUME NEW a, NEW b
  PROVE  Twin(a, b) <=>
           /\ Whole(a) /\ Whole(b)
           /\ a.bal = b.bal /\ a.shadow = b.shadow /\ a.hold = b.hold /\ a.gone = b.gone
           /\ a.why = b.why /\ a.priority = b.priority /\ a.cheats = b.cheats /\ a.late = b.late
           /\ a.known = b.known /\ a.bonuses = b.bonuses /\ a.dismissals = b.dismissals
           /\ a.count = b.count /\ a.first = b.first /\ a.waiting = b.waiting
           /\ a.deferred = b.deferred /\ a.last = b.last
BY DEF Twin, Parts

LEMMA TwinDismiss ==
  ASSUME NEW a, NEW b, Twin(a, b), NEW priority, NEW why
  PROVE  Twin(Dismiss(a, priority, why), Dismiss(b, priority, why))
<1>1. ASSUME NEW x, NEW y, Twin(x, y)
      PROVE  Twin([x EXCEPT !.late = 0, !.gone = TRUE], [y EXCEPT !.late = 0, !.gone = TRUE])
  BY <1>1 DEF Twin, Whole, Parts
<1>2. ASSUME NEW x, NEW y, Twin(x, y)
      PROVE  Twin([x EXCEPT !.priority = priority, !.why = why],
                  [y EXCEPT !.priority = priority, !.why = why])
  BY <1>2 DEF Twin, Whole, Parts
<1>3. a.priority = b.priority
  BY TwinParts
<1> QED BY <1>1, <1>2, <1>3 DEF Dismiss

LEMMA TwinDismissAt ==
  ASSUME NEW a, NEW b, Twin(a, b), NEW priority, NEW rule, NEW e
  PROVE  Twin(DismissAt(a, priority, rule, e), DismissAt(b, priority, rule, e))
<1>1. ASSUME NEW x, NEW y, Twin(x, y), NEW why
      PROVE  Twin([x EXCEPT !.bal = 0, !.dismissals = @ \cup {why}],
                  [y EXCEPT !.bal = 0, !.dismissals = @ \cup {why}])
  BY <1>1 DEF Twin, Whole, Parts
<1> QED BY <1>1, TwinDismiss DEF DismissAt

LEMMA TwinResetStreak ==
  ASSUME NEW a, NEW b, Twin(a, b), NEW e
  PROVE  Twin(ResetStreak(a, e), ResetStreak(b, e))
BY DEF ResetStreak, Twin, Whole, Parts

LEMMA TwinBreakStreak ==
  ASSUME NEW c, NEW a, NEW b, Twin(a, b), NEW x
  PROVE  Twin(BreakStreak(c, a, x), BreakStreak(c, b, x))
<1>1. ASSUME NEW d
      PROVE  Twin([a EXCEPT !.deferred = @ \cup {d}], [b EXCEPT !.deferred = @ \cup {d}])
  BY DEF Twin, Whole, Parts
<1> QED BY <1>1, TwinResetStreak DEF BreakStreak, BreakOrDefer

LEMMA TwinApplyDeferred ==
  ASSUME NEW a, NEW b, Twin(a, b), NEW f
  PROVE  Twin(ApplyDeferred(a, f), ApplyDeferred(b, f))
<1>1. ASSUME NEW due
      PROVE  Twin([a EXCEPT !.deferred = @ \ due], [b EXCEPT !.deferred = @ \ due])
  BY DEF Twin, Whole, Parts
<1>2. a.deferred = b.deferred
  BY TwinParts
<1> QED BY <1>1, <1>2, TwinResetStreak DEF ApplyDeferred

LEMMA TwinCountPass ==
  ASSUME NEW c, NEW a, NEW b, Twin(a, b), NEW e
  PROVE  Twin(CountPass(c, a, e), CountPass(c, b, e))
<1>1. Twin([a EXCEPT !.first = e, !.last = e], [b EXCEPT !.first = e, !.last = e])
  BY DEF Twin, Whole, Parts
<1>2. Twin([a EXCEPT !.first = e, !.last = e, !.waiting = TRUE],
           [b EXCEPT !.first = e, !.last = e, !.waiting = TRUE])
  BY DEF Twin, Whole, Parts
<1>3. Twin([a EXCEPT !.bal = Capped(@ + 1), !.known = Capped(@ + 1), !.count = @ + 1,
                     !.bonuses = @ \cup {e}],
           [b EXCEPT !.bal = Capped(@ + 1), !.known = Capped(@ + 1), !.count = @ + 1,
                     !.bonuses = @ \cup {e}])
  BY DEF Twin, Whole, Parts
<1>4. /\ a.gone = b.gone /\ a.last = b.last /\ a.first = b.first
      /\ a.count = b.count /\ a.bal = b.bal /\ a.hold = b.hold
  BY TwinParts
<1>5. Full(a) <=> Full(b)
  BY <1>4 DEF Full
<1> QED BY <1>1, <1>2, <1>3, <1>4, <1>5, TwinResetStreak DEF CountPass

LEMMA TwinLose ==
  ASSUME NEW c, NEW a, NEW b, Twin(a, b), NEW x
  PROVE  Twin(Lose(c, a, x), Lose(c, b, x))
<1> DEFINE e == x[3]
           p == PenaltyOf[e]
<1>1. ASSUME NEW s, NEW t, Twin(s, t)
      PROVE  /\ Omitted(c, s, e) <=> Omitted(c, t, e)
             /\ Introduced(c, s, e) <=> Introduced(c, t, e)
             /\ s.gone = t.gone /\ s.late = t.late /\ s.bal = t.bal /\ s.known = t.known
  <2>1. s.gone = t.gone /\ s.late = t.late /\ s.bal = t.bal /\ s.known = t.known
    BY <1>1, TwinParts
  <2> QED BY <2>1 DEF Omitted, Introduced
<1>2. ASSUME NEW s, NEW t, Twin(s, t), NEW known, NEW u, NEW v
      PROVE  Twin([s EXCEPT !.bal = Less(@, p), !.shadow = Less(@, p), !.known = known, !.saved = u],
                  [t EXCEPT !.bal = Less(@, p), !.shadow = Less(@, p), !.known = known, !.saved = v])
  BY <1>2 DEF Twin, Whole, Parts
<1>3. ASSUME NEW credit, NEW known
      PROVE  Twin([a EXCEPT !.late = credit, !.known = known],
                  [b EXCEPT !.late = credit, !.known = known])
  BY DEF Twin, Whole, Parts
<1>4. Twin(Knowing(c, a, e), Knowing(c, b, e))
  BY <1>1, <1>3 DEF Knowing
<1>5. ASSUME NEW s, NEW t, Twin(s, t)
      PROVE  Twin(LoseKnowing(c, s, x), LoseKnowing(c, t, x))
  <2> DEFINE Known(k) == IF k.gone \/ k.late = 0 \/ Omitted(c, k, e) THEN k.known ELSE Less(k.known, p)
             Saves(k) == IF k.shadow = 0 /\ k.bal > 0 /\ ~Introduced(c, k, e)
                         THEN k.saved \cup {e} ELSE k.saved
             Lost(k) == [k EXCEPT !.bal = Less(@, p), !.shadow = Less(@, p),
                                  !.known = Known(k), !.saved = Saves(k)]
  <2>1. Known(s) = Known(t)
    BY <1>1, <1>5
  <2>2. \A k : LoseKnowing(c, k, x) =
          DismissIf(k.bal = 0 /\ ~Introduced(c, k, e), BreakStreak(c, Lost(k), x), e)
    BY DEF LoseKnowing
  <2> HIDE DEF Known, Saves, p
  <2>3. Twin(Lost(s), Lost(t))
    BY <1>2, <1>5, <2>1
  <2> HIDE DEF Lost
  <2>4. Twin(BreakStreak(c, Lost(s), x), BreakStreak(c, Lost(t), x))
    BY <2>3, TwinBreakStreak
  <2>5. s.bal = t.bal /\ (Introduced(c, s, e) <=> Introduced(c, t, e))
    BY <1>1, <1>5
  <2> QED BY <2>2, <2>4, <2>5, TwinDismissAt DEF DismissIf
<1> QED BY <1>4, <1>5 DEF Lose

LEMMA TwinCheat ==
  ASSUME NEW a, NEW b, Twin(a, b), NEW e
  PROVE  Twin(Cheat(a, e), Cheat(b, e))
<1>1. Twin([a EXCEPT !.cheats = 1], [b EXCEPT !.cheats = 1])
  BY DEF Twin, Whole, Parts
<1>2. Twin([a EXCEPT !.cheats = @ + 1], [b EXCEPT !.cheats = @ + 1])
  BY DEF Twin, Whole, Parts
<1>3. a.cheats = b.cheats
  BY TwinParts
<1> QED BY <1>1, <1>2, <1>3, TwinDismissAt DEF Cheat

(* No result reads them. *)
LEMMA TwinResult ==
  ASSUME NEW c, NEW a, NEW b, Twin(a, b), NEW x, x[2] # 0
  PROVE  Twin(ReplayEvent(c, a, x), ReplayEvent(c, b, x))
<1>1. Twin(ReplayResult(c, a, x), ReplayResult(c, b, x))
  BY TwinCheat, TwinDismissAt, TwinLose, TwinCountPass, TwinBreakStreak DEF ReplayResult
<1> QED BY <1>1, TwinApplyDeferred DEF ReplayEvent

LEMMA TwinAdd ==
  ASSUME NEW a, NEW b, Twin(a, b), NEW l
  PROVE  Twin(AddEntry(a, l), AddEntry(b, l))
<1> DEFINE Bal(k) == Capped(k.bal + l.applied)
           Back(k) == IF l.undoes # 0 THEN Bal(k) - k.bal ELSE 0
           Raised(k) == [k EXCEPT !.bal = Bal(k), !.shadow = Capped(@ + l.applied),
                                  !.late = IF l.applied > 0 THEN 0 ELSE @, !.hold = Less(@, Back(k))]
<1>1. a.bal = b.bal
  BY TwinParts
<1>2. Bal(a) = Bal(b) /\ Back(a) = Back(b)
  BY <1>1
<1>3. \A k : AddEntry(k, l) = ClampHold(Raised(k))
  BY DEF AddEntry
<1> HIDE DEF Bal, Back
<1>4. Twin(Raised(a), Raised(b))
  BY <1>2 DEF Twin, Whole, Parts
<1> HIDE DEF Raised
<1>5. ASSUME NEW s, NEW t, Twin(s, t) PROVE Twin(ClampHold(s), ClampHold(t))
  BY <1>5 DEF ClampHold, Twin, Whole, Parts
<1> QED BY <1>3, <1>4, <1>5

(* Unless it dismissed, a deduction does the same once it is undone. *)
LEMMA TwinDeduct ==
  ASSUME NEW c, NEW d, NEW a, NEW b, Twin(a, b), NEW i, c.log[i] = d.log[i],
         Undone(c.log) \subseteq Undone(d.log), ~DeductEntry(c, a, i).gone
  PROVE  Twin(DeductEntry(c, a, i), DeductEntry(d, b, i))
<1> DEFINE Dismisses(k, l, s) ==
             i \notin Undone(k.log) /\ (l.violation \/ (l.applied > 0 /\ s.bal = 0))
           Taken(l, s) == [s EXCEPT !.bal = Less(@, l.applied), !.shadow = Less(@, l.applied),
                             !.known = Less(@, l.applied),
                             !.hold = IF l.undoes # 0 THEN @ ELSE @ + Smaller(s.bal, l.applied)]
           Marked(k, l, s, t) ==
             [t EXCEPT !.saved = IF i \notin Undone(k.log) /\ l.applied > 0 /\ s.shadow = 0
                                 THEN @ \cup {0} ELSE @]
           By == [rule |-> "hand", of |-> i]
           l == c.log[i]
<1>1. \A k, s : DeductEntry(k, s, i) =
                 IF Dismisses(k, k.log[i], s) THEN Dismiss(Taken(k.log[i], s), 60, By)
                 ELSE Marked(k, k.log[i], s, Taken(k.log[i], s))
  BY DEF DeductEntry
<1>2. a.bal = b.bal
  BY TwinParts
<1>3. Twin(Taken(l, a), Taken(l, b))
  BY <1>2 DEF Twin, Whole, Parts
<1>4. Dismisses(d, l, b) => Dismisses(c, l, a)
  BY <1>2
<1>5. ASSUME NEW s, NEW t, Twin(s, t), NEW u, NEW v
      PROVE  Twin([s EXCEPT !.saved = u], [t EXCEPT !.saved = v])
  BY <1>5 DEF Twin, Whole, Parts
<1>6. ASSUME NEW s, NEW t, Twin(s, t)
      PROVE  Twin(Marked(c, l, a, s), Marked(d, l, b, t))
  BY <1>5, <1>6
<1> HIDE DEF Dismisses, Taken, Marked, l
<1>7. Dismiss(Taken(l, a), 60, By).gone
  BY <1>3 DEF Dismiss, Twin, Whole, Parts
<1>8. /\ DeductEntry(c, a, i) = IF Dismisses(c, l, a) THEN Dismiss(Taken(l, a), 60, By)
                               ELSE Marked(c, l, a, Taken(l, a))
      /\ DeductEntry(d, b, i) = IF Dismisses(d, l, b) THEN Dismiss(Taken(l, b), 60, By)
                               ELSE Marked(d, l, b, Taken(l, b))
  BY <1>1 DEF l
<1>9. ~Dismisses(c, l, a) /\ ~Dismisses(d, l, b)
  BY <1>4, <1>7, <1>8
<1> QED BY <1>3, <1>6, <1>8, <1>9

(* One command after all the events is replayed over what they left. *)
OneMore(c, d, new) ==
  /\ Alike(c, d) /\ Undone(c.log) \subseteq Undone(d.log)
  /\ new[2] = 0 /\ IsHistory(d.events) /\ d.events = c.events \cup {new}
  /\ \A x \in c.events :
       /\ Before(x, new) /\ ~Before(new, x) /\ x # new
       /\ x[2] # 0 => x[3] \in Entered(c.rows)
       /\ x[2] = 0 => c.log[x[3]] = d.log[x[3]]

LEMMA OneCommandMore ==
  ASSUME NEW c, NEW d, NEW new, OneMore(c, d, new),
         NEW s, Beginning(c, s) = Beginning(d, s), ~Run(c, s).gone
  PROVE  \E b : Twin(Run(c, s), b) /\ Run(d, s) = ReplayEvent(d, b, new)
<1> USE DEF OneMore
<1> DEFINE E == c.events
           D == d.events
<1>1. IsHistory(E) /\ \A y \in E : y[2] = 1 => y[3] \in Entered(c.rows)
  BY FS_Subset DEF IsHistory
<1>2. PICK f : Replays(c, s, f, SUBSET E) /\ Run(c, s) = f[E]
  BY <1>1, RunReplays
<1>3. PICK g : Replays(d, s, g, SUBSET D) /\ Run(d, s) = g[D]
  BY RunReplays
<1> DEFINE G == {S \in SUBSET E : Explained(c, f[S]) /\ (~f[S].gone => Twin(f[S], g[S]))}
<1>4. {} \in G
  <2>1. f[{}] = Beginning(c, s) /\ g[{}] = Beginning(c, s)
    BY <1>2, <1>3 DEF Replays
  <2>2. Explained(c, Beginning(c, s))
    BY BeginningIsExplained
  <2> HIDE DEF E
  <2> QED BY <2>1, <2>2 DEF Twin, Explained
<1>5. ASSUME NEW S \in SUBSET E, S # {}, S \ {Last(S)} \in G PROVE S \in G
  <2> DEFINE x == Last(S)
             a == f[S \ {x}]
             b == g[S \ {x}]
  <2>1. x \in E
    BY <1>1, <1>5, WithoutLast
  <2>2. f[S] = ReplayEvent(c, a, x) /\ g[S] = ReplayEvent(d, b, x)
    BY <1>2, <1>3, <1>5 DEF Replays
  <2>3. Explained(c, a) /\ (~a.gone => Twin(a, b))
    BY <1>5
  <2> HIDE DEF x, a, b
  <2>4. Follows(c, a, f[S])
    BY <2>1, <2>2, <2>3, EventFollows
  <2>5. ASSUME ~f[S].gone PROVE Twin(f[S], g[S])
    <3>1. Twin(a, b)
      BY <2>3, <2>4, <2>5 DEF Follows
    <3>2. CASE x[2] # 0
      <4>1. ReplayEvent(c, b, x) = ReplayEvent(d, b, x)
        BY <1>1, <2>1, <3>2, AlikeResult
      <4> QED BY <2>2, <3>1, <3>2, <4>1, TwinResult
    <3>3. CASE x[2] = 0
      <4>1. c.log[x[3]] = d.log[x[3]]
        BY <2>1, <3>3
      <4>2. f[S] = ReplayCommand(c, a, x[3]) /\ g[S] = ReplayCommand(d, b, x[3])
        BY <2>2, <3>3 DEF ReplayEvent
      <4>3. CASE c.log[x[3]].action = "add"
        <5>1. f[S] = AddEntry(a, c.log[x[3]]) /\ g[S] = AddEntry(b, c.log[x[3]])
          BY <4>1, <4>2, <4>3 DEF ReplayCommand
        <5> QED BY <3>1, <5>1, TwinAdd
      <4>4. CASE c.log[x[3]].action # "add"
        <5>1. f[S] = DeductEntry(c, a, x[3]) /\ g[S] = DeductEntry(d, b, x[3])
          BY <4>1, <4>2, <4>4 DEF ReplayCommand
        <5>2. ~DeductEntry(c, a, x[3]).gone
          BY <2>5, <5>1
        <5> DEFINE i == x[3]
        <5>3. c.log[i] = d.log[i] /\ ~DeductEntry(c, a, i).gone
          BY <4>1, <5>2
        <5> HIDE DEF i
        <5>4. Twin(DeductEntry(c, a, i), DeductEntry(d, b, i))
          BY <3>1, <5>3, TwinDeduct
        <5> QED BY <5>1, <5>4 DEF i
      <4> QED BY <4>3, <4>4
    <3> QED BY <3>2, <3>3
  <2> QED BY <2>4, <2>5 DEF Follows
<1>6. SUBSET E \subseteq G
  <2> HIDE DEF G
  <2> QED BY <1>1, <1>4, <1>5, HistoryInduction
<1>7. Twin(f[E], g[E])
  BY <1>2, <1>6
<1>8. Last(D) = new /\ D \ {new} = E /\ D # {}
  <2>1. \A y \in D \ {new} : Before(y, new)
    OBVIOUS
  <2>2. \A y \in D : (\A z \in D \ {y} : Before(z, y)) => y = new
    OBVIOUS
  <2>3. new \in D /\ D \ {new} = E /\ D # {}
    OBVIOUS
  <2> HIDE DEF D, E
  <2> QED BY <2>1, <2>2, <2>3 DEF Last
<1>9. g[D] = ReplayEvent(d, g[E], new)
  BY <1>3, <1>8 DEF Replays
<1> QED BY <1>2, <1>3, <1>7, <1>9

(* A movement recorded after everything entered and recorded moves none of it. *)
LEMMA MovementRuns ==
  ASSUME NEW rows, NEW log, IsLedger(rows, log), NEW l \in Entry, l.action \in {"add", "deduct"},
         NEW now \in Nat, now < l.at,
         \A e \in Entered(rows) : At(e) <= now /\ rows[e].at <= now,
         \A i \in DOMAIN log : log[i].at <= now,
         NEW s, ~Replayed(rows, log, s).gone
  PROVE  LET n == Len(log) + 1
             d == WithEvents(Context(rows, Append(log, l))) IN
         /\ d.log[n] = l
         /\ \E b : /\ Twin(Replayed(rows, log, s), b)
                  /\ Replayed(rows, Append(log, l), s) = ReplayCommand(d, b, n)
<1> DEFINE n == Len(log) + 1
           more == Append(log, l)
           k == Context(rows, log)
           m == Context(rows, more)
           c == WithEvents(k)
           d == WithEvents(m)
           new == <<l.at, 0, n>>
<1>1. /\ n \in Nat \ {0} /\ DOMAIN more = 1..n /\ DOMAIN log = 1..(n - 1) /\ more \in Seq(Entry)
      /\ more[n] = l /\ \A i \in DOMAIN log : more[i] = log[i]
  BY DEF IsLedger
<1>2. /\ Opening(more) = Opening(log) /\ ReturnDay(more) = ReturnDay(log)
      /\ Pending(more) = Pending(log) \cup {n}
  BY MovementIsPending DEF IsLedger
<1>3. IsLedger(rows, more)
  BY <1>1 DEF IsLedger
<1>4. Pending(log) \subseteq DOMAIN log /\ n \notin DOMAIN log
  BY <1>1 DEF Pending
<1> HIDE DEF more, n
<1>5. Undone(log) \subseteq Undone(more)
  BY <1>1 DEF Undone
<1>6. Credits(log) \subseteq Credits(more) /\ Credits(more) \subseteq Credits(log) \cup {l.at}
  BY <1>1, <1>2, <1>4 DEF Credits
<1>7. Credits(more) \subseteq Nat
  BY <1>3, CreditsAreMoments DEF IsLedger
<1>8. /\ k.rows = rows /\ k.log = log /\ k.open = Opening(log) /\ k.back = ReturnDay(log)
      /\ k.credits = Credits(log)
      /\ m.rows = rows /\ m.log = more /\ m.open = Opening(log) /\ m.back = ReturnDay(log)
      /\ m.credits = Credits(more)
  BY <1>2 DEF Context
<1>9. /\ c.rows = rows /\ c.log = log /\ c.open = Opening(log) /\ c.back = ReturnDay(log)
      /\ c.credits = Credits(log) /\ IsHistory(c.events)
      /\ \A x \in c.events : x[2] # 0 => x[3] \in Entered(c.rows)
  BY LedgerIsHistory
<1>10. /\ d.rows = rows /\ d.log = more /\ d.open = Opening(log) /\ d.back = ReturnDay(log)
       /\ d.credits = Credits(more) /\ IsHistory(d.events)
  BY <1>2, <1>3, LedgerIsHistory
<1>11. /\ c.events = CommandEvents(k) \cup ResultEvents(k)
       /\ d.events = CommandEvents(m) \cup ResultEvents(m)
  BY DEF WithEvents, Context
<1> HIDE DEF k, m, c, d
<1>12. ASSUME NEW e
       PROVE  /\ Neutral(k, e) <=> Neutral(m, e)
              /\ Neutral(c, e) <=> Neutral(d, e)
              /\ KeepsPlace(k, e) <=> KeepsPlace(m, e)
  BY <1>8, <1>9, <1>10 DEF Neutral, KeepsPlace
<1>13. ASSUME NEW e \in Entered(rows) PROVE OwnTime(k, e) = OwnTime(m, e)
  <2> DEFINE F(C) == {t \in C : t > At(e) /\ t <= rows[e].at /\ Day(t) = DayOf[e]}
  <2>1. rows[e].at \in Nat /\ rows[e].at <= now /\ l.at \in Nat
    BY DEF IsLedger, Entered, Row, Entry
  <2>2. F(Credits(log)) = F(Credits(more))
    BY <1>6, <2>1
  <2>3. /\ OwnTime(k, e) = IF KeepsPlace(k, e) THEN At(e) ELSE Greatest({At(e)} \cup F(Credits(log)))
        /\ OwnTime(m, e) = IF KeepsPlace(m, e) THEN At(e) ELSE Greatest({At(e)} \cup F(Credits(more)))
    BY <1>8 DEF OwnTime
  <2> HIDE DEF F
  <2> QED BY <1>12, <2>2, <2>3
<1>14. ASSUME NEW e \in Entered(rows) PROVE LedgerTime(k, e) = LedgerTime(m, e)
  <2> DEFINE Of(C) == {OwnTime(C, g) : g \in {h \in Entered(C.rows) : h <= e /\ DayOf[h] = DayOf[e]}}
  <2>1. Of(k) = Of(m)
    BY <1>8, <1>13
  <2>2. \A C : LedgerTime(C, e) = IF KeepsPlace(C, e) THEN Greatest(Of(C)) ELSE OwnTime(C, e)
    BY DEF LedgerTime
  <2> HIDE DEF Of
  <2> QED BY <1>12, <1>13, <2>1, <2>2
<1>15. ASSUME NEW e \in Entered(rows) PROVE LaterCredit(c, e) = LaterCredit(d, e)
  <2> DEFINE F(C) == {t \in C : Day(t) >= DayOf[e] /\ t <= rows[e].at}
  <2>1. rows[e].at \in Nat /\ rows[e].at <= now /\ l.at \in Nat
    BY DEF IsLedger, Entered, Row, Entry
  <2>2. F(Credits(log)) = F(Credits(more))
    BY <1>6, <2>1
  <2>3. \A C : LaterCredit(C, e) =
                 LET after == {t \in C.credits : Day(t) >= DayOf[e] /\ t <= C.rows[e].at} IN
                 IF after # {} /\ Day(Least(after)) > DayOf[e] THEN Least(after) ELSE 0
    BY DEF LaterCredit
  <2>4. {t \in c.credits : Day(t) >= DayOf[e] /\ t <= c.rows[e].at} =
        {t \in d.credits : Day(t) >= DayOf[e] /\ t <= d.rows[e].at}
    BY <1>9, <1>10, <2>2
  <2> QED BY <2>3, <2>4
<1>16. d.events = c.events \cup {new}
  <2>1. ResultEvents(k) = ResultEvents(m)
    BY <1>8, <1>14 DEF ResultEvents
  <2>2. CommandEvents(m) = CommandEvents(k) \cup {new}
    <3>1. \A i \in Pending(log) : more[i] = log[i]
      BY <1>1, <1>4
    <3> QED BY <1>1, <1>2, <1>8, <3>1 DEF CommandEvents
  <2> QED BY <1>11, <2>1, <2>2
<1>17. ASSUME NEW x \in c.events PROVE x[1] \in Nat /\ x[1] <= now
  <2>1. CASE x \in CommandEvents(k)
    <3>1. PICK i \in Pending(log) : x = <<log[i].at, 0, i>>
      BY <1>8, <2>1 DEF CommandEvents
    <3>2. log[i] \in Entry /\ log[i].at <= now
      BY <1>4, EntriesAreTyped DEF IsLedger
    <3> QED BY <3>1, <3>2 DEF Entry
  <2>2. CASE x \in ResultEvents(k)
    <3>1. PICK e \in Entered(rows) : x = <<LedgerTime(k, e), 1, e>>
      BY <1>8, <2>2 DEF ResultEvents
    <3>2. \A f \in Entered(rows) : At(f) \in 0..now
      BY ReplayAssumption DEF At, Entered
    <3>3. Credits(log) \subseteq 0..now
      <4>1. ASSUME NEW i \in Pending(log) PROVE log[i].at \in 0..now
        <5>1. log[i] \in Entry /\ log[i].at <= now
          BY <1>4, EntriesAreTyped DEF IsLedger
        <5> QED BY <5>1 DEF Entry
      <4> QED BY <4>1 DEF Credits
    <3>4. \A f \in Entered(rows) : LedgerTime(Context(rows, log), f) \in 0..now
      <4> DEFINE M == 0..now
      <4>1. M \subseteq Nat
        OBVIOUS
      <4> HIDE DEF M
      <4>2. \A f \in Entered(rows) : LedgerTime(Context(rows, log), f) \in M
        BY <3>2, <3>3, <4>1, TimesAreAmong, ReplayAssumption DEF M
      <4> QED BY <4>2 DEF M
    <3> QED BY <3>1, <3>4 DEF k
  <2> QED BY <1>11, <2>1, <2>2
<1>18. ASSUME NEW x \in c.events
       PROVE  /\ Before(x, new) /\ ~Before(new, x) /\ x # new
              /\ x[2] # 0 => x[3] \in Entered(c.rows)
              /\ x[2] = 0 => c.log[x[3]] = d.log[x[3]]
  <2>1. x[1] \in Nat /\ x[1] < new[1] /\ new[1] \in Nat
    BY <1>17 DEF Entry
  <2>2. Before(x, new) /\ ~Before(new, x) /\ x # new
    BY <2>1 DEF Before
  <2>3. ASSUME x[2] = 0 PROVE x[3] \in DOMAIN log
    <3>1. x \in CommandEvents(k)
      BY <1>11, <2>3 DEF ResultEvents
    <3> QED BY <1>4, <1>8, <3>1 DEF CommandEvents
  <2> QED BY <1>1, <1>9, <1>10, <2>2, <2>3
<1>19. Alike(c, d)
  <2>1. Results(c) = Results(d)
    BY <1>16 DEF Results
  <2> QED BY <1>9, <1>10, <1>12, <1>15, <2>1 DEF Alike
<1>20. Beginning(c, s) = Beginning(d, s)
  <2>1. SettledExams(rows, log) = SettledExams(rows, more)
    BY <1>2 DEF SettledExams
  <2> QED BY <1>9, <1>10, <2>1 DEF Beginning
<1>21. Replayed(rows, log, s) = Run(c, s) /\ Replayed(rows, more, s) = Run(d, s)
  BY DEF Replayed, c, d, k, m
<1>22. PICK b : Twin(Run(c, s), b) /\ Run(d, s) = ReplayEvent(d, b, new)
  <2>1. new[2] = 0
    OBVIOUS
  <2>2. Undone(c.log) \subseteq Undone(d.log) /\ ~Run(c, s).gone
    BY <1>5, <1>9, <1>10, <1>21
  <2>3. \A x \in c.events :
          /\ Before(x, new) /\ ~Before(new, x) /\ x # new
          /\ x[2] # 0 => x[3] \in Entered(c.rows)
          /\ x[2] = 0 => c.log[x[3]] = d.log[x[3]]
    BY <1>18
  <2>4. IsHistory(d.events)
    BY <1>10
  <2> HIDE DEF new
  <2>5. OneMore(c, d, new)
    BY <1>16, <1>19, <2>1, <2>2, <2>3, <2>4 DEF OneMore
  <2> QED BY <1>20, <2>2, <2>5, OneCommandMore
<1>23. ReplayEvent(d, b, new) = ReplayCommand(d, b, n)
  BY DEF ReplayEvent
<1> QED BY <1>1, <1>10, <1>21, <1>22, <1>23 DEF d, m, more, n

(* What a movement over an active student saves. *)
LEMMA MovementSaves ==
  ASSUME NEW rows, NEW log, IsLedger(rows, log), NEW l \in Entry, l.action \in {"add", "deduct"},
         NEW now \in Nat, now < l.at,
         \A e \in Entered(rows) : At(e) <= now /\ rows[e].at <= now,
         \A i \in DOMAIN log : log[i].at <= now,
         NEW s, s.status = "active", Replay(rows, log, s) = s
  PROVE  /\ s.balance \in Nat /\ s.balance <= Cap
         /\ l.action = "add" =>
              Replay(rows, Append(log, l), s).balance = Capped(s.balance + l.applied)
         /\ l.action = "deduct" /\ (l.violation => s.balance = 0) /\ (l.applied > 0 => s.balance > 0)
              => Replay(rows, Append(log, l), s).balance = Less(s.balance, l.applied)
<1> DEFINE n == Len(log) + 1
           more == Append(log, l)
           d == WithEvents(Context(rows, more))
           a == Replayed(rows, log, s)
           z == Replayed(rows, more, s)
<1>1. Cap \in Nat /\ l.applied \in Nat
  BY ReplayAssumption DEF ReplayAssumption, Entry
<1>2. a.bal \in Nat /\ a.bal <= Cap
  BY <1>1, ReplayAssumption, ReplayIsSound DEF Sound, Balanced
<1> HIDE DEF a
<1>3. s = Saved(rows, log, s, a)
  BY DEF Replay, a
<1>4. ~a.gone /\ s.balance = a.bal
  <2>1. s.status = (IF a.gone \/ (s.status = "dismissed" /\ ~a.gone /\ ~SavedByBonus(a, s))
                    THEN "dismissed" ELSE "active")
        /\ s.balance = (IF a.gone \/ (s.status = "dismissed" /\ ~a.gone /\ ~SavedByBonus(a, s))
                        THEN 0 ELSE Capped(a.bal))
    BY <1>3 DEF Saved
  <2>2. Capped(a.bal) = a.bal
    BY <1>1, <1>2 DEF Capped, Smaller
  <2> QED BY <2>1, <2>2
<1>5. d.log[n] = l /\ \E b : Twin(a, b) /\ z = ReplayCommand(d, b, n)
  BY <1>4, MovementRuns DEF a
<1>6. PICK b : Twin(a, b) /\ z = ReplayCommand(d, b, n)
  BY <1>5
<1>7. Whole(b) /\ b.bal = a.bal /\ ~b.gone
  <2>1. Whole(b) /\ b.bal = a.bal /\ b.gone = a.gone
    BY <1>6, TwinParts
  <2> QED BY <2>1, <1>4
<1>8. Replay(rows, more, s).balance = IF z.gone THEN 0 ELSE Capped(z.bal)
  <2>1. Replay(rows, more, s) = Saved(rows, more, s, z)
    BY DEF Replay
  <2> HIDE DEF z
  <2> QED BY <2>1 DEF Saved
<1> HIDE DEF d, z, n
<1>9. ASSUME l.action = "add" PROVE z.bal = Capped(b.bal + l.applied) /\ ~z.gone
  <2>1. z = AddEntry(b, l)
    BY <1>5, <1>6, <1>9 DEF ReplayCommand
  <2> DEFINE back == IF l.undoes # 0 THEN Capped(b.bal + l.applied) - b.bal ELSE 0
             r == [b EXCEPT !.bal = Capped(b.bal + l.applied), !.shadow = Capped(@ + l.applied),
                            !.late = IF l.applied > 0 THEN 0 ELSE @, !.hold = Less(@, back)]
  <2>2. AddEntry(b, l) = ClampHold(r)
    BY DEF AddEntry
  <2> HIDE DEF back
  <2>3. Whole(r) /\ r.bal = Capped(b.bal + l.applied) /\ r.gone = b.gone
    BY <1>7 DEF Whole, Parts
  <2> HIDE DEF r
  <2>4. ClampHold(r).bal = r.bal /\ ClampHold(r).gone = r.gone
    BY <2>3 DEF ClampHold, Whole, Parts
  <2> QED BY <1>7, <2>1, <2>2, <2>3, <2>4
<1>10. ASSUME l.action = "deduct", l.violation => b.bal = 0, l.applied > 0 => b.bal > 0
       PROVE  IF z.gone THEN b.bal = 0 ELSE z.bal = Less(b.bal, l.applied)
  <2>1. z = DeductEntry(d, b, n)
    BY <1>5, <1>6, <1>10 DEF ReplayCommand
  <2> DEFINE counted == n \notin Undone(d.log)
             dismisses == counted /\ (l.violation \/ (l.applied > 0 /\ b.bal = 0))
             why == [rule |-> "hand", of |-> n]
             r == [b EXCEPT !.bal = Less(@, l.applied), !.shadow = Less(@, l.applied),
                            !.known = Less(@, l.applied),
                            !.hold = IF l.undoes # 0 THEN @ ELSE @ + Smaller(b.bal, l.applied)]
             w == [r EXCEPT !.saved = IF counted /\ l.applied > 0 /\ b.shadow = 0
                                      THEN @ \cup {0} ELSE @]
  <2>2. d.log[n] = l
    BY <1>5
  <2>3. z = IF dismisses THEN Dismiss(r, 60, why) ELSE w
    BY <2>1, <2>2 DEF DeductEntry
  <2>4. Whole(r) /\ r.bal = Less(b.bal, l.applied) /\ r.gone = b.gone
    BY <1>7 DEF Whole, Parts
  <2>5. dismisses => b.bal = 0
    BY <1>1, <1>2, <1>7, <1>10
  <2> HIDE DEF dismisses, counted, r, why
  <2>6. w.bal = r.bal /\ w.gone = r.gone
    BY <2>4 DEF Whole, Parts
  <2>7. Dismiss(r, 60, why).gone
    BY <2>4 DEF Dismiss, Whole, Parts
  <2> HIDE DEF w
  <2> QED BY <1>7, <2>3, <2>4, <2>5, <2>6, <2>7
<1>11. Capped(a.bal + l.applied) \in Nat /\ Capped(Capped(a.bal + l.applied)) = Capped(a.bal + l.applied)
       /\ Less(a.bal, l.applied) \in Nat /\ Capped(Less(a.bal, l.applied)) = Less(a.bal, l.applied)
       /\ (a.bal = 0 => Less(a.bal, l.applied) = 0)
  BY <1>1, <1>2 DEF Capped, Smaller, Less
<1>12. l.action = "add" => Replay(rows, more, s).balance = Capped(s.balance + l.applied)
  BY <1>4, <1>7, <1>8, <1>9, <1>11
<1>13. ASSUME l.action = "deduct", l.violation => s.balance = 0, l.applied > 0 => s.balance > 0
       PROVE  Replay(rows, more, s).balance = Less(s.balance, l.applied)
  <2>1. IF z.gone THEN b.bal = 0 ELSE z.bal = Less(b.bal, l.applied)
    BY <1>4, <1>7, <1>10, <1>13
  <2> QED BY <1>4, <1>7, <1>8, <1>11, <2>1
<1> QED BY <1>2, <1>4, <1>12, <1>13 DEF more

-----------------------------------------------------------------------------
(***************************************************************************)
(* Editing a settled result.  It has no effect, but a break of the streak  *)
(* may wait for it while it is a pass.  The replay is compared with one    *)
(* whose results without effect are no passes: of the breaks, that one     *)
(* applies some earlier.                                                   *)
(***************************************************************************)
(* Equal but for the streak. *)
Apart(a, b) ==
  Whole(a) /\ Whole(b) /\ \A p \in Parts \ {"first", "waiting", "deferred", "last"} : a[p] = b[p]

SameStreak(a, b) ==
  b.first = a.first /\ b.waiting = a.waiting /\ b.deferred = a.deferred /\ b.last = a.last

(* Two states Apart, each followed by one with its streak, again Apart. *)
Move(a, b, p, q) == Apart(p, q) /\ SameStreak(a, p) /\ SameStreak(b, q)

LEMMA ApartParts ==
  ASSUME NEW a, NEW b
  PROVE  Apart(a, b) <=>
           /\ Whole(a) /\ Whole(b)
           /\ a.bal = b.bal /\ a.shadow = b.shadow /\ a.hold = b.hold /\ a.gone = b.gone
           /\ a.why = b.why /\ a.priority = b.priority /\ a.cheats = b.cheats /\ a.late = b.late
           /\ a.known = b.known /\ a.saved = b.saved /\ a.bonuses = b.bonuses
           /\ a.dismissals = b.dismissals /\ a.count = b.count
BY DEF Apart, Parts

LEMMA ApartJoin ==
  ASSUME NEW a, NEW b, NEW p, NEW q, Apart(a, b), Apart(a, p), Apart(b, q)
  PROVE  Apart(p, q)
BY DEF Apart

LEMMA MoveTwice ==
  ASSUME NEW a, NEW b, NEW p, NEW q, NEW s, NEW t, Move(a, b, p, q), Move(p, q, s, t)
  PROVE  Move(a, b, s, t)
BY DEF Move, SameStreak

LEMMA Stand ==
  ASSUME NEW a, NEW b, Apart(a, b)
  PROVE  Move(a, b, a, b)
BY DEF Move, SameStreak

LEMMA ApartDismiss ==
  ASSUME NEW a, NEW b, Apart(a, b), NEW priority, NEW why
  PROVE  Move(a, b, Dismiss(a, priority, why), Dismiss(b, priority, why))
<1>1. ASSUME NEW x, NEW y, Apart(x, y)
      PROVE  Move(x, y, [x EXCEPT !.late = 0, !.gone = TRUE], [y EXCEPT !.late = 0, !.gone = TRUE])
  BY <1>1 DEF Move, SameStreak, Apart, Whole, Parts
<1>2. ASSUME NEW x, NEW y, Apart(x, y)
      PROVE  Move(x, y, [x EXCEPT !.priority = priority, !.why = why],
                        [y EXCEPT !.priority = priority, !.why = why])
  BY <1>2 DEF Move, SameStreak, Apart, Whole, Parts
<1> DEFINE x == [a EXCEPT !.late = 0, !.gone = TRUE]
           y == [b EXCEPT !.late = 0, !.gone = TRUE]
<1>3. a.priority = b.priority
  BY ApartParts
<1>4. Move(a, b, x, y)
  BY <1>1
<1>5. \A k : Dismiss(k, priority, why) =
             IF priority >= k.priority
             THEN [[k EXCEPT !.late = 0, !.gone = TRUE] EXCEPT !.priority = priority, !.why = why]
             ELSE [k EXCEPT !.late = 0, !.gone = TRUE]
  BY DEF Dismiss
<1> HIDE DEF x, y
<1>6. Move(x, y, [x EXCEPT !.priority = priority, !.why = why],
                 [y EXCEPT !.priority = priority, !.why = why])
  BY <1>2, <1>4 DEF Move
<1>7. Move(a, b, [x EXCEPT !.priority = priority, !.why = why],
                 [y EXCEPT !.priority = priority, !.why = why])
  BY <1>4, <1>6, MoveTwice
<1> QED BY <1>3, <1>4, <1>5, <1>7 DEF x, y

LEMMA ApartDismissAt ==
  ASSUME NEW a, NEW b, Apart(a, b), NEW priority, NEW rule, NEW e
  PROVE  Move(a, b, DismissAt(a, priority, rule, e), DismissAt(b, priority, rule, e))
<1>1. ASSUME NEW x, NEW y, Apart(x, y), NEW why
      PROVE  Move(x, y, [x EXCEPT !.bal = 0, !.dismissals = @ \cup {why}],
                        [y EXCEPT !.bal = 0, !.dismissals = @ \cup {why}])
  BY <1>1 DEF Move, SameStreak, Apart, Whole, Parts
<1> DEFINE why == [rule |-> rule, of |-> e]
           x == Dismiss(a, priority, why)
           y == Dismiss(b, priority, why)
<1>2. Move(a, b, x, y)
  BY ApartDismiss
<1>3. /\ DismissAt(a, priority, rule, e) = [x EXCEPT !.bal = 0, !.dismissals = @ \cup {why}]
      /\ DismissAt(b, priority, rule, e) = [y EXCEPT !.bal = 0, !.dismissals = @ \cup {why}]
  BY DEF DismissAt
<1> HIDE DEF x, y, why
<1>4. Move(x, y, [x EXCEPT !.bal = 0, !.dismissals = @ \cup {why}],
                 [y EXCEPT !.bal = 0, !.dismissals = @ \cup {why}])
  BY <1>1, <1>2 DEF Move
<1> QED BY <1>2, <1>3, <1>4, MoveTwice

LEMMA ApartCheat ==
  ASSUME NEW a, NEW b, Apart(a, b), NEW e
  PROVE  Move(a, b, Cheat(a, e), Cheat(b, e))
<1>1. Move(a, b, [a EXCEPT !.cheats = 1], [b EXCEPT !.cheats = 1])
  BY DEF Move, SameStreak, Apart, Whole, Parts
<1>2. Move(a, b, [a EXCEPT !.cheats = @ + 1], [b EXCEPT !.cheats = @ + 1])
  BY DEF Move, SameStreak, Apart, Whole, Parts
<1>3. a.cheats = b.cheats
  BY ApartParts
<1>4. ASSUME NEW x, NEW y, Move(a, b, x, y), NEW priority, NEW rule
      PROVE  Move(a, b, DismissAt(x, priority, rule, e), DismissAt(y, priority, rule, e))
  <2>1. Apart(x, y)
    BY <1>4 DEF Move
  <2>2. Move(x, y, DismissAt(x, priority, rule, e), DismissAt(y, priority, rule, e))
    BY <2>1, ApartDismissAt
  <2> QED BY <1>4, <2>2, MoveTwice
<1> QED BY <1>1, <1>2, <1>3, <1>4 DEF Cheat

LEMMA ApartCommand ==
  ASSUME NEW c, NEW d, c.log = d.log, NEW a, NEW b, Apart(a, b), NEW i
  PROVE  Move(a, b, ReplayCommand(c, a, i), ReplayCommand(d, b, i))
<1> DEFINE l == c.log[i]
<1>0. a.bal = b.bal /\ a.shadow = b.shadow
  BY ApartParts
<1>1. Move(a, b, AddEntry(a, l), AddEntry(b, l))
  <2> DEFINE Bal(k) == Capped(k.bal + l.applied)
             Back(k) == IF l.undoes # 0 THEN Bal(k) - k.bal ELSE 0
             Raised(k) == [k EXCEPT !.bal = Bal(k), !.shadow = Capped(@ + l.applied),
                                    !.late = IF l.applied > 0 THEN 0 ELSE @,
                                    !.hold = Less(@, Back(k))]
  <2>1. Bal(a) = Bal(b) /\ Back(a) = Back(b)
    BY <1>0
  <2>2. \A k : AddEntry(k, l) = ClampHold(Raised(k))
    BY DEF AddEntry
  <2> HIDE DEF Bal, Back, l
  <2>3. Move(a, b, Raised(a), Raised(b))
    BY <2>1 DEF Move, SameStreak, Apart, Whole, Parts
  <2> HIDE DEF Raised
  <2>4. ASSUME NEW s, NEW t, Apart(s, t) PROVE Move(s, t, ClampHold(s), ClampHold(t))
    BY <2>4 DEF ClampHold, Move, SameStreak, Apart, Whole, Parts
  <2>5. Move(Raised(a), Raised(b), ClampHold(Raised(a)), ClampHold(Raised(b)))
    BY <2>3, <2>4 DEF Move
  <2> QED BY <2>2, <2>3, <2>5, MoveTwice
<1>2. Move(a, b, DeductEntry(c, a, i), DeductEntry(d, b, i))
  <2> DEFINE Dismisses(k) == i \notin Undone(c.log) /\ (l.violation \/ (l.applied > 0 /\ k.bal = 0))
             Taken(k) == [k EXCEPT !.bal = Less(@, l.applied), !.shadow = Less(@, l.applied),
                             !.known = Less(@, l.applied),
                             !.hold = IF l.undoes # 0 THEN @ ELSE @ + Smaller(k.bal, l.applied)]
             Marks0(k) == i \notin Undone(c.log) /\ l.applied > 0 /\ k.shadow = 0
             Marked(k, t) == [t EXCEPT !.saved = IF Marks0(k) THEN @ \cup {0} ELSE @]
             By == [rule |-> "hand", of |-> i]
  <2>1. \A k : /\ DeductEntry(c, k, i) = IF Dismisses(k) THEN Dismiss(Taken(k), 60, By)
                                         ELSE Marked(k, Taken(k))
               /\ DeductEntry(d, k, i) = IF Dismisses(k) THEN Dismiss(Taken(k), 60, By)
                                         ELSE Marked(k, Taken(k))
    BY DEF DeductEntry
  <2>2. (Dismisses(a) <=> Dismisses(b)) /\ (Marks0(a) <=> Marks0(b))
    BY <1>0
  <2> HIDE DEF Dismisses, Marks0, l
  <2>3. Move(a, b, Taken(a), Taken(b))
    BY <1>0 DEF Move, SameStreak, Apart, Whole, Parts
  <2> HIDE DEF Taken
  <2>4. ASSUME NEW s, NEW t, Apart(s, t) PROVE Move(s, t, Marked(a, s), Marked(b, t))
    BY <2>2, <2>4 DEF Move, SameStreak, Apart, Whole, Parts
  <2>5. Apart(Taken(a), Taken(b))
    BY <2>3 DEF Move
  <2>6. /\ Move(Taken(a), Taken(b), Marked(a, Taken(a)), Marked(b, Taken(b)))
        /\ Move(Taken(a), Taken(b), Dismiss(Taken(a), 60, By), Dismiss(Taken(b), 60, By))
    BY <2>4, <2>5, ApartDismiss
  <2> HIDE DEF Marked, By
  <2>7. /\ Move(a, b, Marked(a, Taken(a)), Marked(b, Taken(b)))
        /\ Move(a, b, Dismiss(Taken(a), 60, By), Dismiss(Taken(b), 60, By))
    BY <2>3, <2>6, MoveTwice
  <2> QED BY <2>1, <2>2, <2>7
<1> QED BY <1>1, <1>2 DEF ReplayCommand

(* x waits for a pass that is not among those replayed. *)
Out(c, Q, x) == BreakWaitsFor(c, x) \notin Q \cup {0}

Waits(c, B, Q) == {<<x[3], BreakWaitsFor(c, x)>> : x \in {y \in B : Out(c, Q, y)}}

(* The breaks that d has applied and c has not. *)
Debts(c, d, B, Q) == {x \in B : Out(c, Q, x) /\ ~Out(d, Q, x)}

(***************************************************************************)
(* After the breaks B and the results Q: a and b differ by the breaks that *)
(* b has applied and a has not.                                            *)
(***************************************************************************)
Streaks(c, d, B, Q, a, b) ==
  /\ a.deferred = Waits(c, B, Q) /\ b.deferred = Waits(d, B, Q)
  /\ a.last \in Nat /\ b.last \in Nat /\ a.last <= b.last
  /\ \A x \in Debts(c, d, B, Q) : x[3] <= b.last /\ b.first = 0 /\ b.waiting = FALSE
  /\ b.last = a.last \/ \E x \in Debts(c, d, B, Q) : b.last = x[3]
  /\ Debts(c, d, B, Q) = {} => a.first = b.first /\ a.waiting = b.waiting

LEMMA StreaksMove ==
  ASSUME NEW c, NEW d, NEW B, NEW Q, NEW a, NEW b, NEW p, NEW q,
         Streaks(c, d, B, Q, a, b), SameStreak(a, p), SameStreak(b, q)
  PROVE  Streaks(c, d, B, Q, p, q)
BY DEF Streaks, SameStreak

LEMMA GreaterOfTwo ==
  ASSUME NEW m \in Nat, NEW n \in Nat
  PROVE  Greatest({m, n}) \in {m, n} /\ m <= Greatest({m, n}) /\ n <= Greatest({m, n})
<1>1. {m, n} = {m} \cup {n}
  OBVIOUS
<1>2. IsFiniteSet({m} \cup {n})
  BY FS_Singleton, FS_AddElement
<1>3. {m, n} \subseteq Nat /\ {m, n} # {}
  OBVIOUS
<1>4. Greatest({m, n}) \in {m, n} /\ \A y \in {m, n} : Greatest({m, n}) >= y
  BY <1>1, <1>2, <1>3, GreatestIsIn
<1> QED BY <1>4

(* A reset touches the streak only. *)
LEMMA Reset ==
  ASSUME NEW a, Whole(a), a.last \in Nat, NEW e \in Nat
  PROVE  LET b == ResetStreak(a, e) IN
         /\ Apart(a, b) /\ b.first = 0 /\ b.waiting = FALSE /\ b.deferred = a.deferred
         /\ b.last \in {a.last, e} /\ a.last <= b.last /\ e <= b.last
<1> DEFINE g == Greatest({a.last, e})
<1>1. g \in {a.last, e} /\ a.last <= g /\ e <= g
  BY GreaterOfTwo
<1>2. ResetStreak(a, e) = [a EXCEPT !.first = 0, !.waiting = FALSE, !.last = g]
  BY DEF ResetStreak
<1> HIDE DEF g
<1> QED BY <1>1, <1>2 DEF Apart, Whole, Parts

(* A break is applied or waits. *)
LEMMA Broken ==
  ASSUME NEW c, NEW B, NEW Q, NEW a, Whole(a), a.last \in Nat, a.deferred = Waits(c, B, Q),
         NEW x, x[3] \in Nat, BreakWaitsFor(c, x) \notin Q
  PROVE  LET b == BreakStreak(c, a, x) IN
         /\ Apart(a, b) /\ b.deferred = Waits(c, B \cup {x}, Q)
         /\ Out(c, Q, x) => b.last = a.last /\ b.first = a.first /\ b.waiting = a.waiting
         /\ ~Out(c, Q, x) => /\ b.first = 0 /\ b.waiting = FALSE
                             /\ b.last \in {a.last, x[3]} /\ a.last <= b.last /\ x[3] <= b.last
<1> DEFINE w == BreakWaitsFor(c, x)
           m == [a EXCEPT !.deferred = @ \cup {<<x[3], w>>}]
<1>1. BreakStreak(c, a, x) = IF w = 0 THEN ResetStreak(a, x[3]) ELSE m
  BY DEF BreakStreak, BreakOrDefer
<1>2. Out(c, Q, x) <=> w # 0
  BY DEF Out
<1>3. CASE w = 0
  <2>1. Waits(c, B \cup {x}, Q) = Waits(c, B, Q)
    BY <1>2, <1>3 DEF Waits
  <2> DEFINE r == ResetStreak(a, x[3])
  <2>2. /\ Apart(a, r) /\ r.first = 0 /\ r.waiting = FALSE /\ r.deferred = a.deferred
        /\ r.last \in {a.last, x[3]} /\ a.last <= r.last /\ x[3] <= r.last
    BY Reset
  <2>3. BreakStreak(c, a, x) = r /\ ~Out(c, Q, x)
    BY <1>1, <1>2, <1>3
  <2> HIDE DEF r
  <2> QED BY <2>1, <2>2, <2>3
<1>4. CASE w # 0
  <2>1. Waits(c, B \cup {x}, Q) = Waits(c, B, Q) \cup {<<x[3], w>>}
    BY <1>2, <1>4 DEF Waits
  <2>2. /\ Apart(a, m) /\ m.deferred = a.deferred \cup {<<x[3], w>>}
        /\ m.last = a.last /\ m.first = a.first /\ m.waiting = a.waiting
    BY DEF Apart, Whole, Parts
  <2> QED BY <1>1, <1>2, <1>4, <2>1, <2>2
<1> QED BY <1>3, <1>4

(* b is a with the breaks applied that waited for f. *)
Applies(c, B, Q, f, a, b) ==
  LET D == {x \in B : BreakWaitsFor(c, x) = f} IN
  /\ Apart(a, b) /\ b.deferred = Waits(c, B, Q \cup {f})
  /\ b.last \in Nat /\ a.last <= b.last /\ \A x \in D : x[3] <= b.last
  /\ b.last = a.last \/ \E x \in D : b.last = x[3]
  /\ D = {} => b.first = a.first /\ b.waiting = a.waiting
  /\ D # {} => b.first = 0 /\ b.waiting = FALSE

LEMMA Applied ==
  ASSUME NEW c, NEW B, NEW Q, NEW a, Whole(a), a.last \in Nat, a.deferred = Waits(c, B, Q),
         IsFiniteSet(B), \A x \in B : x[3] \in Nat, NEW f, f # 0, f \notin Q
  PROVE  Applies(c, B, Q, f, a, ApplyDeferred(a, f))
<1> DEFINE D == {x \in B : BreakWaitsFor(c, x) = f}
           due == {z \in a.deferred : z[2] = f}
           m == [a EXCEPT !.deferred = @ \ due]
           N == {z[1] : z \in due}
<1>1. ApplyDeferred(a, f) = IF due = {} THEN a ELSE ResetStreak(m, Greatest(N))
  BY DEF ApplyDeferred
<1>2. due = {<<x[3], f>> : x \in D}
  BY DEF Waits, Out
<1>3. a.deferred \ due = Waits(c, B, Q \cup {f})
  <2>1. \A z : z \in a.deferred \ due <=>
               \E x \in B : Out(c, Q, x) /\ BreakWaitsFor(c, x) # f /\ z = <<x[3], BreakWaitsFor(c, x)>>
    BY DEF Waits
  <2>2. \A x : Out(c, Q \cup {f}, x) <=> Out(c, Q, x) /\ BreakWaitsFor(c, x) # f
    BY DEF Out
  <2>3. \A z : z \in Waits(c, B, Q \cup {f}) <=>
               \E x \in B : Out(c, Q \cup {f}, x) /\ z = <<x[3], BreakWaitsFor(c, x)>>
    BY DEF Waits
  <2> HIDE DEF due
  <2> QED BY <2>1, <2>2, <2>3
<1>4. CASE D = {}
  <2>1. due = {}
    BY <1>2, <1>4
  <2>2. Apart(a, a)
    BY DEF Apart
  <2> HIDE DEF due
  <2>3. a.deferred = Waits(c, B, Q \cup {f})
    BY <1>3, <2>1
  <2>4. ApplyDeferred(a, f) = a
    BY <1>1, <2>1
  <2> QED BY <1>4, <2>2, <2>3, <2>4 DEF Applies
<1>5. CASE D # {}
  <2>1. due # {}
    BY <1>2, <1>5
  <2>2. N = {x[3] : x \in D}
    <3> HIDE DEF due, D
    <3>1. ASSUME NEW z \in due PROVE z[1] \in {x[3] : x \in D}
      BY <1>2
    <3>2. ASSUME NEW x \in D PROVE \E z \in due : z[1] = x[3]
      <4>1. <<x[3], f>> \in due
        BY <1>2
      <4> QED BY <4>1
    <3> QED BY <3>1, <3>2
  <2>3. IsFiniteSet(D)
    BY FS_Subset
  <2>4. IsFiniteSet(N)
    <3> DEFINE h == [x \in D |-> x[3]]
    <3>1. N = {h[x] : x \in D}
      BY <2>2
    <3> HIDE DEF N, D, h
    <3> QED BY <2>3, <3>1, ImageIsFinite
  <2>5. N \subseteq Nat /\ N # {}
    <3>1. \A x \in D : x[3] \in Nat
      OBVIOUS
    <3> HIDE DEF N, D
    <3> QED BY <1>5, <2>2, <3>1
  <2> HIDE DEF N
  <2>6. Greatest(N) \in N /\ \A y \in N : Greatest(N) >= y
    BY <2>4, <2>5, GreatestIsIn
  <2>7. Greatest(N) \in Nat /\ (\A x \in D : x[3] <= Greatest(N)) /\ \E x \in D : Greatest(N) = x[3]
    <3> HIDE DEF D
    <3> QED BY <2>2, <2>5, <2>6
  <2>8. Apart(a, m) /\ Whole(m) /\ m.last = a.last /\ m.deferred = a.deferred \ due
    BY DEF Apart, Whole, Parts
  <2> HIDE DEF m, due, D
  <2> DEFINE b == ResetStreak(m, Greatest(N))
  <2>9. /\ Apart(m, b) /\ b.first = 0 /\ b.waiting = FALSE /\ b.deferred = m.deferred
        /\ b.last \in {m.last, Greatest(N)} /\ m.last <= b.last /\ Greatest(N) <= b.last
    BY <2>7, <2>8, Reset
  <2>10. ApplyDeferred(a, f) = b
    BY <1>1, <2>1
  <2> HIDE DEF b
  <2>11. Apart(a, b)
    BY <2>8, <2>9 DEF Apart
  <2>12. b.deferred = Waits(c, B, Q \cup {f})
    BY <1>3, <2>8, <2>9
  <2>13. b.last \in Nat /\ a.last <= b.last /\ \A x \in D : x[3] <= b.last
    <3>1. \A x \in D : x[3] \in Nat
      BY DEF D
    <3> QED BY <2>7, <2>8, <2>9, <3>1
  <2>14. b.last = a.last \/ \E x \in D : b.last = x[3]
    BY <2>7, <2>8, <2>9
  <2> QED BY <1>5, <2>9, <2>10, <2>11, <2>12, <2>13, <2>14 DEF Applies, D
<1> QED BY <1>4, <1>5

(* In c a break that is applied is applied in d too. *)
Ahead(c, d, B, Q) == \A x \in B : Out(d, Q, x) => Out(c, Q, x)

LEMMA StreaksBroken ==
  ASSUME NEW c, NEW d, NEW B, NEW Q, NEW a, NEW b, Apart(a, b), Streaks(c, d, B, Q, a, b),
         NEW x, x[3] \in Nat, BreakWaitsFor(c, x) \notin Q, BreakWaitsFor(d, x) \notin Q,
         Out(d, Q, x) => Out(c, Q, x), \A y \in B : y[3] \in Nat
  PROVE  LET p == BreakStreak(c, a, x)
             q == BreakStreak(d, b, x) IN
         Apart(p, q) /\ Streaks(c, d, B \cup {x}, Q, p, q)
<1> DEFINE p == BreakStreak(c, a, x)
           q == BreakStreak(d, b, x)
           D == Debts(c, d, B, Q)
           E == Debts(c, d, B \cup {x}, Q)
           n == x[3]
<1>1. Whole(a) /\ Whole(b)
  BY DEF Apart
<1>2. /\ a.deferred = Waits(c, B, Q) /\ b.deferred = Waits(d, B, Q)
      /\ a.last \in Nat /\ b.last \in Nat /\ a.last <= b.last
      /\ \A y \in D : y[3] <= b.last /\ b.first = 0 /\ b.waiting = FALSE
      /\ b.last = a.last \/ \E y \in D : b.last = y[3]
      /\ D = {} => a.first = b.first /\ a.waiting = b.waiting
  BY DEF Streaks
<1>3. /\ Apart(a, p) /\ p.deferred = Waits(c, B \cup {x}, Q)
      /\ Out(c, Q, x) => p.last = a.last /\ p.first = a.first /\ p.waiting = a.waiting
      /\ ~Out(c, Q, x) => /\ p.first = 0 /\ p.waiting = FALSE
                          /\ p.last \in {a.last, n} /\ a.last <= p.last /\ n <= p.last
  BY <1>1, <1>2, Broken
<1>4. /\ Apart(b, q) /\ q.deferred = Waits(d, B \cup {x}, Q)
      /\ Out(d, Q, x) => q.last = b.last /\ q.first = b.first /\ q.waiting = b.waiting
      /\ ~Out(d, Q, x) => /\ q.first = 0 /\ q.waiting = FALSE
                          /\ q.last \in {b.last, n} /\ b.last <= q.last /\ n <= q.last
  BY <1>1, <1>2, Broken
<1>5. E = IF Out(c, Q, x) /\ ~Out(d, Q, x) THEN D \cup {x} ELSE D
  BY DEF Debts
<1>6. \A y \in D : y[3] \in Nat
  BY DEF Debts
<1> HIDE DEF p, q, D, E
<1>7. Apart(p, q)
  BY <1>3, <1>4, ApartJoin
<1>8. p.last \in Nat /\ q.last \in Nat /\ p.last <= q.last
  BY <1>2, <1>3, <1>4
<1>9. \A y \in E : y[3] <= q.last /\ q.first = 0 /\ q.waiting = FALSE
  BY <1>2, <1>4, <1>5, <1>6
<1>10. q.last = p.last \/ \E y \in E : q.last = y[3]
  BY <1>2, <1>3, <1>4, <1>5, <1>6
<1>11. E = {} => p.first = q.first /\ p.waiting = q.waiting
  BY <1>2, <1>3, <1>4, <1>5
<1>12. Streaks(c, d, B \cup {x}, Q, p, q)
  BY <1>3, <1>4, <1>8, <1>9, <1>10, <1>11 DEF Streaks, E
<1> QED BY <1>7, <1>12 DEF p, q

LEMMA StreaksApplied ==
  ASSUME NEW c, NEW d, NEW B, NEW Q, NEW a, NEW b, Apart(a, b), Streaks(c, d, B, Q, a, b),
         IsFiniteSet(B), \A y \in B : y[3] \in Nat, NEW f, f # 0, f \notin Q,
         Ahead(c, d, B, Q), Ahead(c, d, B, Q \cup {f})
  PROVE  LET p == ApplyDeferred(a, f)
             q == ApplyDeferred(b, f) IN
         Apart(p, q) /\ Streaks(c, d, B, Q \cup {f}, p, q)
<1> DEFINE p == ApplyDeferred(a, f)
           q == ApplyDeferred(b, f)
           D == Debts(c, d, B, Q)
           E == Debts(c, d, B, Q \cup {f})
           C == {x \in B : BreakWaitsFor(c, x) = f}
           F == {x \in B : BreakWaitsFor(d, x) = f}
<1>1. Whole(a) /\ Whole(b)
  BY DEF Apart
<1>2. /\ a.deferred = Waits(c, B, Q) /\ b.deferred = Waits(d, B, Q)
      /\ a.last \in Nat /\ b.last \in Nat /\ a.last <= b.last
      /\ \A y \in D : y[3] <= b.last /\ b.first = 0 /\ b.waiting = FALSE
      /\ b.last = a.last \/ \E y \in D : b.last = y[3]
      /\ D = {} => a.first = b.first /\ a.waiting = b.waiting
  BY DEF Streaks
<1>3. /\ Apart(a, p) /\ p.deferred = Waits(c, B, Q \cup {f})
      /\ p.last \in Nat /\ a.last <= p.last /\ \A x \in C : x[3] <= p.last
      /\ p.last = a.last \/ \E x \in C : p.last = x[3]
      /\ C = {} => p.first = a.first /\ p.waiting = a.waiting
      /\ C # {} => p.first = 0 /\ p.waiting = FALSE
  <2>1. Applies(c, B, Q, f, a, p)
    BY <1>1, <1>2, Applied
  <2> QED BY <2>1 DEF Applies
<1>4. /\ Apart(b, q) /\ q.deferred = Waits(d, B, Q \cup {f})
      /\ q.last \in Nat /\ b.last <= q.last /\ \A x \in F : x[3] <= q.last
      /\ q.last = b.last \/ \E x \in F : q.last = x[3]
      /\ F = {} => q.first = b.first /\ q.waiting = b.waiting
      /\ F # {} => q.first = 0 /\ q.waiting = FALSE
  <2>1. Applies(d, B, Q, f, b, q)
    BY <1>1, <1>2, Applied
  <2> QED BY <2>1 DEF Applies
<1>5. \A x \in D : x \in B /\ (x \in C \/ x \in E)
  BY DEF Debts, Out
<1>6. \A x \in C : x \in F \/ x \in D
  BY DEF Ahead, Debts, Out
<1>7. \A x \in F : x \in C \/ x \in E
  BY DEF Ahead, Debts, Out
<1>8. \A x \in E : x \in D \/ x \in F
  BY DEF Debts, Out
<1>9. \A x \in C \cup F \cup D \cup E : x[3] \in Nat
  BY DEF Debts
<1>10. C \cap E = {}
  BY DEF Debts, Out
<1> HIDE DEF p, q, C, F, D, E
<1>11. Apart(p, q)
  BY <1>3, <1>4, ApartJoin
<1>12. p.last <= q.last
  <2>1. \A x \in C : x[3] <= q.last
    BY <1>2, <1>4, <1>6, <1>9
  <2> QED BY <1>2, <1>3, <1>4, <2>1
<1>13. \A y \in E : y[3] <= q.last /\ q.first = 0 /\ q.waiting = FALSE
  BY <1>2, <1>4, <1>8, <1>9
<1>14. q.last = p.last \/ \E y \in E : q.last = y[3]
  <2>1. \A x \in C : q.last = x[3] => q.last = p.last
    BY <1>3, <1>4, <1>9, <1>12
  <2>2. q.last = a.last => q.last = p.last
    BY <1>2, <1>3, <1>4, <1>12
  <2> QED BY <1>2, <1>4, <1>5, <1>7, <2>1, <2>2
<1>15. E = {} => p.first = q.first /\ p.waiting = q.waiting
  <2>1. CASE F # {} /\ E = {}
    BY <1>3, <1>4, <1>7, <2>1
  <2>2. CASE F = {} /\ C # {} /\ E = {}
    BY <1>2, <1>3, <1>4, <1>6, <2>2
  <2>3. CASE F = {} /\ C = {} /\ E = {}
    BY <1>2, <1>3, <1>4, <1>5, <2>3
  <2> QED BY <2>1, <2>2, <2>3
<1>16. Streaks(c, d, B, Q \cup {f}, p, q)
  BY <1>3, <1>4, <1>12, <1>13, <1>14, <1>15 DEF Streaks, E
<1> QED BY <1>11, <1>16 DEF p, q

(* A pass with an effect finds no difference. *)
LEMMA StreaksCounted ==
  ASSUME NEW c, NEW d, NEW B, NEW Q, NEW a, NEW b, Apart(a, b), Streaks(c, d, B, Q, a, b),
         Debts(c, d, B, Q) = {}, NEW e \in Nat, \A m, n : Missing(c, m, n) <=> Missing(d, m, n)
  PROVE  LET p == CountPass(c, a, e)
             q == CountPass(d, b, e) IN
         Apart(p, q) /\ Streaks(c, d, B, Q, p, q)
<1> DEFINE p == CountPass(c, a, e)
           q == CountPass(d, b, e)
           Level(s, t) == /\ Apart(s, t) /\ s.deferred = a.deferred /\ t.deferred = b.deferred
                          /\ s.first = t.first /\ s.waiting = t.waiting /\ s.last = t.last
                          /\ s.last \in Nat
           Once(k) == [k EXCEPT !.first = e, !.last = e]
           Waiting(k) == [k EXCEPT !.first = e, !.last = e, !.waiting = TRUE]
           Bonus(k) == [k EXCEPT !.bal = Capped(@ + 1), !.known = Capped(@ + 1),
                                 !.count = @ + 1, !.bonuses = @ \cup {e}]
<1>1. Level(a, b)
  BY DEF Streaks
<1>2. Level(Once(a), Once(b)) /\ Level(Waiting(a), Waiting(b))
  BY <1>1 DEF Apart, Whole, Parts
<1>3. Level(Bonus(a), Bonus(b))
  BY <1>1 DEF Apart, Whole, Parts
<1>4. ASSUME NEW s, NEW t, Level(s, t) PROVE Level(ResetStreak(s, e), ResetStreak(t, e))
  <2> DEFINE g == Greatest({s.last, e})
  <2>1. g \in Nat
    BY <1>4, GreaterOfTwo
  <2>2. /\ ResetStreak(s, e) = [s EXCEPT !.first = 0, !.waiting = FALSE, !.last = g]
        /\ ResetStreak(t, e) = [t EXCEPT !.first = 0, !.waiting = FALSE, !.last = g]
    BY <1>4 DEF ResetStreak
  <2> HIDE DEF g
  <2>3. Apart(ResetStreak(s, e), ResetStreak(t, e))
    BY <1>4, <2>2 DEF Apart, Whole, Parts
  <2>4. /\ ResetStreak(s, e).deferred = s.deferred /\ ResetStreak(t, e).deferred = t.deferred
        /\ ResetStreak(s, e).first = 0 /\ ResetStreak(t, e).first = 0
        /\ ResetStreak(s, e).waiting = FALSE /\ ResetStreak(t, e).waiting = FALSE
        /\ ResetStreak(s, e).last = g /\ ResetStreak(t, e).last = g
    BY <1>4, <2>2 DEF Apart, Whole, Parts
  <2> QED BY <1>4, <2>1, <2>3, <2>4
<1>5. /\ a.gone = b.gone /\ a.count = b.count /\ a.bal = b.bal /\ a.hold = b.hold
      /\ a.last = b.last /\ a.first = b.first
  BY <1>1, ApartParts
<1>6. Full(a) <=> Full(b)
  BY <1>5 DEF Full
<1>7. \A k, s : CountPass(k, s, e) =
         IF s.gone \/ e <= s.last THEN s
         ELSE IF Full(s) THEN ResetStreak(s, e)
         ELSE IF s.first = 0 THEN Once(s)
         ELSE IF Missing(k, s.first, e) THEN Waiting(s)
         ELSE ResetStreak(Bonus(s), e)
  BY DEF CountPass
<1> HIDE DEF Level, Once, Waiting, Bonus
<1>8. Level(p, q)
  <2>1. /\ Level(ResetStreak(a, e), ResetStreak(b, e))
        /\ Level(ResetStreak(Bonus(a), e), ResetStreak(Bonus(b), e))
    BY <1>1, <1>3, <1>4
  <2>2. Missing(c, a.first, e) <=> Missing(d, b.first, e)
    BY <1>5
  <2> QED BY <1>1, <1>2, <1>5, <1>6, <1>7, <2>1, <2>2
<1> HIDE DEF p, q
<1>9. Streaks(c, d, B, Q, p, q)
  BY <1>8 DEF Streaks, Level
<1> QED BY <1>8, <1>9 DEF Level, p, q

-----------------------------------------------------------------------------
(* d reads c's ledger, but its results without an effect are no passes. *)
Bared(c, d) ==
  /\ c.log = d.log /\ c.events = d.events /\ c.back = d.back /\ Entered(c.rows) = Entered(d.rows)
  /\ \A e \in Entered(c.rows) :
       /\ Neutral(c, e) <=> Neutral(d, e)
       /\ ~Neutral(c, e) => c.rows[e].res = d.rows[e].res /\ LaterCredit(c, e) = LaterCredit(d, e)
       /\ Neutral(c, e) => d.rows[e].res # "pass"

(* One event a result, and those that keep their exams' places in their exams' order. *)
Ordered(c) ==
  /\ IsHistory(c.events)
  /\ \A x \in c.events : x[2] \in {0, 1} /\ (x[2] = 1 => x[3] \in Entered(c.rows) /\ x[3] # 0)
  /\ \A x, y \in Results(c) : x[3] = y[3] => x = y
  /\ \A x, y, z \in Results(c) :
       /\ KeepsPlace(c, y[3]) /\ KeepsPlace(c, z[3]) /\ DayOf[z[3]] = DayOf[x[3]]
       /\ Before(x, y) /\ Before(y, z)
       => DayOf[y[3]] = DayOf[x[3]] /\ y[3] < z[3]

(* The events of E up to a moment. *)
Prefix(S, E) == S \in SUBSET E /\ \A x \in S, y \in E : Before(y, x) => y \in S

Passed(S) == {x[3] : x \in {y \in S : y[2] = 1}}

BreaksStreak(c, x) ==
  /\ x[2] = 1 /\ ~Neutral(c, x[3]) /\ c.rows[x[3]].res \notin {"cheat", "pass"}
  /\ ~(c.rows[x[3]].res \in Losses /\ x[3] \in Finals)

Breaks(c, S) == {x \in S : BreaksStreak(c, x)}

LEMMA EventsAreOrdered ==
  ASSUME NEW E, IsHistory(E), NEW x \in E, NEW y \in E
  PROVE  /\ x = y \/ Before(x, y) \/ Before(y, x)
         /\ ~(Before(x, y) /\ Before(y, x)) /\ ~Before(x, x)
         /\ \A z \in E : Before(x, y) /\ Before(y, z) => Before(x, z)
<1> DEFINE U == Nat \X Nat \X Nat
<1>1. \A s, t \in U : s = t \/ Before(s, t) \/ Before(t, s)
  BY DEF Before
<1>2. \A s, t \in U : ~(Before(s, t) /\ Before(t, s))
  BY DEF Before
<1>3. \A s, t, u \in U : Before(s, t) /\ Before(t, u) => Before(s, u)
  BY DEF Before
<1>4. E \subseteq U
  BY DEF IsHistory
<1> HIDE DEF U
<1> QED BY <1>1, <1>2, <1>3, <1>4

(* The pass a break waits for is the last of the late ones. *)
LEMMA BreakWaits ==
  ASSUME NEW c, Ordered(c), NEW k, k.events = c.events, NEW x
  PROVE  /\ LatePasses(k, x) = {} => BreakWaitsFor(k, x) = 0
         /\ LatePasses(k, x) # {} =>
              \E z \in LatePasses(k, x) :
                /\ BreakWaitsFor(k, x) = z[3]
                /\ \A y \in LatePasses(k, x) \ {z} : Before(y, z)
<1> DEFINE L == LatePasses(k, x)
<1>1. L \subseteq c.events
  BY DEF LatePasses
<1>2. IsFiniteSet(L) /\ L \subseteq Nat \X Nat \X Nat
  BY <1>1, FS_Subset DEF Ordered, IsHistory
<1>3. L # {} => Last(L) \in L /\ \A y \in L \ {Last(L)} : Before(y, Last(L))
  BY <1>2, LastIsIn
<1>4. BreakWaitsFor(k, x) = IF L = {} THEN 0 ELSE Last(L)[3]
  BY DEF BreakWaitsFor
<1> HIDE DEF L
<1> QED BY <1>3, <1>4 DEF L

LEMMA PassedOnce ==
  ASSUME NEW c, Ordered(c), NEW S \in SUBSET c.events, NEW z \in Results(c)
  PROVE  z[3] \in Passed(S) <=> z \in S
<1>1. z \in S => z[3] \in Passed(S)
  BY DEF Passed, Results
<1>2. ASSUME z[3] \in Passed(S) PROVE z \in S
  <2>1. PICK y \in S : y[2] = 1 /\ y[3] = z[3]
    BY <1>2 DEF Passed
  <2>2. y \in Results(c)
    BY <2>1 DEF Results
  <2> QED BY <2>1, <2>2 DEF Ordered
<1> QED BY <1>1, <1>2

LEMMA FewerLatePasses ==
  ASSUME NEW c, NEW d, Ordered(c), Bared(c, d), NEW x
  PROVE  /\ LatePasses(d, x) \subseteq LatePasses(c, x)
         /\ \A y \in LatePasses(c, x) : ~Neutral(c, y[3]) => y \in LatePasses(d, x)
         /\ \A y \in LatePasses(c, x) : y \in Results(c) /\ Before(x, y) /\ KeepsPlace(c, y[3])
<1>1. \A y \in Results(c) : y[3] \in Entered(c.rows)
  BY DEF Results, Ordered
<1>2. \A k : \A y : y \in LatePasses(k, x) <=>
             /\ y \in k.events /\ y[2] = 1 /\ y[3] < x[3] /\ DayOf[y[3]] = DayOf[x[3]]
             /\ k.rows[y[3]].res = "pass" /\ KeepsPlace(k, y[3]) /\ Before(x, y)
  BY DEF LatePasses
<1>3. \A y \in Results(c) :
        /\ d.rows[y[3]].res = "pass" => ~Neutral(c, y[3]) /\ c.rows[y[3]].res = "pass"
        /\ ~Neutral(c, y[3]) => c.rows[y[3]].res = d.rows[y[3]].res
  BY <1>1 DEF Bared
<1>4. \A k, e : k.rows[e].res = "pass" => KeepsPlace(k, e)
  BY DEF KeepsPlace
<1>5. c.events = d.events /\ \A y : y \in Results(c) <=> y \in c.events /\ y[2] = 1
  BY DEF Bared, Results
<1> QED BY <1>2, <1>3, <1>4, <1>5

(* What c has applied of the breaks, d has. *)
LEMMA PrefixAhead ==
  ASSUME NEW c, NEW d, Ordered(c), Bared(c, d), NEW S, Prefix(S, c.events), NEW x \in c.events
  PROVE  Out(d, Passed(S), x) => Out(c, Passed(S), x)
<1> SUFFICES ASSUME BreakWaitsFor(c, x) \in Passed(S) \cup {0}
             PROVE  BreakWaitsFor(d, x) \in Passed(S) \cup {0}
  BY DEF Out
<1>0. d.events = c.events /\ S \in SUBSET c.events
  BY DEF Bared, Prefix
<1>1. CASE LatePasses(d, x) = {}
  BY <1>0, <1>1, BreakWaits
<1>2. CASE LatePasses(d, x) # {}
  <2>1. LatePasses(c, x) # {} /\ LatePasses(d, x) \subseteq LatePasses(c, x)
    BY <1>2, FewerLatePasses
  <2>2. PICK z \in LatePasses(c, x) :
          BreakWaitsFor(c, x) = z[3] /\ \A y \in LatePasses(c, x) \ {z} : Before(y, z)
    BY <2>1, BreakWaits
  <2>3. PICK y \in LatePasses(d, x) : BreakWaitsFor(d, x) = y[3]
    BY <1>0, <1>2, BreakWaits
  <2>4. z \in Results(c) /\ y \in Results(c) /\ (y = z \/ Before(y, z))
    BY <2>1, <2>2, <2>3, FewerLatePasses
  <2>5. z[3] \in Passed(S)
    BY <2>2, <2>4 DEF Ordered, Results
  <2>6. z \in S
    BY <1>0, <2>4, <2>5, PassedOnce
  <2>7. y \in S
    BY <2>4, <2>6 DEF Prefix, Results
  <2> QED BY <1>0, <2>3, <2>4, <2>7, PassedOnce
<1> QED BY <1>1, <1>2

(* A break waits for a later pass. *)
LEMMA PrefixFresh ==
  ASSUME NEW c, Ordered(c), NEW k, k.events = c.events, NEW S, Prefix(S, c.events),
         NEW x \in c.events, x \notin S
  PROVE  BreakWaitsFor(k, x) \notin Passed(S)
<1>0. S \in SUBSET c.events
  BY DEF Prefix
<1>1. 0 \notin Passed(S)
  BY <1>0 DEF Passed, Ordered
<1>2. CASE LatePasses(k, x) = {}
  BY <1>1, <1>2, BreakWaits
<1>3. CASE LatePasses(k, x) # {}
  <2>1. PICK z \in LatePasses(k, x) : BreakWaitsFor(k, x) = z[3]
    BY <1>3, BreakWaits
  <2>2. z \in Results(c) /\ Before(x, z)
    BY <2>1 DEF LatePasses, Results
  <2>3. z \notin S
    BY <2>2 DEF Prefix
  <2> QED BY <1>0, <2>1, <2>2, <2>3, PassedOnce
<1> QED BY <1>2, <1>3

(* When a pass with an effect comes, d has applied no break that c has not: c *)
(* would wait for this pass or for one after it, and so would d. *)
LEMMA NoDebtAtPass ==
  ASSUME NEW c, NEW d, Ordered(c), Bared(c, d), NEW S, Prefix(S, c.events),
         NEW y \in Results(c), y \notin S, Prefix(S \cup {y}, c.events),
         ~Neutral(c, y[3]), c.rows[y[3]].res = "pass"
  PROVE  Debts(c, d, Breaks(c, S), Passed(S)) = {}
<1> SUFFICES ASSUME NEW x \in S, BreaksStreak(c, x), Out(c, Passed(S), x)
             PROVE  Out(d, Passed(S), x)
  BY DEF Debts, Breaks
<1>0. /\ d.events = c.events /\ S \in SUBSET c.events /\ IsHistory(c.events)
      /\ x \in Results(c) /\ y \in c.events /\ x \in c.events
  BY DEF Bared, Prefix, BreaksStreak, Results, Ordered
<1>1. LatePasses(c, x) # {}
  BY BreakWaits DEF Out
<1>2. PICK z \in LatePasses(c, x) : BreakWaitsFor(c, x) = z[3]
  BY <1>1, BreakWaits
<1>3. z \in Results(c) /\ Before(x, z) /\ KeepsPlace(c, z[3])
  BY <1>2, FewerLatePasses
<1>4. z \in c.events /\ z \notin S
  BY <1>0, <1>2, <1>3, PassedOnce DEF Out, Results
<1>5. Before(x, y)
  <2>1. x # y /\ ~Before(y, x)
    BY <1>0 DEF Prefix
  <2> QED BY <1>0, <2>1, EventsAreOrdered
<1>6. y \in LatePasses(d, x)
  <2>1. CASE y = z
    BY <1>2, <2>1, FewerLatePasses
  <2>2. CASE y # z
    <3>1. ~Before(z, y)
      BY <1>4, <2>2 DEF Prefix
    <3>2. Before(y, z)
      BY <1>0, <1>4, <2>2, <3>1, EventsAreOrdered
    <3>3. KeepsPlace(c, y[3])
      BY DEF KeepsPlace
    <3>4. DayOf[z[3]] = DayOf[x[3]] /\ z[3] < x[3]
      BY <1>2 DEF LatePasses
    <3>5. DayOf[y[3]] = DayOf[x[3]] /\ y[3] < z[3]
      BY <1>0, <1>3, <1>5, <3>2, <3>3, <3>4 DEF Ordered
    <3>6. x[3] \in Nat /\ y[3] \in Nat /\ z[3] \in Nat
      BY <1>0, <1>4 DEF IsHistory
    <3>7. y[3] < x[3]
      BY <3>4, <3>5, <3>6
    <3>8. y \in LatePasses(c, x)
      BY <1>0, <1>5, <3>3, <3>5, <3>7 DEF LatePasses, Results
    <3> QED BY <3>8, FewerLatePasses
  <2> QED BY <2>1, <2>2
<1>7. PICK w \in LatePasses(d, x) :
        BreakWaitsFor(d, x) = w[3] /\ \A v \in LatePasses(d, x) \ {w} : Before(v, w)
  BY <1>0, <1>6, BreakWaits
<1>8. w \in Results(c) /\ (y = w \/ Before(y, w))
  BY <1>6, <1>7, FewerLatePasses
<1>9. w \notin S
  BY <1>0, <1>8 DEF Prefix
<1>10. w[3] \notin Passed(S) /\ w[3] # 0
  BY <1>0, <1>8, <1>9, PassedOnce DEF Ordered, Results
<1> QED BY <1>7, <1>10 DEF Out

(***************************************************************************)
(* The replays of c and d after the events S.                              *)
(***************************************************************************)
Follow(c, d, S, a, b) == Apart(a, b) /\ Streaks(c, d, Breaks(c, S), Passed(S), a, b)

LEMMA FollowCommand ==
  ASSUME NEW c, NEW d, Bared(c, d), NEW S, NEW x, x[2] = 0, NEW a, NEW b, Follow(c, d, S, a, b)
  PROVE  Follow(c, d, S \cup {x}, ReplayEvent(c, a, x), ReplayEvent(d, b, x))
<1>1. Breaks(c, S \cup {x}) = Breaks(c, S) /\ Passed(S \cup {x}) = Passed(S)
  BY DEF Breaks, BreaksStreak, Passed
<1>2. Move(a, b, ReplayCommand(c, a, x[3]), ReplayCommand(d, b, x[3]))
  BY ApartCommand DEF Bared, Follow
<1>3. \A k, s : ReplayEvent(k, s, x) = ReplayCommand(k, s, x[3])
  BY DEF ReplayEvent
<1> QED BY <1>1, <1>2, <1>3, StreaksMove DEF Follow, Move

(* Lose is a break between steps that leave the streak. *)
LEMMA FollowLose ==
  ASSUME NEW c, NEW d, NEW B, NEW Q, NEW a, NEW b, Apart(a, b), Streaks(c, d, B, Q, a, b),
         NEW x, x[3] \in Nat, BreakWaitsFor(c, x) \notin Q, BreakWaitsFor(d, x) \notin Q,
         Out(d, Q, x) => Out(c, Q, x), \A y \in B : y[3] \in Nat,
         LaterCredit(c, x[3]) = LaterCredit(d, x[3])
  PROVE  LET p == Lose(c, a, x)
             q == Lose(d, b, x) IN
         Apart(p, q) /\ Streaks(c, d, B \cup {x}, Q, p, q)
<1> DEFINE e == x[3]
           n == PenaltyOf[e]
           Known(k, s) == IF s.gone \/ s.late = 0 \/ Omitted(k, s, e) THEN s.known ELSE Less(s.known, n)
           Saves(k, s) == IF s.shadow = 0 /\ s.bal > 0 /\ ~Introduced(k, s, e)
                          THEN s.saved \cup {e} ELSE s.saved
           Lost(s, known, saved) == [s EXCEPT !.bal = Less(@, n), !.shadow = Less(@, n),
                                              !.known = known, !.saved = saved]
           s == Knowing(c, a, e)
           t == Knowing(d, b, e)
           u == Lost(s, Known(c, s), Saves(c, s))
           v == Lost(t, Known(d, t), Saves(d, t))
           p == BreakStreak(c, u, x)
           q == BreakStreak(d, v, x)
           I(k, r) == r.bal = 0 /\ ~Introduced(k, r, e)
<1>1. ASSUME NEW credit, NEW known
      PROVE  Move(a, b, [a EXCEPT !.late = credit, !.known = known],
                        [b EXCEPT !.late = credit, !.known = known])
  BY DEF Move, SameStreak, Apart, Whole, Parts
<1>2. Move(a, b, s, t)
  BY <1>1, Stand, ApartParts DEF Knowing
<1>3. /\ Lose(c, a, x) = DismissIf(I(c, s), p, e)
      /\ Lose(d, b, x) = DismissIf(I(d, t), q, e)
  BY DEF Lose, LoseKnowing
<1> HIDE DEF s, t
<1>4. Apart(s, t)
  BY <1>2 DEF Move
<1>5. /\ s.gone = t.gone /\ s.late = t.late /\ s.known = t.known /\ s.shadow = t.shadow
      /\ s.bal = t.bal /\ s.saved = t.saved
  BY <1>4, ApartParts
<1>6. (Omitted(c, s, e) <=> Omitted(d, t, e)) /\ (Introduced(c, s, e) <=> Introduced(d, t, e))
  BY <1>5 DEF Omitted, Introduced
<1>7. Known(c, s) = Known(d, t) /\ Saves(c, s) = Saves(d, t) /\ (I(c, s) <=> I(d, t))
  BY <1>5, <1>6
<1> HIDE DEF Known, Saves, I, n
<1>8. Move(s, t, u, v)
  BY <1>4, <1>7 DEF Move, SameStreak, Apart, Whole, Parts
<1> HIDE DEF u, v
<1>9. Move(a, b, u, v)
  BY <1>2, <1>8, MoveTwice
<1>10. Apart(u, v) /\ Streaks(c, d, B, Q, u, v)
  BY <1>9, StreaksMove DEF Move
<1>11. Apart(p, q) /\ Streaks(c, d, B \cup {x}, Q, p, q)
  BY <1>10, StreaksBroken
<1> HIDE DEF p, q
<1>12. Move(p, q, DismissAt(p, 60, "loss", e), DismissAt(q, 60, "loss", e))
  BY <1>11, ApartDismissAt
<1>13. LET P == DismissAt(p, 60, "loss", e)
           R == DismissAt(q, 60, "loss", e) IN
       Apart(P, R) /\ Streaks(c, d, B \cup {x}, Q, P, R)
  BY <1>11, <1>12, StreaksMove DEF Move
<1> QED BY <1>3, <1>7, <1>11, <1>13 DEF DismissIf

LEMMA FollowResult ==
  ASSUME NEW c, NEW d, Ordered(c), Bared(c, d), NEW S, Prefix(S, c.events),
         NEW x \in Results(c), x \notin S, Prefix(S \cup {x}, c.events),
         NEW a, NEW b, Follow(c, d, S, a, b)
  PROVE  LET p == ReplayResult(c, a, x)
             q == ReplayResult(d, b, x) IN
         Apart(p, q) /\ Streaks(c, d, Breaks(c, S \cup {x}), Passed(S), p, q)
<1> DEFINE e == x[3]
           B == Breaks(c, S)
           Q == Passed(S)
           p == ReplayResult(c, a, x)
           q == ReplayResult(d, b, x)
           res == c.rows[e].res
<1> SUFFICES Apart(p, q) /\ Streaks(c, d, Breaks(c, S \cup {x}), Q, p, q)
  OBVIOUS
<1>0. /\ x \in c.events /\ x[2] = 1 /\ e \in Entered(c.rows) /\ S \in SUBSET c.events
      /\ d.events = c.events /\ IsHistory(c.events)
  BY DEF Results, Ordered, Prefix, Bared
<1>1. e \in Nat /\ \A y \in B : y[3] \in Nat
  BY <1>0 DEF IsHistory, Breaks
<1>2. BreakWaitsFor(c, x) \notin Q /\ BreakWaitsFor(d, x) \notin Q
  BY <1>0, PrefixFresh
<1>3. Out(d, Q, x) => Out(c, Q, x)
  BY <1>0, PrefixAhead
<1>4. Apart(a, b) /\ Streaks(c, d, B, Q, a, b)
  BY DEF Follow
<1>5. Neutral(c, e) <=> Neutral(d, e)
  BY <1>0 DEF Bared
<1>6. ~Neutral(c, e) => d.rows[e].res = res /\ LaterCredit(c, e) = LaterCredit(d, e)
  BY <1>0 DEF Bared
<1>7. Breaks(c, S \cup {x}) = IF BreaksStreak(c, x) THEN B \cup {x} ELSE B
  BY DEF Breaks
<1>8. ASSUME ~BreaksStreak(c, x), Move(a, b, p, q)
      PROVE  Apart(p, q) /\ Streaks(c, d, Breaks(c, S \cup {x}), Q, p, q)
  BY <1>4, <1>7, <1>8, StreaksMove DEF Move
<1>9. \A k, s : ReplayResult(k, s, x) =
        IF Neutral(k, e) THEN s
        ELSE IF k.rows[e].res = "cheat" THEN Cheat(s, e)
        ELSE IF k.rows[e].res \in Losses
             THEN IF e \in Finals THEN DismissAt(s, 75, "final", e) ELSE Lose(k, s, x)
        ELSE IF k.rows[e].res = "pass" THEN CountPass(k, s, e)
        ELSE BreakStreak(k, s, x)
  BY DEF ReplayResult
<1> HIDE DEF p, q, B, Q
<1>10. CASE Neutral(c, e)
  <2>1. p = a /\ q = b /\ ~BreaksStreak(c, x)
    BY <1>5, <1>9, <1>10 DEF p, q, BreaksStreak
  <2>2. Move(a, b, p, q)
    BY <1>4, <2>1, Stand
  <2> QED BY <1>8, <2>1, <2>2
<1>11. CASE ~Neutral(c, e) /\ res = "cheat"
  <2>1. p = Cheat(a, e) /\ q = Cheat(b, e) /\ ~BreaksStreak(c, x)
    BY <1>5, <1>6, <1>9, <1>11 DEF p, q, BreaksStreak
  <2>2. Move(a, b, p, q)
    BY <1>4, <2>1, ApartCheat
  <2> QED BY <1>8, <2>1, <2>2
<1>12. CASE ~Neutral(c, e) /\ res \in Losses /\ e \in Finals
  <2>1. p = DismissAt(a, 75, "final", e) /\ q = DismissAt(b, 75, "final", e)
        /\ ~BreaksStreak(c, x)
    BY <1>5, <1>6, <1>9, <1>12 DEF p, q, BreaksStreak, Losses
  <2>2. Move(a, b, p, q)
    BY <1>4, <2>1, ApartDismissAt
  <2> QED BY <1>8, <2>1, <2>2
<1>13. CASE ~Neutral(c, e) /\ res \in Losses /\ e \notin Finals
  <2>1. p = Lose(c, a, x) /\ q = Lose(d, b, x) /\ BreaksStreak(c, x)
    BY <1>0, <1>5, <1>6, <1>9, <1>13 DEF p, q, BreaksStreak, Losses
  <2>2. Apart(p, q) /\ Streaks(c, d, B \cup {x}, Q, p, q)
    BY <1>1, <1>2, <1>3, <1>4, <1>6, <1>13, <2>1, FollowLose
  <2> QED BY <1>7, <2>1, <2>2
<1>14. CASE ~Neutral(c, e) /\ res = "pass"
  <2>1. p = CountPass(c, a, e) /\ q = CountPass(d, b, e) /\ ~BreaksStreak(c, x)
    BY <1>5, <1>6, <1>9, <1>14 DEF p, q, BreaksStreak, Losses
  <2>2. Debts(c, d, B, Q) = {}
    BY <1>14, NoDebtAtPass DEF B, Q
  <2>3. \A m, n : Missing(c, m, n) <=> Missing(d, m, n)
    BY DEF Missing, Bared
  <2>4. Apart(p, q) /\ Streaks(c, d, B, Q, p, q)
    BY <1>1, <1>4, <2>1, <2>2, <2>3, StreaksCounted
  <2> QED BY <1>7, <2>1, <2>4
<1>15. CASE ~Neutral(c, e) /\ res \notin {"cheat", "pass"} \cup Losses
  <2>1. p = BreakStreak(c, a, x) /\ q = BreakStreak(d, b, x) /\ BreaksStreak(c, x)
    BY <1>0, <1>5, <1>6, <1>9, <1>15 DEF p, q, BreaksStreak
  <2>2. Apart(p, q) /\ Streaks(c, d, B \cup {x}, Q, p, q)
    BY <1>1, <1>2, <1>3, <1>4, <2>1, StreaksBroken
  <2> QED BY <1>7, <2>1, <2>2
<1> QED BY <1>10, <1>11, <1>12, <1>13, <1>14, <1>15

LEMMA FollowEvent ==
  ASSUME NEW c, NEW d, Ordered(c), Bared(c, d), NEW S, Prefix(S, c.events),
         NEW x \in c.events, x \notin S, Prefix(S \cup {x}, c.events),
         NEW a, NEW b, Follow(c, d, S, a, b)
  PROVE  Follow(c, d, S \cup {x}, ReplayEvent(c, a, x), ReplayEvent(d, b, x))
<1>0. x[2] \in {0, 1}
  BY DEF Ordered
<1>1. CASE x[2] = 0
  BY <1>1, FollowCommand
<1>2. CASE x[2] = 1
  <2> DEFINE f == x[3]
             B == Breaks(c, S \cup {x})
             Q == Passed(S)
             p == ReplayResult(c, a, x)
             q == ReplayResult(d, b, x)
  <2>1. x \in Results(c) /\ f # 0
    BY <1>2 DEF Results, Ordered
  <2>2. Apart(p, q) /\ Streaks(c, d, B, Q, p, q)
    BY <2>1, FollowResult
  <2>3. /\ B \subseteq c.events /\ S \in SUBSET c.events /\ IsFiniteSet(B)
        /\ \A y \in B : y[3] \in Nat
    <3>1. B \subseteq c.events /\ S \in SUBSET c.events
      BY DEF Breaks, Prefix
    <3>2. IsFiniteSet(B)
      BY <3>1, FS_Subset DEF Ordered, IsHistory
    <3> QED BY <3>1, <3>2 DEF Ordered, IsHistory
  <2>4. f \notin Q
    BY <2>1, <2>3, PassedOnce
  <2>5. Passed(S \cup {x}) = Q \cup {f}
    BY <1>2 DEF Passed
  <2>6. Ahead(c, d, B, Q) /\ Ahead(c, d, B, Q \cup {f})
    <3>1. \A y \in B : y \in c.events
      BY <2>3
    <3>2. Ahead(c, d, B, Q)
      BY <3>1, PrefixAhead DEF Ahead
    <3>3. Ahead(c, d, B, Passed(S \cup {x}))
      BY <3>1, PrefixAhead DEF Ahead
    <3> QED BY <2>5, <3>2, <3>3
  <2>7. /\ ReplayEvent(c, a, x) = ApplyDeferred(p, f)
        /\ ReplayEvent(d, b, x) = ApplyDeferred(q, f)
    BY <1>2 DEF ReplayEvent
  <2> HIDE DEF p, q, B, Q, f
  <2>8. /\ Apart(ApplyDeferred(p, f), ApplyDeferred(q, f))
        /\ Streaks(c, d, B, Q \cup {f}, ApplyDeferred(p, f), ApplyDeferred(q, f))
    BY <2>1, <2>2, <2>3, <2>4, <2>6, StreaksApplied
  <2> QED BY <2>5, <2>7, <2>8 DEF Follow, B
<1> QED BY <1>0, <1>1, <1>2

(* What is up to a moment is so without its last event. *)
LEMMA PrefixWithoutLast ==
  ASSUME NEW E, IsHistory(E), NEW S, Prefix(S, E), S # {}
  PROVE  /\ Prefix(S \ {Last(S)}, E) /\ Last(S) \in S /\ S \in SUBSET E
         /\ \A y \in S \ {Last(S)} : Before(y, Last(S))
<1> DEFINE x == Last(S)
           R == S \ {x}
<1>1. S \in SUBSET E /\ x \in S /\ x \in E /\ \A y \in R : Before(y, x)
  BY FS_Subset, LastIsIn DEF IsHistory, Prefix
<1> HIDE DEF x
<1>2. ASSUME NEW u \in R, NEW v \in E, Before(v, u) PROVE v \in R
  <2>1. v \in S
    BY <1>2 DEF Prefix
  <2>2. ~Before(x, u)
    BY <1>1, <1>2, EventsAreOrdered
  <2> QED BY <1>2, <2>1, <2>2
<1>3. Prefix(R, E)
  BY <1>1, <1>2 DEF Prefix
<1> QED BY <1>1, <1>3 DEF x

LEMMA BaredFollow ==
  ASSUME NEW c, NEW d, Ordered(c), Bared(c, d), NEW s, Beginning(c, s) = Beginning(d, s),
         Beginning(c, s).last \in Nat, NEW f, Replays(c, s, f, SUBSET c.events),
         NEW g, Replays(d, s, g, SUBSET c.events)
  PROVE  \A S \in SUBSET c.events : Prefix(S, c.events) => Follow(c, d, S, f[S], g[S])
<1> DEFINE E == c.events
           G == {S \in SUBSET E : Prefix(S, E) => Follow(c, d, S, f[S], g[S])}
<1>0. IsHistory(E) /\ d.events = E
  BY DEF Ordered, Bared
<1>1. {} \in G
  <2> DEFINE b == Beginning(c, s)
  <2>1. f[{}] = b /\ g[{}] = b
    BY DEF Replays
  <2>2. Whole(b) /\ b.deferred = {} /\ b.last \in Nat
    BY DEF Beginning, Whole, Parts
  <2> HIDE DEF b
  <2>3. Breaks(c, {}) = {} /\ Passed({}) = {}
    BY DEF Breaks, Passed
  <2>4. Waits(c, {}, {}) = {} /\ Waits(d, {}, {}) = {} /\ Debts(c, d, {}, {}) = {}
    BY DEF Waits, Debts
  <2>5. Apart(b, b) /\ Streaks(c, d, {}, {}, b, b)
    BY <2>2, <2>4 DEF Apart, Streaks
  <2> QED BY <2>1, <2>3, <2>5 DEF Follow
<1>2. ASSUME NEW S \in SUBSET E, S # {}, S \ {Last(S)} \in G PROVE S \in G
  <2> SUFFICES ASSUME Prefix(S, E) PROVE Follow(c, d, S, f[S], g[S])
    OBVIOUS
  <2> DEFINE x == Last(S)
             R == S \ {x}
  <2>1. Prefix(R, E) /\ x \in S /\ x \in E
    BY <1>0, <1>2, PrefixWithoutLast
  <2>2. /\ f[S] = ReplayEvent(c, f[R], x)
        /\ g[S] = ReplayEvent(d, g[R], x)
    BY <1>2 DEF Replays
  <2>3. Follow(c, d, R, f[R], g[R])
    BY <1>2, <2>1
  <2> HIDE DEF x
  <2>4. R \cup {x} = S /\ x \notin R
    BY <2>1
  <2> HIDE DEF R, E, G
  <2>5. Follow(c, d, R \cup {x}, ReplayEvent(c, f[R], x), ReplayEvent(d, g[R], x))
    BY <2>1, <2>3, <2>4, FollowEvent DEF E
  <2> QED BY <2>2, <2>4, <2>5
<1>3. SUBSET E \subseteq G
  <2> HIDE DEF G
  <2> QED BY <1>0, <1>1, <1>2, HistoryInduction
<1> QED BY <1>3

LEMMA BaredRuns ==
  ASSUME NEW c, NEW d, Ordered(c), Bared(c, d), NEW s, Beginning(c, s) = Beginning(d, s),
         Beginning(c, s).last \in Nat
  PROVE  Run(c, s) = Run(d, s)
<1> DEFINE E == c.events
<1>0. IsHistory(E) /\ d.events = E
  BY DEF Ordered, Bared
<1>1. PICK f : Replays(c, s, f, SUBSET E) /\ Run(c, s) = f[E]
  BY <1>0, RunReplays
<1>2. PICK g : Replays(d, s, g, SUBSET E) /\ Run(d, s) = g[E]
  BY <1>0, RunReplays
<1>5. \A S \in SUBSET E : Prefix(S, E) => Follow(c, d, S, f[S], g[S])
  BY <1>1, <1>2, BaredFollow
<1>6. Prefix(E, E)
  BY DEF Prefix
<1>7. Follow(c, d, E, f[E], g[E])
  BY <1>5, <1>6
<1> DEFINE a == f[E]
           b == g[E]
<1>8. \A k \in {c, d} : \A x \in Breaks(c, E) : ~Out(k, Passed(E), x)
  <2> SUFFICES ASSUME NEW k \in {c, d}, NEW x \in Breaks(c, E)
               PROVE  BreakWaitsFor(k, x) \in Passed(E) \cup {0}
    BY DEF Out
  <2>1. k.events = E
    BY <1>0
  <2>2. CASE LatePasses(k, x) = {}
    BY <2>1, <2>2, BreakWaits
  <2>3. CASE LatePasses(k, x) # {}
    <3>1. PICK z \in LatePasses(k, x) : BreakWaitsFor(k, x) = z[3]
      BY <2>1, <2>3, BreakWaits
    <3>2. z \in E /\ z[2] = 1
      BY <2>1 DEF LatePasses
    <3> QED BY <3>1, <3>2 DEF Passed
  <2> QED BY <2>2, <2>3
<1>9. Waits(c, Breaks(c, E), Passed(E)) = {} /\ Waits(d, Breaks(c, E), Passed(E)) = {}
      /\ Debts(c, d, Breaks(c, E), Passed(E)) = {}
  BY <1>8 DEF Waits, Debts
<1> HIDE DEF E
<1>10. Apart(a, b) /\ a.deferred = b.deferred /\ a.last = b.last /\ a.first = b.first
       /\ a.waiting = b.waiting
  BY <1>7, <1>9 DEF Follow, Streaks
<1> HIDE DEF a, b
<1>11. \A p \in Parts : a[p] = b[p]
  BY <1>10 DEF Apart
<1>12. a = b
  BY <1>10, <1>11 DEF Apart, Whole
<1> QED BY <1>1, <1>2, <1>12 DEF a, b, E

-----------------------------------------------------------------------------
(* The order of a ledger *)

LEMMA DayBounds ==
  ASSUME NEW t \in Nat, NEW n \in Nat \ {0}
  PROVE  t \div n \in Nat /\ (t \div n) * n <= t /\ t < (t \div n) * n + n
OBVIOUS

LEMMA DaysPass ==
  ASSUME ReplayAssumption, NEW s \in Nat, NEW t \in Nat, s <= t
  PROVE  Day(s) <= Day(t)
<1> DEFINE n == DayLength
           p == s \div n
           q == t \div n
<1>1. n \in Nat \ {0}
  BY DEF ReplayAssumption
<1>2. p \in Nat /\ q \in Nat /\ p * n <= s /\ t < q * n + n
  BY <1>1, DayBounds
<1> HIDE DEF p, q, n
<1>3. ASSUME p > q PROVE FALSE
  <2>1. PICK k \in Nat : p = q + 1 + k
    BY <1>2, <1>3
  <2>2. p * n = q * n + n + k * n
    BY <1>1, <1>2, <2>1
  <2>3. k * n \in Nat /\ q * n \in Nat
    BY <1>1, <1>2
  <2> QED BY <1>1, <1>2, <2>2, <2>3
<1> QED BY <1>2, <1>3 DEF Day, p, q, n

LEMMA ExamsMoment ==
  ASSUME ReplayAssumption, NEW e \in Exams
  PROVE  At(e) \in Nat /\ Day(At(e)) = DayOf[e]
<1> DEFINE d == DayOf[e]
           n == DayLength
<1>1. d \in Nat /\ n \in Nat \ {0}
  BY DEF ReplayAssumption
<1>2. At(e) = d * n /\ Day(At(e)) = (d * n) \div n
  BY DEF At, Day
<1> HIDE DEF d, n
<1>3. (d * n) \div n = d /\ d * n \in Nat
  BY <1>1
<1> QED BY <1>2, <1>3 DEF d

LEMMA OwnTimeIsOfDay ==
  ASSUME NEW rows, NEW log, IsLedger(rows, log), NEW e \in Entered(rows)
  PROVE  LET t == OwnTime(Context(rows, log), e) IN t \in Nat /\ Day(t) = DayOf[e]
<1> DEFINE c == Context(rows, log)
           F == {t \in c.credits : t > At(e) /\ t <= c.rows[e].at /\ Day(t) = DayOf[e]}
           T == {At(e)} \cup F
<1>1. c.rows = rows /\ c.credits = Credits(log)
  BY DEF Context
<1>2. OwnTime(c, e) = IF KeepsPlace(c, e) THEN At(e) ELSE Greatest(T)
  BY DEF OwnTime
<1> HIDE DEF c
<1>3. At(e) \in Nat /\ Day(At(e)) = DayOf[e]
  BY ReplayAssumption, ExamsMoment DEF Entered
<1>4. IsFiniteSet(F) /\ F \subseteq Nat
  BY <1>1, CreditsAreMoments, FS_Subset DEF IsLedger
<1>5. \A t \in T : Day(t) = DayOf[e]
  BY <1>3
<1>6. T = F \cup {At(e)}
  OBVIOUS
<1> HIDE DEF F
<1>7. IsFiniteSet(T) /\ T \subseteq Nat /\ T # {}
  BY <1>3, <1>4, <1>6, FS_AddElement
<1> HIDE DEF T
<1>8. Greatest(T) \in T
  BY <1>7, GreatestIsIn
<1> QED BY <1>2, <1>3, <1>5, <1>7, <1>8 DEF c

(* A result that keeps its exam's place stands at the latest time of its own of the *)
(* results of that day up to it. *)
LEMMA LedgerTimeIsGreatest ==
  ASSUME NEW rows, NEW log, IsLedger(rows, log), NEW e \in Entered(rows)
  PROVE  LET c == Context(rows, log) IN
         IF KeepsPlace(c, e)
         THEN /\ \E g \in Entered(rows) :
                   g <= e /\ DayOf[g] = DayOf[e] /\ LedgerTime(c, e) = OwnTime(c, g)
              /\ \A g \in Entered(rows) :
                   g <= e /\ DayOf[g] = DayOf[e] => OwnTime(c, g) <= LedgerTime(c, e)
         ELSE LedgerTime(c, e) = OwnTime(c, e)
<1> DEFINE c == Context(rows, log)
           G == {g \in Entered(c.rows) : g <= e /\ DayOf[g] = DayOf[e]}
           T == {OwnTime(c, g) : g \in G}
<1>1. c.rows = rows
  BY DEF Context
<1>2. LedgerTime(c, e) = IF KeepsPlace(c, e) THEN Greatest(T) ELSE OwnTime(c, e)
  BY DEF LedgerTime
<1>3. \A x \in Entered(rows) : OwnTime(c, x) \in Nat
  BY OwnTimeIsOfDay
<1>4. Entered(rows) \subseteq Exams /\ Exams \subseteq Nat
  BY ReplayAssumption, ExamsAreNumbers DEF Entered
<1> HIDE DEF c
<1>5. e \in G /\ G \subseteq Entered(rows) /\ IsFiniteSet(G)
  <2>0. e \in Nat
    BY <1>4
  <2>1. e \in G /\ G \subseteq Entered(rows)
    BY <1>1, <2>0
  <2>2. IsFiniteSet(Exams) /\ G \subseteq Exams
    BY <1>4, <2>1, ReplayAssumption DEF ReplayAssumption
  <2> HIDE DEF G
  <2> QED BY <2>1, <2>2, FS_Subset
<1> DEFINE h == [g \in G |-> OwnTime(c, g)]
<1>6. T = {h[g] : g \in G}
  OBVIOUS
<1>7. T \subseteq Nat /\ T # {} /\ \A g \in G : OwnTime(c, g) \in T
  BY <1>3, <1>5
<1>8. \A t \in T : \E g \in G : t = OwnTime(c, g)
  OBVIOUS
<1> HIDE DEF T, h
<1>9. IsFiniteSet(T)
  BY <1>5, <1>6, ImageIsFinite
<1>10. Greatest(T) \in T /\ \A t \in T : Greatest(T) >= t
  BY <1>7, <1>9, GreatestIsIn
<1>11. \A g \in G : OwnTime(c, g) <= Greatest(T)
  BY <1>3, <1>5, <1>7, <1>10
<1>12. PICK k \in G : Greatest(T) = OwnTime(c, k)
  BY <1>8, <1>10
<1> QED BY <1>1, <1>2, <1>11, <1>12 DEF c

(* A result stands on its exam's day, after the results of that day it may not pass. *)
LEMMA LedgerTimeIsOfDay ==
  ASSUME NEW rows, NEW log, IsLedger(rows, log), NEW e \in Entered(rows)
  PROVE  LET c == Context(rows, log) IN
         /\ LedgerTime(c, e) \in Nat /\ Day(LedgerTime(c, e)) = DayOf[e]
         /\ KeepsPlace(c, e) =>
              \A g \in Entered(rows) : KeepsPlace(c, g) /\ g <= e /\ DayOf[g] = DayOf[e]
                                         => LedgerTime(c, g) <= LedgerTime(c, e)
<1> DEFINE c == Context(rows, log)
           Standing(x) ==
             /\ \E g \in Entered(rows) :
                  g <= x /\ DayOf[g] = DayOf[x] /\ LedgerTime(c, x) = OwnTime(c, g)
             /\ \A g \in Entered(rows) :
                  g <= x /\ DayOf[g] = DayOf[x] => OwnTime(c, g) <= LedgerTime(c, x)
<1>1. \A x \in Entered(rows) :
        IF KeepsPlace(c, x) THEN Standing(x) ELSE LedgerTime(c, x) = OwnTime(c, x)
  BY LedgerTimeIsGreatest
<1>2. \A x \in Entered(rows) : OwnTime(c, x) \in Nat /\ Day(OwnTime(c, x)) = DayOf[x] /\ x \in Nat
  BY OwnTimeIsOfDay, ReplayAssumption, ExamsAreNumbers DEF Entered
<1> HIDE DEF c
<1>3. LedgerTime(c, e) \in Nat /\ Day(LedgerTime(c, e)) = DayOf[e]
  BY <1>1, <1>2
<1>4. ASSUME KeepsPlace(c, e), NEW g \in Entered(rows), KeepsPlace(c, g), g <= e, DayOf[g] = DayOf[e]
      PROVE  LedgerTime(c, g) <= LedgerTime(c, e)
  <2>1. PICK k \in Entered(rows) : k <= g /\ DayOf[k] = DayOf[g] /\ LedgerTime(c, g) = OwnTime(c, k)
    BY <1>1, <1>4
  <2>2. k <= e
    BY <1>2, <1>4, <2>1
  <2> QED BY <1>1, <1>4, <2>1, <2>2
<1> QED BY <1>3, <1>4 DEF c

LEMMA LedgerIsOrdered ==
  ASSUME NEW rows, NEW log, IsLedger(rows, log)
  PROVE  Ordered(WithEvents(Context(rows, log)))
<1> DEFINE b == Context(rows, log)
           c == WithEvents(b)
<1>1. /\ IsHistory(c.events) /\ c.rows = rows /\ c.open = Opening(log) /\ c.back = ReturnDay(log)
      /\ \A x \in c.events : x[2] # 0 => x[3] \in Entered(rows)
  BY LedgerIsHistory
<1>2. /\ b.rows = rows /\ b.log = log /\ b.open = Opening(log) /\ b.back = ReturnDay(log)
      /\ c.events = CommandEvents(b) \cup ResultEvents(b)
  BY DEF WithEvents, Context
<1>3. \A e \in Entered(rows) :
        /\ LedgerTime(b, e) \in Nat /\ Day(LedgerTime(b, e)) = DayOf[e]
        /\ KeepsPlace(b, e) =>
             \A g \in Entered(rows) : KeepsPlace(b, g) /\ g <= e /\ DayOf[g] = DayOf[e]
                                        => LedgerTime(b, g) <= LedgerTime(b, e)
  BY LedgerTimeIsOfDay
<1> HIDE DEF b, c
<1>4. \A e : KeepsPlace(c, e) <=> KeepsPlace(b, e)
  BY <1>1, <1>2 DEF KeepsPlace, Neutral
<1>5. \A x \in CommandEvents(b) : x[2] = 0
  BY DEF CommandEvents
<1>6. \A x \in ResultEvents(b) : x[2] = 1 /\ x[3] \in Entered(rows) /\ x = <<LedgerTime(b, x[3]), 1, x[3]>>
  BY <1>2 DEF ResultEvents
<1>7. Results(c) \subseteq ResultEvents(b)
  BY <1>2, <1>5 DEF Results
<1>8. \A e \in Entered(rows) : e \in Nat \ {0}
  BY ReplayAssumption, FS_CardinalityType DEF Entered, ReplayAssumption
<1>9. \A x \in c.events : x[2] \in {0, 1} /\ (x[2] = 1 => x[3] \in Entered(c.rows) /\ x[3] # 0)
  BY <1>1, <1>2, <1>5, <1>6, <1>8
<1>10. \A x, y \in Results(c) : x[3] = y[3] => x = y
  BY <1>6, <1>7
<1>11. ASSUME NEW x \in Results(c), NEW y \in Results(c), NEW z \in Results(c),
              KeepsPlace(c, y[3]), KeepsPlace(c, z[3]), DayOf[z[3]] = DayOf[x[3]],
              Before(x, y), Before(y, z)
       PROVE  DayOf[y[3]] = DayOf[x[3]] /\ y[3] < z[3]
  <2> DEFINE f == x[3]
             g == y[3]
             h == z[3]
             T(e) == LedgerTime(b, e)
  <2>1. /\ f \in Entered(rows) /\ g \in Entered(rows) /\ h \in Entered(rows)
        /\ x = <<T(f), 1, f>> /\ y = <<T(g), 1, g>> /\ z = <<T(h), 1, h>>
    BY <1>6, <1>7
  <2>2. /\ T(f) \in Nat /\ T(g) \in Nat /\ T(h) \in Nat /\ f \in Nat /\ g \in Nat /\ h \in Nat
        /\ Day(T(f)) = DayOf[f] /\ Day(T(g)) = DayOf[g] /\ Day(T(h)) = DayOf[h]
    BY <1>3, <1>8, <2>1
  <2>3. x[1] = T(f) /\ y[1] = T(g) /\ z[1] = T(h) /\ y[2] = 1 /\ z[2] = 1 /\ x[2] = 1
    BY <2>1
  <2> HIDE DEF T
  <2>4. T(f) <= T(g) /\ T(g) <= T(h) /\ (T(g) = T(h) => g < h)
    BY <1>11, <2>2, <2>3 DEF Before
  <2>5. Day(T(f)) <= Day(T(g)) /\ Day(T(g)) <= Day(T(h))
    BY <2>2, <2>4, ReplayAssumption, DaysPass
  <2>6. \A e \in Entered(rows) : DayOf[e] \in Nat
    BY ReplayAssumption DEF Entered, ReplayAssumption
  <2>7. DayOf[g] = DayOf[f] /\ DayOf[h] = DayOf[g]
    BY <1>11, <2>1, <2>2, <2>5, <2>6
  <2>8. KeepsPlace(b, g) /\ KeepsPlace(b, h)
    BY <1>4, <1>11
  <2>9. h <= g => T(h) <= T(g)
    BY <1>3, <2>1, <2>7, <2>8 DEF T
  <2> QED BY <2>2, <2>4, <2>7, <2>9
<1>12. Ordered(c)
  BY <1>1, <1>9, <1>10, <1>11 DEF Ordered
<1> QED BY <1>12 DEF c, b

(* The results without an effect, as failed tests nobody counts. *)
Bare(rows, log) ==
  [e \in Exams |->
     IF e \in Entered(rows) /\ Neutral(Context(rows, log), e)
     THEN [rows[e] EXCEPT !.res = "weak", !.excl = TRUE] ELSE rows[e]]

LEMMA BareRows ==
  ASSUME NEW rows, NEW log, IsLedger(rows, log)
  PROVE  LET bare == Bare(rows, log)
             c == Context(rows, log) IN
         /\ IsLedger(bare, log) /\ Entered(bare) = Entered(rows)
         /\ \A e \in Exams : bare[e].at = rows[e].at
         /\ \A e \in Entered(rows) : ~Neutral(c, e) => bare[e] = rows[e]
         /\ \A e \in Entered(rows) : Neutral(c, e) => bare[e].res = "weak" /\ bare[e].excl
<1> DEFINE bare == Bare(rows, log)
           c == Context(rows, log)
<1>1. /\ bare \in [Exams -> Row]
      /\ \A e \in Exams : bare[e].at = rows[e].at /\ (bare[e].res = "none" <=> rows[e].res = "none")
      /\ \A e \in Entered(rows) : ~Neutral(c, e) => bare[e] = rows[e]
      /\ \A e \in Entered(rows) : Neutral(c, e) => bare[e].res = "weak" /\ bare[e].excl
  BY DEF Bare, IsLedger, Row, Entered, Scores
<1> HIDE DEF bare, c
<1>2. Entered(bare) = Entered(rows)
  BY <1>1 DEF Entered
<1>3. IsLedger(bare, log)
  BY <1>1 DEF IsLedger
<1> QED BY <1>1, <1>2, <1>3 DEF bare, c

(* A replay begins after the exams of the days before it. *)
LEMMA BeginningLast ==
  ASSUME NEW c, NEW s
  PROVE  Beginning(c, s).last \in Nat
<1> DEFINE P(from) == {e \in Exams : DayOf[e] < from}
           Z(from) == {0} \cup P(from)
<1>1. ASSUME NEW from PROVE Greatest(Z(from)) \in Nat
  <2>1. IsFiniteSet(P(from)) /\ P(from) \subseteq Nat
    BY ReplayAssumption, ExamsAreNumbers, FS_Subset DEF ReplayAssumption
  <2>2. Z(from) = P(from) \cup {0}
    OBVIOUS
  <2> HIDE DEF P
  <2>3. IsFiniteSet(Z(from)) /\ Z(from) \subseteq Nat /\ Z(from) # {}
    BY <2>1, <2>2, FS_AddElement
  <2> HIDE DEF Z
  <2> QED BY <2>3, GreatestIsIn
<1>2. Beginning(c, s).last = Greatest(Z(Greatest({c.back, Day(c.open.at)})))
  BY DEF Beginning
<1> QED BY <1>1, <1>2

(* They stand where they stood. *)
LEMMA BareTimes ==
  ASSUME NEW rows, NEW log, IsLedger(rows, log), NEW f \in Entered(rows)
  PROVE  LET b == Context(rows, log)
             m == Context(Bare(rows, log), log) IN
         /\ (Neutral(b, f) <=> Neutral(m, f)) /\ LedgerTime(b, f) = LedgerTime(m, f)
         /\ OwnTime(b, f) = OwnTime(m, f) /\ LaterCredit(b, f) = LaterCredit(m, f)
<1> DEFINE bare == Bare(rows, log)
           b == Context(rows, log)
           m == Context(bare, log)
<1>1. /\ Entered(bare) = Entered(rows) /\ Entered(rows) \subseteq Exams
      /\ \A e \in Exams : bare[e].at = rows[e].at
      /\ \A e \in Entered(rows) : ~Neutral(b, e) => bare[e] = rows[e]
      /\ \A e \in Entered(rows) : Neutral(b, e) => bare[e].res = "weak" /\ bare[e].excl
  BY BareRows DEF Entered
<1>2. /\ b.rows = rows /\ b.open = Opening(log) /\ b.back = ReturnDay(log) /\ b.credits = Credits(log)
      /\ m.rows = bare /\ m.open = Opening(log) /\ m.back = ReturnDay(log) /\ m.credits = Credits(log)
  BY DEF Context
<1> HIDE DEF bare, b, m
<1>3. \A e \in Entered(rows) : Neutral(b, e) <=> Neutral(m, e)
  BY <1>1, <1>2 DEF Neutral
<1>4. \A e \in Entered(rows) : KeepsPlace(b, e) <=> KeepsPlace(m, e)
  BY <1>1, <1>2, <1>3 DEF KeepsPlace
<1>5. ASSUME NEW e \in Entered(rows)
      PROVE  OwnTime(b, e) = OwnTime(m, e) /\ LaterCredit(b, e) = LaterCredit(m, e)
  <2>1. m.rows[e].at = b.rows[e].at /\ b.credits = m.credits
    BY <1>1, <1>2
  <2>2. KeepsPlace(b, e) <=> KeepsPlace(m, e)
    BY <1>4
  <2> QED BY <2>1, <2>2 DEF OwnTime, LaterCredit
<1>6. LedgerTime(b, f) = LedgerTime(m, f)
  <2> DEFINE Of(k) == {OwnTime(k, g) : g \in {h \in Entered(k.rows) : h <= f /\ DayOf[h] = DayOf[f]}}
  <2>1. Of(b) = Of(m)
    BY <1>1, <1>2, <1>5
  <2>2. \A k : LedgerTime(k, f) = IF KeepsPlace(k, f) THEN Greatest(Of(k)) ELSE OwnTime(k, f)
    BY DEF LedgerTime
  <2> HIDE DEF Of
  <2>3. OwnTime(b, f) = OwnTime(m, f) /\ (KeepsPlace(b, f) <=> KeepsPlace(m, f))
    BY <1>4, <1>5
  <2>4. CASE KeepsPlace(b, f)
    BY <2>1, <2>2, <2>3, <2>4
  <2>5. CASE ~KeepsPlace(b, f)
    BY <2>2, <2>3, <2>5
  <2> QED BY <2>4, <2>5
<1> QED BY <1>3, <1>5, <1>6 DEF b, m, bare

LEMMA BareReplay ==
  ASSUME NEW rows, NEW log, IsLedger(rows, log), NEW s
  PROVE  /\ Replayed(Bare(rows, log), log, s) = Replayed(rows, log, s)
         /\ Replay(Bare(rows, log), log, s) = Replay(rows, log, s)
<1> DEFINE bare == Bare(rows, log)
           b == Context(rows, log)
           m == Context(bare, log)
           c == WithEvents(b)
           d == WithEvents(m)
<1>1. /\ IsLedger(bare, log) /\ Entered(bare) = Entered(rows)
      /\ \A e \in Exams : bare[e].at = rows[e].at
      /\ \A e \in Entered(rows) : ~Neutral(b, e) => bare[e] = rows[e]
      /\ \A e \in Entered(rows) : Neutral(b, e) => bare[e].res = "weak" /\ bare[e].excl
  BY BareRows
<1> HIDE DEF bare
<1>2. Entered(bare) = Entered(rows) /\ Entered(rows) \subseteq Exams
  BY <1>1 DEF Entered
<1>3. IsLedger(bare, log)
  BY <1>1
<1>4. /\ b.rows = rows /\ b.log = log /\ b.open = Opening(log) /\ b.back = ReturnDay(log)
      /\ b.credits = Credits(log)
      /\ m.rows = bare /\ m.log = log /\ m.open = Opening(log) /\ m.back = ReturnDay(log)
      /\ m.credits = Credits(log)
  BY DEF Context
<1>5. /\ c.rows = rows /\ c.log = log /\ c.open = Opening(log) /\ c.back = ReturnDay(log)
      /\ c.credits = Credits(log)
  BY LedgerIsHistory
<1>6. /\ d.rows = bare /\ d.log = log /\ d.open = Opening(log) /\ d.back = ReturnDay(log)
      /\ d.credits = Credits(log)
  BY <1>3, LedgerIsHistory
<1>7. /\ c.events = CommandEvents(b) \cup ResultEvents(b)
      /\ d.events = CommandEvents(m) \cup ResultEvents(m)
  BY DEF WithEvents, Context
<1>8. Ordered(c)
  BY LedgerIsOrdered
<1>9. \A f \in Entered(rows) : (Neutral(b, f) <=> Neutral(m, f)) /\ LedgerTime(b, f) = LedgerTime(m, f)
  BY BareTimes DEF bare
<1> HIDE DEF b, m, c, d
<1>13. c.events = d.events
  <2>1. CommandEvents(b) = CommandEvents(m)
    BY <1>4 DEF CommandEvents
  <2>2. ResultEvents(b) = ResultEvents(m)
    BY <1>2, <1>4, <1>9 DEF ResultEvents
  <2> QED BY <1>7, <2>1, <2>2
<1>14. Bared(c, d)
  <2>1. c.log = d.log /\ c.back = d.back /\ Entered(c.rows) = Entered(d.rows)
    BY <1>2, <1>5, <1>6
  <2>2. ASSUME NEW f \in Entered(c.rows)
        PROVE  /\ Neutral(c, f) <=> Neutral(d, f)
               /\ ~Neutral(c, f) => c.rows[f].res = d.rows[f].res /\ LaterCredit(c, f) = LaterCredit(d, f)
               /\ Neutral(c, f) => d.rows[f].res # "pass"
    <3>1. f \in Entered(rows) /\ f \in Exams
      BY <1>2, <1>5
    <3>2. (Neutral(c, f) <=> Neutral(b, f)) /\ (Neutral(d, f) <=> Neutral(m, f))
      BY <1>4, <1>5, <1>6 DEF Neutral
    <3>3. ~Neutral(c, f) => c.rows[f] = d.rows[f]
      BY <1>1, <1>5, <1>6, <3>1, <3>2
    <3>4. c.rows[f] = d.rows[f] => LaterCredit(c, f) = LaterCredit(d, f)
      BY <1>5, <1>6 DEF LaterCredit
    <3>5. Neutral(c, f) => d.rows[f].res = "weak"
      BY <1>1, <1>6, <3>1, <3>2
    <3> QED BY <1>9, <3>1, <3>2, <3>3, <3>4, <3>5
  <2> QED BY <1>13, <2>1, <2>2 DEF Bared
<1>15. SettledExams(bare, log) = SettledExams(rows, log)
  BY <1>1, <1>2 DEF SettledExams
<1>16. Beginning(c, s) = Beginning(d, s)
  BY <1>5, <1>6, <1>15 DEF Beginning
<1>17. Beginning(c, s).last \in Nat
  BY BeginningLast
<1>18. Replayed(rows, log, s) = Replayed(bare, log, s)
  <2>1. Run(c, s) = Run(d, s)
    BY <1>8, <1>14, <1>16, <1>17, BaredRuns
  <2> QED BY <2>1 DEF Replayed, c, d, b, m
<1>19. \A es : History(bare, log, es) = History(rows, log, es)
  BY <1>15 DEF History
<1>20. ASSUME NEW a PROVE Saved(bare, log, s, a) = Saved(rows, log, s, a)
  <2>1. History(bare, log, Exams) = History(rows, log, Exams)
        /\ History(bare, log, s.bonuses) = History(rows, log, s.bonuses)
    BY <1>19
  <2> QED BY <2>1 DEF Saved
<1> QED BY <1>18, <1>20 DEF Replay, bare

(* Rows that differ in settled results only. *)
SettledEdit(rows, more, log) ==
  \A e \in Exams : more[e] # rows[e] =>
    /\ rows[e].res # "none" /\ more[e].res # "none" /\ more[e].at = rows[e].at
    /\ <<e, rows[e].at>> \in Opening(log).settled

(***************************************************************************)
(* A settled result may be typed again as any other: the replay of the     *)
(* ledger stays what it was, its streak, its bonuses and its balance.      *)
(***************************************************************************)
THEOREM SettledIsNotRead ==
  ASSUME NEW rows, NEW more, NEW log, IsLedger(rows, log), IsLedger(more, log),
         SettledEdit(rows, more, log), NEW s
  PROVE  Replay(more, log, s) = Replay(rows, log, s)
<1> DEFINE b == Context(rows, log)
           m == Context(more, log)
<1>1. /\ b.rows = rows /\ b.open = Opening(log) /\ b.back = ReturnDay(log)
      /\ m.rows = more /\ m.open = Opening(log) /\ m.back = ReturnDay(log)
  BY DEF Context
<1> HIDE DEF b, m
<1> DEFINE Flat(k, e) ==
             IF e \in Entered(k.rows) /\ Neutral(k, e)
             THEN [k.rows[e] EXCEPT !.res = "weak", !.excl = TRUE] ELSE k.rows[e]
<1>2. ASSUME NEW e \in Exams PROVE Flat(b, e) = Flat(m, e)
  <2>1. CASE more[e] = rows[e]
    BY <1>1, <2>1 DEF Entered, Neutral
  <2>2. CASE more[e] # rows[e]
    <3>1. /\ e \in Entered(rows) /\ e \in Entered(more) /\ more[e].at = rows[e].at
          /\ <<e, rows[e].at>> \in Opening(log).settled
      BY <2>2 DEF SettledEdit, Entered
    <3>2. Neutral(b, e) /\ Neutral(m, e)
      BY <1>1, <3>1 DEF Neutral
    <3>3. [rows[e] EXCEPT !.res = "weak", !.excl = TRUE] = [more[e] EXCEPT !.res = "weak", !.excl = TRUE]
      BY <3>1 DEF IsLedger, Row
    <3> QED BY <1>1, <3>1, <3>2, <3>3
  <2> QED BY <2>1, <2>2
<1>3. Bare(rows, log) = [e \in Exams |-> Flat(b, e)] /\ Bare(more, log) = [e \in Exams |-> Flat(m, e)]
  BY <1>1 DEF Bare, b, m
<1> HIDE DEF Flat
<1>4. Bare(rows, log) = Bare(more, log)
  BY <1>2, <1>3
<1> QED BY <1>4, BareReplay

-----------------------------------------------------------------------------
(***************************************************************************)
(* What a bonus saved from a dismissal: only a bonus lifts the balance     *)
(* above the balance without bonuses.                                      *)
(***************************************************************************)
Money(a) == Whole(a) /\ a.bal \in Nat /\ a.shadow \in Nat

(* A step that neither earns nor saves. *)
Quiet(a, b) ==
  /\ Money(b) /\ b.bonuses = a.bonuses /\ b.saved = a.saved
  /\ a.bal <= a.shadow => b.bal <= b.shadow

LEMMA QuietOnward ==
  ASSUME NEW a, NEW b, NEW d, Quiet(a, b), Quiet(b, d)
  PROVE  Quiet(a, d)
BY DEF Quiet

LEMMA QuietBreaks ==
  ASSUME NEW c, NEW a, Money(a), NEW x, NEW f
  PROVE  Quiet(a, BreakStreak(c, a, x)) /\ Quiet(a, ApplyDeferred(a, f))
<1>1. ASSUME NEW b, Money(b), NEW e PROVE Quiet(b, ResetStreak(b, e))
  BY <1>1 DEF ResetStreak, Quiet, Money, Whole, Parts
<1>2. ASSUME NEW d PROVE Quiet(a, [a EXCEPT !.deferred = d])
  BY DEF Quiet, Money, Whole, Parts
<1>3. Quiet(a, BreakStreak(c, a, x))
  BY <1>1, <1>2 DEF BreakStreak, BreakOrDefer
<1>4. Quiet(a, ApplyDeferred(a, f))
  <2> DEFINE due == {d \in a.deferred : d[2] = f}
             b == [a EXCEPT !.deferred = @ \ due]
  <2>1. ApplyDeferred(a, f) = a \/ \E e : ApplyDeferred(a, f) = ResetStreak(b, e)
    BY DEF ApplyDeferred
  <2>2. Quiet(a, b)
    BY <1>2
  <2>3. Quiet(a, a)
    BY DEF Quiet, Money
  <2> HIDE DEF b
  <2>4. \A e : Quiet(b, ResetStreak(b, e))
    BY <1>1, <2>2 DEF Quiet
  <2> QED BY <2>1, <2>2, <2>3, <2>4, QuietOnward
<1> QED BY <1>3, <1>4

LEMMA QuietDismissals ==
  ASSUME NEW a, Money(a), NEW priority, NEW why, NEW rule, NEW e
  PROVE  /\ Quiet(a, Dismiss(a, priority, why))
         /\ Quiet(a, DismissAt(a, priority, rule, e))
<1>1. ASSUME NEW w PROVE Quiet(a, Dismiss(a, priority, w))
  <2> DEFINE b == [a EXCEPT !.late = 0, !.gone = TRUE]
             d == [b EXCEPT !.priority = priority, !.why = w]
  <2>1. Dismiss(a, priority, w) \in {b, d}
    BY DEF Dismiss
  <2>2. Quiet(a, b)
    BY DEF Quiet, Money, Whole, Parts
  <2> HIDE DEF b
  <2>3. Quiet(b, d)
    BY <2>2 DEF Quiet, Money, Whole, Parts
  <2> HIDE DEF d
  <2> QED BY <2>1, <2>2, <2>3, QuietOnward
<1>2. Quiet(a, DismissAt(a, priority, rule, e))
  <2> DEFINE w == [rule |-> rule, of |-> e]
             b == Dismiss(a, priority, w)
             d == [b EXCEPT !.bal = 0, !.dismissals = @ \cup {w}]
  <2>1. DismissAt(a, priority, rule, e) = d
    BY DEF DismissAt
  <2>2. Quiet(a, b)
    BY <1>1
  <2> HIDE DEF b, w
  <2>3. Whole(d) /\ d.bal = 0 /\ d.shadow = b.shadow /\ d.bonuses = b.bonuses /\ d.saved = b.saved
    BY <2>2 DEF Quiet, Money, Whole, Parts
  <2> HIDE DEF d
  <2>4. Quiet(b, d)
    BY <2>2, <2>3 DEF Quiet, Money
  <2> QED BY <2>1, <2>2, <2>4, QuietOnward
<1> QED BY <1>1, <1>2

LEMMA QuietCheat ==
  ASSUME NEW a, Money(a), NEW e
  PROVE  Quiet(a, Cheat(a, e))
<1>1. ASSUME NEW n PROVE Quiet(a, [a EXCEPT !.cheats = n])
  BY DEF Quiet, Money, Whole, Parts
<1>2. ASSUME NEW b, Quiet(a, b), NEW priority, NEW rule
      PROVE  Quiet(a, DismissAt(b, priority, rule, e))
  BY <1>2, QuietDismissals, QuietOnward DEF Quiet
<1> QED BY <1>1, <1>2 DEF Cheat

(* An addition raises both balances alike. *)
LEMMA QuietAdd ==
  ASSUME ReplayAssumption, NEW a, Money(a), NEW l, IsCommand(l)
  PROVE  Quiet(a, AddEntry(a, l))
<1> DEFINE bal == Capped(a.bal + l.applied)
           shadow == Capped(a.shadow + l.applied)
           back == IF l.undoes # 0 THEN bal - a.bal ELSE 0
           b == [a EXCEPT !.bal = bal, !.shadow = Capped(@ + l.applied),
                          !.late = IF l.applied > 0 THEN 0 ELSE @, !.hold = Less(@, back)]
<1>1. bal \in Nat /\ shadow \in Nat /\ (a.bal <= a.shadow => bal <= shadow)
  BY DEF Capped, Smaller, Money, IsCommand, ReplayAssumption
<1>2. AddEntry(a, l) = ClampHold(b)
  BY DEF AddEntry
<1>3. Whole(b) /\ b.bal = bal /\ b.shadow = shadow /\ b.bonuses = a.bonuses /\ b.saved = a.saved
  BY DEF Money, Whole, Parts
<1> HIDE DEF bal, shadow, back, b
<1>4. Quiet(a, b)
  BY <1>1, <1>3 DEF Quiet, Money
<1>5. Quiet(b, ClampHold(b))
  BY <1>4 DEF ClampHold, Quiet, Money, Whole, Parts
<1> QED BY <1>2, <1>4, <1>5, QuietOnward

(***************************************************************************)
(* What a step may save: a deduction by hand or a loss which the balance   *)
(* without bonuses could not pay and the balance could.                    *)
(***************************************************************************)
SavesAt(a, b, place) ==
  /\ Money(b) /\ b.bonuses = a.bonuses
  /\ a.bal <= a.shadow => b.bal <= b.shadow
  /\ b.saved = a.saved \/ (a.bal > a.shadow /\ b.saved = a.saved \cup {place})

LEMMA SavesOnward ==
  ASSUME NEW a, NEW b, NEW d, NEW place, SavesAt(a, b, place), Quiet(b, d)
  PROVE  SavesAt(a, d, place)
BY DEF SavesAt, Quiet

LEMMA LessIsMonotone ==
  ASSUME NEW m \in Nat, NEW n \in Nat, NEW k \in Nat
  PROVE  Less(m, k) \in Nat /\ (m <= n => Less(m, k) <= Less(n, k))
BY DEF Less

LEMMA DeductSaves ==
  ASSUME NEW c, NEW a, Money(a), NEW i, IsCommand(c.log[i])
  PROVE  SavesAt(a, DeductEntry(c, a, i), 0)
<1> DEFINE l == c.log[i]
           n == l.applied
           counted == i \notin Undone(c.log)
           dismisses == counted /\ (l.violation \/ (n > 0 /\ a.bal = 0))
           saving == counted /\ n > 0 /\ a.shadow = 0
           b == [a EXCEPT !.bal = Less(@, n), !.shadow = Less(@, n),
                          !.known = Less(@, n),
                          !.hold = IF l.undoes # 0 THEN @ ELSE @ + Smaller(a.bal, n)]
           d == [b EXCEPT !.saved = IF saving THEN @ \cup {0} ELSE @]
<1>1. DeductEntry(c, a, i) = IF dismisses THEN Dismiss(b, 60, [rule |-> "hand", of |-> i]) ELSE d
  BY DEF DeductEntry
<1>2. n \in Nat /\ (~dismisses /\ saving => a.bal # 0)
  BY DEF IsCommand
<1> HIDE DEF n, l, counted, dismisses, saving
<1>3. /\ Whole(b) /\ b.bal = Less(a.bal, n) /\ b.shadow = Less(a.shadow, n)
      /\ b.bonuses = a.bonuses /\ b.saved = a.saved
  BY DEF Money, Whole, Parts
<1> HIDE DEF b
<1>4. Quiet(a, b)
  BY <1>2, <1>3, LessIsMonotone DEF Quiet, Money
<1>5. Whole(d) /\ d.bal = b.bal /\ d.shadow = b.shadow /\ d.bonuses = b.bonuses
      /\ d.saved = IF saving THEN b.saved \cup {0} ELSE b.saved
  BY <1>3 DEF Whole, Parts
<1> HIDE DEF d
<1>6. CASE dismisses
  <2>1. SavesAt(a, b, 0)
    BY <1>4 DEF SavesAt, Quiet
  <2>2. Quiet(b, Dismiss(b, 60, [rule |-> "hand", of |-> i]))
    BY <1>4, QuietDismissals DEF Quiet
  <2> QED BY <1>1, <1>6, <2>1, <2>2, SavesOnward
<1>7. CASE ~dismisses
  <2>1. saving => a.shadow = 0 /\ a.bal > a.shadow
    BY <1>2, <1>7 DEF Money, saving
  <2>2. SavesAt(a, d, 0)
    BY <1>4, <1>5, <2>1 DEF SavesAt, Quiet, Money
  <2> QED BY <1>1, <1>7, <2>2
<1> QED BY <1>6, <1>7

LEMMA LossSaves ==
  ASSUME ReplayAssumption, NEW c, NEW a, Money(a), NEW x, x[3] \in Exams
  PROVE  SavesAt(a, Lose(c, a, x), x[3])
<1> DEFINE e == x[3]
           k == Knowing(c, a, e)
<1>1. Quiet(a, k) /\ k.bal = a.bal /\ k.shadow = a.shadow
  <2>1. ASSUME NEW credit
        PROVE  LET b == [a EXCEPT !.late = credit, !.known = a.bal] IN
               Quiet(a, b) /\ b.bal = a.bal /\ b.shadow = a.shadow
    BY DEF Quiet, Money, Whole, Parts
  <2>2. Quiet(a, a)
    BY DEF Quiet, Money
  <2> QED BY <2>1, <2>2 DEF Knowing
<1>2. Lose(c, a, x) = LoseKnowing(c, k, x)
  BY DEF Lose
<1> HIDE DEF k
<1> DEFINE p == PenaltyOf[e]
           spared == Introduced(c, k, e)
           saving == k.shadow = 0 /\ k.bal > 0 /\ ~spared
           known == IF k.gone \/ k.late = 0 \/ Omitted(c, k, e) THEN k.known ELSE Less(k.known, p)
           lost == [k EXCEPT !.bal = Less(@, p), !.shadow = Less(@, p), !.known = known,
                             !.saved = IF saving THEN @ \cup {e} ELSE @]
<1>3. p \in Nat /\ Money(k)
  BY <1>1 DEF ReplayAssumption, Quiet
<1>4. LoseKnowing(c, k, x) = DismissIf(k.bal = 0 /\ ~spared, BreakStreak(c, lost, x), e)
  BY DEF LoseKnowing
<1>5. saving => k.bal > k.shadow
  BY <1>3 DEF Money
<1> HIDE DEF spared, p, saving, known
<1>6. /\ Whole(lost) /\ lost.bal = Less(k.bal, p) /\ lost.shadow = Less(k.shadow, p)
      /\ lost.bonuses = k.bonuses /\ lost.saved = IF saving THEN k.saved \cup {e} ELSE k.saved
  BY <1>3 DEF Money, Whole, Parts
<1> HIDE DEF lost, e
<1>7. SavesAt(k, lost, e)
  <2>1. k.bal \in Nat /\ k.shadow \in Nat
    BY <1>3 DEF Money
  <2>2. Less(k.bal, p) \in Nat /\ Less(k.shadow, p) \in Nat
        /\ (k.bal <= k.shadow => Less(k.bal, p) <= Less(k.shadow, p))
    BY <1>3, <2>1 DEF Less
  <2> QED BY <1>5, <1>6, <2>2 DEF SavesAt, Money
<1>8. SavesAt(a, lost, e)
  BY <1>1, <1>7 DEF SavesAt, Quiet
<1>9. Quiet(lost, BreakStreak(c, lost, x))
  BY <1>8, QuietBreaks DEF SavesAt
<1>10. SavesAt(a, BreakStreak(c, lost, x), e) /\ Money(BreakStreak(c, lost, x))
  BY <1>8, <1>9, SavesOnward DEF Quiet
<1> DEFINE broken == BreakStreak(c, lost, x)
<1> HIDE DEF broken
<1>11. SavesAt(a, broken, e) /\ Quiet(broken, DismissAt(broken, 60, "loss", e))
  BY <1>10, QuietDismissals DEF broken
<1>12. SavesAt(a, DismissAt(broken, 60, "loss", e), e)
  BY <1>11, SavesOnward
<1> QED BY <1>2, <1>4, <1>11, <1>12 DEF DismissIf, broken, e

(* The results that may earn a bonus, and the events that may dismiss at an empty balance. *)
Earns(c, e) == ~Neutral(c, e) /\ c.rows[e].res = "pass"
Spends(c, x) ==
  IF x[2] = 0 THEN c.log[x[3]].action # "add"
  ELSE ~Neutral(c, x[3]) /\ c.rows[x[3]].res \in Losses

Place(x) == IF x[2] = 0 THEN 0 ELSE x[3]

(* A step earns a bonus, or saves, or neither. *)
Steps(c, a, x, b) ==
  /\ Money(b)
  /\ b.bonuses = a.bonuses \/ (x[2] # 0 /\ Earns(c, x[3]) /\ b.bonuses = a.bonuses \cup {x[3]})
  /\ b.bonuses = {} /\ a.bal <= a.shadow => b.bal <= b.shadow
  /\ b.saved = a.saved
       \/ (a.bal > a.shadow /\ Spends(c, x) /\ b.saved = a.saved \cup {Place(x)})

LEMMA QuietSteps ==
  ASSUME NEW c, NEW a, NEW x, NEW b, Quiet(a, b)
  PROVE  Steps(c, a, x, b)
BY DEF Quiet, Steps

LEMMA SavingSteps ==
  ASSUME NEW c, NEW a, NEW x, NEW b, SavesAt(a, b, Place(x)), Spends(c, x)
  PROVE  Steps(c, a, x, b)
BY DEF SavesAt, Steps

LEMMA StepsQuietly ==
  ASSUME NEW c, NEW a, NEW x, NEW b, NEW d, Steps(c, a, x, b), Quiet(b, d)
  PROVE  Steps(c, a, x, d)
BY DEF Quiet, Steps

LEMMA PassSteps ==
  ASSUME ReplayAssumption, NEW c, NEW a, Money(a), NEW x, x[2] # 0, Earns(c, x[3])
  PROVE  Steps(c, a, x, CountPass(c, a, x[3]))
<1> DEFINE e == x[3]
           started == [a EXCEPT !.first = e, !.last = e]
           waits == [a EXCEPT !.first = e, !.last = e, !.waiting = TRUE]
           earned == [a EXCEPT !.bal = Capped(@ + 1), !.known = Capped(@ + 1),
                               !.count = @ + 1, !.bonuses = @ \cup {e}]
<1>1. CountPass(c, a, e) \in {a, ResetStreak(a, e), started, waits, ResetStreak(earned, e)}
  BY DEF CountPass
<1>2. Quiet(a, a)
  BY DEF Quiet, Money
<1>3. ASSUME NEW b, Money(b) PROVE Quiet(b, ResetStreak(b, e))
  BY <1>3 DEF ResetStreak, Quiet, Money, Whole, Parts
<1>4. Quiet(a, started)
  BY DEF Quiet, Money, Whole, Parts
<1>5. Quiet(a, waits)
  BY DEF Quiet, Money, Whole, Parts
<1>6. /\ Whole(earned) /\ earned.bal = Capped(a.bal + 1) /\ earned.shadow = a.shadow
      /\ earned.saved = a.saved /\ earned.bonuses = a.bonuses \cup {e}
  BY DEF Money, Whole, Parts
<1> HIDE DEF started, waits, earned
<1>7. earned.bal \in Nat /\ earned.shadow \in Nat /\ a.bal \in Nat /\ a.shadow \in Nat
  BY <1>6 DEF Capped, Smaller, Money, ReplayAssumption
<1>8. Steps(c, a, x, earned)
  BY <1>6, <1>7 DEF Steps, Money
<1>9. Steps(c, a, x, ResetStreak(earned, e))
  <2>1. Quiet(earned, ResetStreak(earned, e))
    BY <1>3, <1>6, <1>7 DEF Money
  <2> QED BY <1>8, <2>1, StepsQuietly
<1>10. \A b : Quiet(a, b) => Steps(c, a, x, b)
  BY QuietSteps
<1> QED BY <1>1, <1>2, <1>3, <1>4, <1>5, <1>9, <1>10

LEMMA ResultSteps ==
  ASSUME ReplayAssumption, NEW c, NEW a, Money(a), NEW x, x[2] # 0, x[3] \in Exams
  PROVE  Steps(c, a, x, ReplayResult(c, a, x))
<1> DEFINE e == x[3]
           b == ReplayResult(c, a, x)
<1>0. Place(x) = e
  BY DEF Place
<1>1. CASE Neutral(c, e)
  BY <1>1, QuietSteps DEF ReplayResult, Quiet, Money
<1>2. CASE ~Neutral(c, e) /\ c.rows[e].res \in Losses /\ e \notin Finals
  <2>1. b = Lose(c, a, x)
    BY <1>2 DEF ReplayResult, Losses
  <2>2. SavesAt(a, b, Place(x)) /\ Spends(c, x)
    BY <1>0, <1>2, <2>1, LossSaves DEF Spends
  <2> QED BY <2>2, SavingSteps
<1>3. CASE ~Neutral(c, e) /\ c.rows[e].res = "pass"
  <2>1. b = CountPass(c, a, e)
    BY <1>3 DEF ReplayResult, Losses
  <2> QED BY <1>3, <2>1, PassSteps DEF Earns
<1>4. CASE ~Neutral(c, e) /\ c.rows[e].res # "pass" /\ ~(c.rows[e].res \in Losses /\ e \notin Finals)
  <2>1. b \in {Cheat(a, e), DismissAt(a, 75, "final", e), BreakStreak(c, a, x)}
    BY <1>4 DEF ReplayResult
  <2>2. Quiet(a, b)
    BY <2>1, QuietCheat, QuietDismissals, QuietBreaks
  <2> QED BY <2>2, QuietSteps
<1> QED BY <1>1, <1>2, <1>3, <1>4

(* Every event earns a bonus, or saves where the balance is above the one without *)
(* bonuses, or neither. *)
LEMMA EventSteps ==
  ASSUME ReplayAssumption, NEW c, NEW a, Money(a), NEW x, IsEvent(c, x)
  PROVE  Steps(c, a, x, ReplayEvent(c, a, x))
<1>1. CASE x[2] = 0
  <2> DEFINE l == c.log[x[3]]
             b == ReplayCommand(c, a, x[3])
  <2>1. ReplayEvent(c, a, x) = b /\ IsCommand(l) /\ Place(x) = 0
    BY <1>1 DEF ReplayEvent, IsEvent, Place
  <2>2. CASE l.action = "add"
    BY <2>1, <2>2, QuietAdd, QuietSteps DEF ReplayCommand
  <2>3. CASE l.action # "add"
    <3>1. b = DeductEntry(c, a, x[3])
      BY <2>3 DEF ReplayCommand
    <3>2. SavesAt(a, b, Place(x)) /\ Spends(c, x)
      BY <1>1, <2>1, <2>3, <3>1, DeductSaves DEF Spends
    <3> QED BY <2>1, <3>2, SavingSteps
  <2> QED BY <2>2, <2>3
<1>2. CASE x[2] # 0
  <2> DEFINE b == ReplayResult(c, a, x)
  <2>1. ReplayEvent(c, a, x) = ApplyDeferred(b, x[3]) /\ x[3] \in Exams
    BY <1>2 DEF ReplayEvent, IsEvent
  <2>2. Steps(c, a, x, b)
    BY <1>2, <2>1, ResultSteps
  <2> HIDE DEF b
  <2>3. Quiet(b, ApplyDeferred(b, x[3]))
    BY <2>2, QuietBreaks DEF Steps
  <2> QED BY <2>1, <2>2, <2>3, StepsQuietly
<1> QED BY <1>1, <1>2

-----------------------------------------------------------------------------
(* d reads c's ledger, with further results that are no passes. *)
Joins(c, d) ==
  /\ c.log = d.log /\ c.back = d.back /\ c.credits = d.credits /\ c.events \subseteq d.events
  /\ Entered(c.rows) \subseteq Entered(d.rows)
  /\ \A e \in Entered(c.rows) : c.rows[e] = d.rows[e] /\ (Neutral(c, e) <=> Neutral(d, e))
  /\ \A x \in c.events : x[2] # 0 => x[3] \in Entered(c.rows)
  /\ \A x \in d.events \ c.events :
       x[2] = 1 /\ x[3] \notin Entered(c.rows) /\ d.rows[x[3]].res # "pass"

(* They have no effect either. *)
More(c, d) == Joins(c, d) /\ \A x \in d.events \ c.events : Neutral(d, x[3])

LEMMA JoinsWait ==
  ASSUME NEW c, NEW d, Joins(c, d), NEW x
  PROVE  BreakWaitsFor(c, x) = BreakWaitsFor(d, x)
<1> DEFINE Late(k, y) == /\ y[2] = 1 /\ y[3] < x[3] /\ DayOf[y[3]] = DayOf[x[3]]
                         /\ k.rows[y[3]].res = "pass" /\ KeepsPlace(k, y[3]) /\ Before(x, y)
<1>1. \A k : LatePasses(k, x) = {y \in k.events : Late(k, y)}
  BY DEF LatePasses
<1>2. ASSUME NEW y \in c.events PROVE Late(c, y) <=> Late(d, y)
  <2>1. CASE y[2] = 1
    <3>1. y[3] \in Entered(c.rows)
      BY <2>1 DEF Joins
    <3>2. c.rows[y[3]] = d.rows[y[3]] /\ (KeepsPlace(c, y[3]) <=> KeepsPlace(d, y[3]))
      BY <3>1 DEF Joins, KeepsPlace
    <3> QED BY <3>2
  <2> QED BY <2>1
<1>3. \A y \in d.events \ c.events : ~Late(d, y)
  BY DEF Joins
<1> HIDE DEF Late
<1>4. LatePasses(c, x) = LatePasses(d, x)
  BY <1>1, <1>2, <1>3 DEF Joins
<1> QED BY <1>4 DEF BreakWaitsFor

(* The same event gives the same, but for a bonus that a missing result holds up. *)
LEMMA JoinsEvent ==
  ASSUME NEW c, NEW d, NEW x, NEW a, Joins(c, d), x \in c.events,
         x[2] # 0 /\ Earns(d, x[3]) => CountPass(c, a, x[3]) = CountPass(d, a, x[3])
  PROVE  ReplayEvent(c, a, x) = ReplayEvent(d, a, x)
<1>1. CASE x[2] = 0
  BY <1>1, AlikeCommand DEF Joins
<1>2. CASE x[2] # 0
  <2> DEFINE e == x[3]
  <2>1. /\ e \in Entered(c.rows) /\ c.rows[e] = d.rows[e] /\ (Neutral(c, e) <=> Neutral(d, e))
        /\ c.credits = d.credits
    BY <1>2 DEF Joins
  <2>2. LaterCredit(c, e) = LaterCredit(d, e)
    BY <2>1 DEF LaterCredit
  <2>3. BreakWaitsFor(c, x) = BreakWaitsFor(d, x)
    BY JoinsWait
  <2>4. Lose(c, a, x) = Lose(d, a, x) /\ BreakStreak(c, a, x) = BreakStreak(d, a, x)
    BY <2>2, <2>3, AlikeLoss DEF BreakStreak
  <2>5. ReplayResult(c, a, x) = ReplayResult(d, a, x)
    BY <1>2, <2>1, <2>4 DEF ReplayResult, Losses, Earns
  <2> QED BY <1>2, <2>5 DEF ReplayEvent
<1> QED BY <1>1, <1>2

(* The same event gives the same, or a bonus that a missing result held up in c. *)
LEMMA MoreEvent ==
  ASSUME ReplayAssumption, NEW c, NEW d, More(c, d), NEW x \in c.events, NEW a, Money(a), IsEvent(d, x)
  PROVE  ReplayEvent(c, a, x) = ReplayEvent(d, a, x) \/ ReplayEvent(d, a, x).bonuses # {}
<1> DEFINE e == x[3]
<1>1. CASE x[2] = 0 \/ CountPass(c, a, e) = CountPass(d, a, e)
  BY <1>1, JoinsEvent DEF More
<1>2. CASE x[2] # 0 /\ CountPass(c, a, e) # CountPass(d, a, e)
  <2> DEFINE earned == [a EXCEPT !.bal = Capped(@ + 1), !.known = Capped(@ + 1),
                                 !.count = @ + 1, !.bonuses = @ \cup {e}]
             b == CountPass(d, a, e)
             r == ReplayResult(d, a, x)
  <2>1. Missing(d, a.first, e) => Missing(c, a.first, e)
    BY DEF Missing, More, Joins
  <2>2. b = ResetStreak(earned, e)
    BY <1>2, <2>1 DEF CountPass
  <2>3. e \in b.bonuses
    <3>1. Whole(earned) /\ e \in earned.bonuses
      BY DEF Money, Whole, Parts
    <3> HIDE DEF earned
    <3> QED BY <2>2, <3>1 DEF ResetStreak, Whole, Parts
  <2>4. CASE r = b
    <3>1. ReplayEvent(d, a, x) = ApplyDeferred(b, e)
      BY <1>2, <2>4 DEF ReplayEvent
    <3>2. Money(b)
      <4>1. Steps(d, a, x, r)
        BY <1>2, ResultSteps DEF IsEvent
      <4> QED BY <2>4, <4>1 DEF Steps
    <3> QED BY <2>3, <3>1, <3>2, QuietBreaks DEF Quiet
  <2>5. CASE r # b
    <3>1. Neutral(d, e) \/ d.rows[e].res # "pass"
      BY <2>5 DEF ReplayResult, Losses
    <3>2. /\ e \in Entered(c.rows) /\ c.rows[e] = d.rows[e] /\ (Neutral(c, e) <=> Neutral(d, e))
          /\ c.credits = d.credits
      BY <1>2 DEF More, Joins
    <3>3. LaterCredit(c, e) = LaterCredit(d, e)
      BY <3>2 DEF LaterCredit
    <3>4. Lose(c, a, x) = Lose(d, a, x) /\ BreakStreak(c, a, x) = BreakStreak(d, a, x)
      BY <3>3, JoinsWait, AlikeLoss DEF BreakStreak, More
    <3>5. ReplayResult(c, a, x) = ReplayResult(d, a, x)
      BY <3>1, <3>2, <3>4 DEF ReplayResult
    <3> QED BY <1>2, <3>5 DEF ReplayEvent
  <2> QED BY <2>4, <2>5
<1> QED BY <1>1, <1>2

(* The bonus of m comes before what happened at the place p of log. *)
EarnedFor(log, m, p) ==
  IF p = 0 THEN \E i \in Pending(log) : log[i].action = "deduct" /\ At(m) <= log[i].at
  ELSE m < p

(* A pass replayed before an event that may dismiss is of an earlier moment or exam. *)
Placed(d) ==
  \A x, y \in d.events :
    Before(y, x) /\ y[2] # 0 /\ Earns(d, y[3]) /\ Spends(d, x) => EarnedFor(d.log, y[3], Place(x))

(***************************************************************************)
(* After the events S of d, of which c has its own: until d earns a bonus  *)
(* the replays are the same, so whatever was saved in c was saved after a  *)
(* bonus that d has.                                                       *)
(***************************************************************************)
After(d, S, a, b) ==
  /\ Money(a) /\ Money(b)
  /\ a.bonuses = {} => a.bal <= a.shadow
  /\ a = b \/ b.bonuses # {}
  /\ \A m \in b.bonuses : \E y \in S : y[2] # 0 /\ y[3] = m /\ Earns(d, m)
  /\ \A p \in a.saved : \E m \in b.bonuses : EarnedFor(d.log, m, p)

LEMMA AfterEvent ==
  ASSUME ReplayAssumption, NEW c, NEW d, More(c, d), Placed(d), NEW S \in SUBSET d.events,
         NEW x \in c.events, IsEvent(c, x), \A y \in S : Before(y, x),
         NEW a, NEW b, After(d, S, a, b)
  PROVE  After(d, S \cup {x}, ReplayEvent(c, a, x), ReplayEvent(d, b, x))
<1> DEFINE p == ReplayEvent(c, a, x)
           q == ReplayEvent(d, b, x)
<1>0. x \in d.events /\ c.log = d.log
  BY DEF More, Joins
<1>1. IsEvent(d, x)
  BY <1>0 DEF IsEvent
<1>2. Spends(c, x) => Spends(d, x)
  <2>1. x[2] # 0 => c.rows[x[3]] = d.rows[x[3]] /\ (Neutral(c, x[3]) <=> Neutral(d, x[3]))
    BY DEF More, Joins
  <2> QED BY <1>0, <2>1 DEF Spends
<1>3. Steps(c, a, x, p) /\ Steps(d, b, x, q)
  BY <1>1, EventSteps DEF After
<1>4. a = b => p = q \/ q.bonuses # {}
  BY <1>1, MoreEvent DEF After
<1> HIDE DEF p, q
<1>5. b.bonuses \subseteq q.bonuses /\ a.bonuses \subseteq p.bonuses
  BY <1>3 DEF Steps
<1>6. Money(p) /\ Money(q) /\ (p.bonuses = {} => p.bal <= p.shadow)
  BY <1>3, <1>5 DEF Steps, After
<1>7. p = q \/ q.bonuses # {}
  BY <1>4, <1>5 DEF After
<1>8. ASSUME NEW m \in q.bonuses PROVE \E y \in S \cup {x} : y[2] # 0 /\ y[3] = m /\ Earns(d, m)
  <2>1. m \in b.bonuses \/ (x[2] # 0 /\ Earns(d, x[3]) /\ m = x[3])
    BY <1>3, <1>8 DEF Steps
  <2> QED BY <2>1 DEF After
<1>9. ASSUME NEW r \in p.saved PROVE \E m \in q.bonuses : EarnedFor(d.log, m, r)
  <2>1. CASE r \in a.saved
    BY <1>5, <2>1 DEF After
  <2>2. CASE r \notin a.saved
    <3>1. a.bal > a.shadow /\ Spends(d, x) /\ r = Place(x)
      BY <1>2, <1>3, <1>9, <2>2 DEF Steps
    <3>2. a.bonuses # {}
      BY <3>1 DEF After, Money
    <3>3. PICK m \in b.bonuses : TRUE
      BY <3>2 DEF After
    <3>4. PICK y \in S : y[2] # 0 /\ y[3] = m /\ Earns(d, m)
      BY <3>3 DEF After
    <3>5. EarnedFor(d.log, y[3], Place(x))
      BY <1>0, <3>1, <3>4 DEF Placed
    <3> QED BY <1>5, <3>1, <3>3, <3>4, <3>5
  <2> QED BY <2>1, <2>2
<1> QED BY <1>6, <1>7, <1>8, <1>9 DEF After, p, q

(* No break waits for a result that only d has. *)
LEMMA NothingWaits ==
  ASSUME NEW c, NEW d, NEW x, NEW b, NEW B, NEW Q, Ordered(c), Joins(c, d), x \in d.events \ c.events,
         x[3] # 0, b.deferred = Waits(c, B, Q)
  PROVE  ApplyDeferred(b, x[3]) = b
<1>1. ASSUME NEW w \in b.deferred PROVE w[2] # x[3]
  <2>1. PICK y : w[2] = BreakWaitsFor(c, y)
    BY DEF Waits
  <2>2. w[2] = 0 \/ w[2] \in Entered(c.rows)
    <3>1. \A z \in LatePasses(c, y) : z[3] \in Entered(c.rows)
      BY DEF LatePasses, Joins
    <3>2. w[2] = 0 \/ \E z \in LatePasses(c, y) : w[2] = z[3]
      BY <2>1, BreakWaits
    <3> QED BY <3>1, <3>2
  <2> QED BY <2>2 DEF Joins
<1>2. {w \in b.deferred : w[2] = x[3]} = {}
  BY <1>1
<1> QED BY <1>2 DEF ApplyDeferred

(* Without an effect, it changes nothing there. *)
LEMMA AfterMore ==
  ASSUME NEW c, NEW d, Ordered(c), More(c, d), NEW S, NEW x \in d.events \ c.events, x[3] # 0,
         NEW a, NEW b, After(d, S, a, b), NEW B, NEW Q, a.deferred = Waits(c, B, Q)
  PROVE  After(d, S \cup {x}, a, ReplayEvent(d, b, x))
<1> DEFINE q == ReplayEvent(d, b, x)
<1>1. q = ApplyDeferred(b, x[3])
  BY DEF ReplayEvent, ReplayResult, More, Joins
<1>2. Quiet(b, q)
  BY <1>1, QuietBreaks DEF After
<1>3. ASSUME a = b PROVE q = b
  BY <1>1, <1>3, NothingWaits DEF More
<1> HIDE DEF q
<1> QED BY <1>2, <1>3 DEF After, Quiet, q

(* The beginnings of a replay have earned and saved nothing. *)
Blank(a) == Money(a) /\ a.bal = a.shadow /\ a.bonuses = {} /\ a.saved = {} /\ a.last \in Nat

(* By induction over the moments of d. *)
LEMMA MoreRuns ==
  ASSUME ReplayAssumption, NEW c, NEW d, Ordered(c), Ordered(d), Bared(c, c), More(c, d), Placed(d),
         \A x \in c.events : IsEvent(c, x), NEW s, NEW t,
         Beginning(c, s) = Beginning(d, t), Blank(Beginning(c, s))
  PROVE  \A p \in Run(c, s).saved : \E m \in Run(d, t).bonuses : EarnedFor(d.log, m, p)
<1> DEFINE E == c.events
           D == d.events
<1>0. IsHistory(E) /\ IsHistory(D) /\ E \subseteq D
  BY DEF Ordered, More, Joins
<1>1. PICK f : Replays(c, s, f, SUBSET E) /\ Run(c, s) = f[E]
  BY <1>0, RunReplays
<1>2. PICK g : Replays(d, t, g, SUBSET D) /\ Run(d, t) = g[D]
  BY <1>0, RunReplays
<1>3. \A S \in SUBSET E : Prefix(S, E) => Follow(c, c, S, f[S], f[S])
  BY <1>1, BaredFollow DEF Blank
<1> DEFINE G == {S \in SUBSET D : Prefix(S, D) => After(d, S, f[S \cap E], g[S])}
<1>4. {} \in G
  <2> DEFINE b == Beginning(c, s)
  <2>1. f[{}] = b /\ g[{}] = b /\ {} \cap E = {}
    BY <1>1, <1>2 DEF Replays
  <2>2. After(d, {}, b, b)
    BY DEF After, Blank, Money
  <2> QED BY <2>1, <2>2
<1>5. ASSUME NEW S \in SUBSET D, S # {}, S \ {Last(S)} \in G PROVE S \in G
  <2> SUFFICES ASSUME Prefix(S, D) PROVE After(d, S, f[S \cap E], g[S])
    OBVIOUS
  <2> DEFINE x == Last(S)
             R == S \ {x}
  <2>1. Prefix(R, D) /\ x \in S /\ x \in D /\ R \in SUBSET D /\ \A y \in R : Before(y, x)
    BY <1>0, <1>5, PrefixWithoutLast
  <2>2. g[S] = ReplayEvent(d, g[R], x)
    BY <1>2, <1>5 DEF Replays
  <2>3. After(d, R, f[R \cap E], g[R])
    BY <1>5, <2>1
  <2> HIDE DEF x
  <2>4. R \cup {x} = S
    BY <2>1
  <2>5. CASE x \in E
    <3> DEFINE T == S \cap E
    <3>1. T \in SUBSET E /\ T # {} /\ T \ {x} = R \cap E /\ x \in T /\ \A y \in T \ {x} : Before(y, x)
      BY <2>1, <2>5
    <3>2. Last(T) = x
      <4>1. Last(T) \in T /\ \A y \in T \ {Last(T)} : Before(y, Last(T))
        BY <1>0, <3>1, FS_Subset, LastIsIn DEF IsHistory
      <4> HIDE DEF T
      <4>2. ~(Before(Last(T), x) /\ Before(x, Last(T)))
        BY <1>0, <3>1, <4>1, EventsAreOrdered
      <4> QED BY <3>1, <4>1, <4>2
    <3>3. f[T] = ReplayEvent(c, f[R \cap E], x)
      BY <1>1, <3>1, <3>2 DEF Replays
    <3> HIDE DEF R, T, E, D
    <3>4. After(d, R \cup {x}, ReplayEvent(c, f[R \cap E], x), ReplayEvent(d, g[R], x))
      BY <2>1, <2>3, <2>5, AfterEvent DEF E, D
    <3> QED BY <2>2, <2>4, <3>3, <3>4 DEF T
  <2>6. CASE x \notin E
    <3>1. S \cap E = R \cap E
      BY <2>4, <2>6
    <3>2. Prefix(R \cap E, E)
      <4>1. ASSUME NEW u \in R \cap E, NEW v \in E, Before(v, u) PROVE v \in R \cap E
        BY <1>0, <2>1, <4>1 DEF Prefix
      <4> QED BY <4>1 DEF Prefix
    <3>3. f[R \cap E].deferred = Waits(c, Breaks(c, R \cap E), Passed(R \cap E))
      <4>1. R \cap E \in SUBSET E
        OBVIOUS
      <4> HIDE DEF R, E
      <4>2. Follow(c, c, R \cap E, f[R \cap E], f[R \cap E])
        BY <1>3, <3>2, <4>1
      <4> QED BY <4>2 DEF Follow, Streaks
    <3>4. x[3] # 0 /\ x \in D \ E
      BY <2>1, <2>6 DEF More, Joins, Ordered
    <3> HIDE DEF R, E, D
    <3>5. After(d, R \cup {x}, f[R \cap E], ReplayEvent(d, g[R], x))
      BY <2>3, <3>3, <3>4, AfterMore DEF E, D
    <3> QED BY <2>2, <2>4, <3>1, <3>5
  <2> QED BY <2>5, <2>6
<1>6. SUBSET D \subseteq G
  <2> HIDE DEF G
  <2> QED BY <1>0, <1>4, <1>5, HistoryInduction
<1>7. Prefix(D, D) /\ D \cap E = E
  BY <1>0 DEF Prefix
<1>8. After(d, D, f[E], g[D])
  BY <1>6, <1>7
<1> QED BY <1>1, <1>2, <1>8 DEF After

LEMMA PendingAreMovements ==
  ASSUME NEW log \in Seq(Entry), NEW i \in Pending(log)
  PROVE  i \in DOMAIN log /\ log[i].action \in {"add", "deduct"}
<1> DEFINE S == {j \in DOMAIN log : log[j].action \in {"reset", "grant"}}
           T == {0} \cup S
<1>1. i \in DOMAIN log /\ i > Greatest(T) /\ DOMAIN log \subseteq Nat /\ IsFiniteSet(DOMAIN log)
      /\ log[i] \in Entry
  BY EntriesAreTyped DEF Pending, Latest
<1>2. S \subseteq DOMAIN log
  OBVIOUS
<1>3. T = S \cup {0}
  OBVIOUS
<1>4. S \subseteq Nat /\ i \in Nat
  BY <1>1, <1>2
<1>5. IsFiniteSet(S)
  BY <1>1, <1>2, FS_Subset
<1> HIDE DEF S
<1>6. IsFiniteSet(T) /\ T \subseteq Nat /\ T # {}
  BY <1>3, <1>4, <1>5, FS_AddElement
<1>7. i \in S => i \in T
  OBVIOUS
<1> HIDE DEF T
<1>8. Greatest(T) \in Nat /\ \A y \in T : Greatest(T) >= y
  BY <1>6, GreatestIsIn
<1>9. i \notin S
  BY <1>1, <1>4, <1>7, <1>8
<1> QED BY <1>1, <1>9 DEF Entry, S

(* What was recorded of a moment, and what may not pass an exam, is replayed after it. *)
LEMMA LedgerIsPlaced ==
  ASSUME NEW rows, NEW log, IsLedger(rows, log)
  PROVE  Placed(WithEvents(Context(rows, log)))
<1> DEFINE b == Context(rows, log)
           c == WithEvents(b)
           T(e) == LedgerTime(b, e)
<1>1. /\ c.rows = rows /\ c.log = log /\ c.open = Opening(log) /\ c.back = ReturnDay(log)
      /\ IsHistory(c.events)
  BY LedgerIsHistory
<1>2. /\ b.rows = rows /\ b.log = log /\ b.open = Opening(log) /\ b.back = ReturnDay(log)
      /\ c.events = CommandEvents(b) \cup ResultEvents(b)
  BY DEF WithEvents, Context
<1>3. \A e \in Entered(rows) : T(e) \in Nat /\ Day(T(e)) = DayOf[e]
  BY LedgerTimeIsOfDay
<1>4. \A e \in Entered(rows) :
        IF KeepsPlace(b, e)
        THEN \A g \in Entered(rows) : g <= e /\ DayOf[g] = DayOf[e] => OwnTime(b, g) <= T(e)
        ELSE T(e) = OwnTime(b, e)
  BY LedgerTimeIsGreatest
<1> HIDE DEF b, c
<1>5. \A x \in CommandEvents(b) : x[2] = 0 /\ x[3] \in Pending(log) /\ x[1] = log[x[3]].at
  BY <1>2 DEF CommandEvents
<1>6. \A x \in ResultEvents(b) : x[2] = 1 /\ x[3] \in Entered(rows) /\ x[1] = T(x[3])
  BY <1>2 DEF ResultEvents
<1>7. \A e \in Entered(rows) : e \in Nat \ {0} /\ e \in Exams
  BY ReplayAssumption, FS_CardinalityType DEF Entered, ReplayAssumption
<1> SUFFICES ASSUME NEW x \in c.events, NEW y \in c.events,
                    Before(y, x), y[2] # 0, Earns(c, y[3]), Spends(c, x)
             PROVE  EarnedFor(c.log, y[3], Place(x))
  BY DEF Placed, c, b
<1> DEFINE m == y[3]
<1>8. m \in Entered(rows) /\ y[2] = 1 /\ y[1] = T(m)
  BY <1>2, <1>5, <1>6
<1>9. KeepsPlace(b, m) /\ rows[m].res = "pass"
  BY <1>1, <1>2 DEF Earns, KeepsPlace, Neutral
<1>10. At(m) \in Nat /\ OwnTime(b, m) = At(m)
  BY <1>7, <1>8, <1>9, ReplayAssumption, ExamsMoment DEF OwnTime
<1>11. At(m) <= T(m)
  BY <1>4, <1>7, <1>8, <1>9, <1>10
<1> HIDE DEF T
<1>12. CASE x[2] = 0
  <2>1. x[3] \in Pending(log) /\ x[1] = log[x[3]].at
    BY <1>2, <1>5, <1>6, <1>12
  <2>2. log[x[3]].action = "deduct" /\ log[x[3]] \in Entry
    BY <1>1, <1>12, <2>1, PendingAreMovements, EntriesAreTyped DEF Spends, IsLedger
  <2>3. log[x[3]].at \in Nat
    BY <2>2 DEF Entry
  <2>4. At(m) <= log[x[3]].at
    BY <1>3, <1>8, <1>10, <1>11, <1>12, <2>1, <2>3 DEF Before
  <2> QED BY <1>1, <1>12, <2>1, <2>2, <2>4 DEF EarnedFor, Place
<1>13. CASE x[2] # 0
  <2> DEFINE e == x[3]
  <2>1. e \in Entered(rows) /\ x[2] = 1 /\ x[1] = T(e)
    BY <1>2, <1>5, <1>6, <1>13
  <2>2. ~KeepsPlace(b, e) /\ rows[e].res \in Losses
    BY <1>1, <1>2, <1>13 DEF Spends, KeepsPlace, Neutral, Losses
  <2>3. T(m) <= T(e) /\ (T(m) = T(e) => m < e) /\ T(m) \in Nat /\ T(e) \in Nat /\ m \in Nat /\ e \in Nat
    BY <1>3, <1>7, <1>8, <2>1 DEF Before
  <2>4. ASSUME ~(m < e) PROVE FALSE
    <3>1. e < m
      BY <1>9, <2>2, <2>3, <2>4 DEF Losses
    <3>2. DayOf[e] <= DayOf[m]
      BY <1>7, <1>8, <2>1, <2>3, <3>1, ReplayAssumption DEF ReplayAssumption
    <3>3. DayOf[m] <= DayOf[e]
      BY <1>3, <1>8, <2>1, <2>3, ReplayAssumption, DaysPass
    <3>4. DayOf[m] = DayOf[e]
      <4>1. DayOf[m] \in Nat /\ DayOf[e] \in Nat
        BY <1>7, <1>8, <2>1, ReplayAssumption DEF ReplayAssumption
      <4> QED BY <3>2, <3>3, <4>1
    <3>5. OwnTime(b, e) <= T(m)
      BY <1>4, <1>8, <1>9, <2>1, <2>3, <3>1, <3>4
    <3>6. T(e) = OwnTime(b, e)
      BY <1>4, <2>1, <2>2
    <3> QED BY <2>3, <2>4, <3>5, <3>6
  <2>5. e # 0
    BY <1>7, <2>1
  <2> QED BY <1>13, <2>4, <2>5 DEF EarnedFor, Place
<1> QED BY <1>12, <1>13

(* more has further results than rows, without an effect. *)
Further(rows, more, log) ==
  \A e \in Exams : more[e] # rows[e] =>
    rows[e].res = "none" /\ more[e].excl /\ <<e, more[e].at>> \notin Opening(log).settled

(* A further result that stands at its exam's hour moves no other. *)
LEMMA FurtherTimes ==
  ASSUME NEW rows, NEW more, NEW log, IsLedger(rows, log), IsLedger(more, log),
         Entered(rows) \subseteq Entered(more), \A g \in Entered(rows) : more[g] = rows[g],
         \A g \in Entered(more) \ Entered(rows) : OwnTime(Context(more, log), g) = At(g),
         NEW e \in Entered(rows)
  PROVE  LedgerTime(Context(more, log), e) = LedgerTime(Context(rows, log), e)
<1> DEFINE c == Context(rows, log)
           d == Context(more, log)
           Among(k, T, g) == g \in T /\ g <= e /\ DayOf[g] = DayOf[e]
<1>1. IF KeepsPlace(c, e)
      THEN /\ \E g : Among(c, Entered(rows), g) /\ LedgerTime(c, e) = OwnTime(c, g)
           /\ \A g : Among(c, Entered(rows), g) => OwnTime(c, g) <= LedgerTime(c, e)
      ELSE LedgerTime(c, e) = OwnTime(c, e)
  BY LedgerTimeIsGreatest
<1>2. IF KeepsPlace(d, e)
      THEN /\ \E g : Among(d, Entered(more), g) /\ LedgerTime(d, e) = OwnTime(d, g)
           /\ \A g : Among(d, Entered(more), g) => OwnTime(d, g) <= LedgerTime(d, e)
      ELSE LedgerTime(d, e) = OwnTime(d, e)
  BY LedgerTimeIsGreatest
<1>3. /\ c.rows = rows /\ c.open = Opening(log) /\ c.back = ReturnDay(log) /\ c.credits = Credits(log)
      /\ d.rows = more /\ d.open = Opening(log) /\ d.back = ReturnDay(log) /\ d.credits = Credits(log)
  BY DEF Context
<1>4. LedgerTime(c, e) \in Nat /\ LedgerTime(d, e) \in Nat
  BY LedgerTimeIsOfDay
<1>5. \A g \in Entered(more) \ Entered(rows) : OwnTime(d, g) = At(g)
  OBVIOUS
<1> HIDE DEF c, d
<1>6. ASSUME NEW g \in Entered(rows)
      PROVE  (KeepsPlace(c, g) <=> KeepsPlace(d, g)) /\ OwnTime(c, g) = OwnTime(d, g)
  <2>1. c.rows[g] = d.rows[g]
    BY <1>3
  <2>2. KeepsPlace(c, g) <=> KeepsPlace(d, g)
    BY <1>3, <2>1 DEF KeepsPlace, Neutral
  <2> QED BY <1>3, <2>1, <2>2 DEF OwnTime
<1>7. CASE ~KeepsPlace(c, e)
  BY <1>1, <1>2, <1>6, <1>7 DEF c, d
<1>8. CASE KeepsPlace(c, e)
  <2>1. KeepsPlace(d, e)
    BY <1>6, <1>8
  <2>2. PICK g : Among(c, Entered(rows), g) /\ LedgerTime(c, e) = OwnTime(c, g)
    BY <1>1, <1>8
  <2>3. LedgerTime(c, e) <= LedgerTime(d, e)
    <3>1. Among(d, Entered(more), g) /\ OwnTime(d, g) = LedgerTime(c, e)
      BY <1>6, <2>2
    <3> QED BY <1>2, <2>1, <3>1
  <2>4. PICK h : Among(d, Entered(more), h) /\ LedgerTime(d, e) = OwnTime(d, h)
    BY <1>2, <2>1
  <2>5. LedgerTime(d, e) <= LedgerTime(c, e)
    <3>1. CASE h \in Entered(rows)
      <4>1. Among(c, Entered(rows), h) /\ OwnTime(c, h) = LedgerTime(d, e)
        BY <1>6, <2>4, <3>1
      <4> QED BY <1>1, <1>8, <4>1
    <3>2. CASE h \notin Entered(rows)
      <4>1. LedgerTime(d, e) = At(h) /\ At(h) = At(e) /\ OwnTime(c, e) = At(e)
        BY <1>5, <1>8, <2>4, <3>2 DEF At, OwnTime
      <4>2. Among(c, Entered(rows), e)
        <5>1. e \in Nat
          BY ReplayAssumption, ExamsAreNumbers DEF Entered
        <5> QED BY <5>1
      <4> QED BY <1>1, <1>8, <4>1, <4>2
    <3> QED BY <3>1, <3>2
  <2> QED BY <1>4, <2>3, <2>5 DEF c, d
<1> QED BY <1>7, <1>8

(* more has the results of rows and others. *)
HasAll(rows, more) ==
  Entered(rows) \subseteq Entered(more) /\ \A e \in Entered(rows) : more[e] = rows[e]

(* Bared, the one ledger is the other with further results that are no passes. *)
LEMMA BareJoins ==
  ASSUME NEW rows, NEW more, NEW log, IsLedger(rows, log), IsLedger(more, log), HasAll(rows, more),
         \A e \in Entered(more) \ Entered(rows) :
           Bare(more, log)[e].res # "pass" /\ OwnTime(Context(more, log), e) = At(e)
  PROVE  LET c == WithEvents(Context(Bare(rows, log), log))
             d == WithEvents(Context(Bare(more, log), log)) IN
         /\ Joins(c, d) /\ Bared(c, c)
         /\ d.events = c.events \cup {<<LedgerTime(Context(more, log), e), 1, e>> :
                                       e \in Entered(more) \ Entered(rows)}
<1> DEFINE r == Bare(rows, log)
           m == Bare(more, log)
           b == Context(r, log)
           k == Context(m, log)
           c == WithEvents(b)
           d == WithEvents(k)
           Idle(e) == Neutral(Context(rows, log), e)
           Idles(e) == Neutral(Context(more, log), e)
           New == Entered(more) \ Entered(rows)
           T(e) == LedgerTime(Context(more, log), e)
<1>1. /\ IsLedger(r, log) /\ Entered(r) = Entered(rows)
      /\ \A e \in Entered(rows) : ~Idle(e) => r[e] = rows[e]
      /\ \A e \in Entered(rows) : Idle(e) => r[e].res = "weak" /\ r[e].excl
  BY BareRows
<1>2. IsLedger(m, log) /\ Entered(m) = Entered(more)
      /\ \A e \in Entered(more) : ~Idles(e) => m[e] = more[e]
  BY BareRows
<1>3. /\ Entered(rows) \subseteq Entered(more) /\ \A e \in Entered(rows) : more[e] = rows[e]
  BY DEF HasAll
<1>4. \A e \in Entered(rows) : Idle(e) <=> Idles(e)
  BY <1>3 DEF Neutral, Context
<1>5. ASSUME NEW e \in Entered(rows) PROVE m[e] = r[e]
  <2>1. CASE ~Idle(e)
    BY <1>1, <1>2, <1>3, <1>4, <2>1
  <2>2. CASE Idle(e)
    <3>1. e \in Exams /\ e \in Entered(more) /\ more[e] = rows[e]
      BY <1>3 DEF Entered
    <3>2. m[e] = [more[e] EXCEPT !.res = "weak", !.excl = TRUE]
      BY <1>4, <2>2, <3>1 DEF Bare
    <3>3. r[e] = [rows[e] EXCEPT !.res = "weak", !.excl = TRUE]
      BY <2>2, <3>1 DEF Bare
    <3> QED BY <3>1, <3>2, <3>3
  <2> QED BY <2>1, <2>2
<1>6. /\ b.rows = r /\ b.log = log /\ b.open = Opening(log) /\ b.back = ReturnDay(log)
      /\ k.rows = m /\ k.log = log /\ k.open = Opening(log) /\ k.back = ReturnDay(log)
  BY DEF Context
<1>7. /\ c.events = CommandEvents(b) \cup ResultEvents(b)
      /\ d.events = CommandEvents(k) \cup ResultEvents(k)
  BY DEF WithEvents, Context
<1>8. /\ c.rows = r /\ c.log = log /\ c.open = Opening(log) /\ c.back = ReturnDay(log)
      /\ c.credits = Credits(log) /\ \A x \in c.events : x[2] # 0 => x[3] \in Entered(r)
  BY <1>1, LedgerIsHistory
<1>9. /\ d.rows = m /\ d.log = log /\ d.open = Opening(log) /\ d.back = ReturnDay(log)
      /\ d.credits = Credits(log)
  BY <1>2, LedgerIsHistory
<1>10. \A e \in Entered(more) : LedgerTime(k, e) = T(e)
  BY BareTimes
<1>11. \A e \in Entered(rows) : LedgerTime(b, e) = T(e)
  <2>1. \A e \in Entered(rows) : LedgerTime(b, e) = LedgerTime(Context(rows, log), e)
    BY BareTimes
  <2>2. \A e \in Entered(rows) : T(e) = LedgerTime(Context(rows, log), e)
    BY <1>3, FurtherTimes
  <2> QED BY <2>1, <2>2
<1> HIDE DEF r, m, Idle, Idles, T, New, b, k, c, d
<1>12. CommandEvents(b) = CommandEvents(k)
  BY <1>6 DEF CommandEvents
<1>13. ResultEvents(k) = ResultEvents(b) \cup {<<T(e), 1, e>> : e \in New}
  BY <1>1, <1>2, <1>3, <1>6, <1>10, <1>11 DEF ResultEvents, New
<1>14. d.events = c.events \cup {<<T(e), 1, e>> : e \in New}
  BY <1>7, <1>12, <1>13
<1>15. \A e \in Entered(r) : c.rows[e] = d.rows[e] /\ (Neutral(c, e) <=> Neutral(d, e))
  BY <1>1, <1>5, <1>8, <1>9 DEF Neutral
<1>16. Joins(c, d)
  <2>1. \A x \in d.events \ c.events : x[2] = 1 /\ x[3] \in Entered(m) \ Entered(r)
    BY <1>1, <1>2, <1>14 DEF New
  <2>2. \A x \in d.events \ c.events : x[2] = 1 /\ x[3] \notin Entered(r) /\ d.rows[x[3]].res # "pass"
    BY <1>1, <1>2, <1>9, <2>1 DEF m
  <2> QED BY <1>1, <1>2, <1>3, <1>8, <1>9, <1>14, <1>15, <2>2 DEF Joins
<1>17. Bared(c, c)
  <2>1. ASSUME NEW e \in Entered(r), Neutral(c, e) PROVE r[e].res # "pass"
    <3>1. CASE Idle(e)
      BY <1>1, <3>1
    <3>2. CASE ~Idle(e)
      <4>1. r[e] = rows[e]
        BY <1>1, <3>2
      <4> QED BY <1>8, <2>1, <3>2, <4>1 DEF Neutral, Idle, Context
    <3> QED BY <3>1, <3>2
  <2> QED BY <1>8, <2>1 DEF Bared
<1> QED BY <1>14, <1>16, <1>17 DEF c, d, b, k, r, m, T, New

LEMMA FurtherIsMore ==
  ASSUME NEW rows, NEW more, NEW log, IsLedger(rows, log), IsLedger(more, log),
         Further(rows, more, log)
  PROVE  LET c == WithEvents(Context(Bare(rows, log), log))
             d == WithEvents(Context(Bare(more, log), log)) IN
         More(c, d) /\ Bared(c, c) /\ SettledExams(rows, log) = SettledExams(more, log)
<1> DEFINE r == Bare(rows, log)
           m == Bare(more, log)
           c == WithEvents(Context(r, log))
           d == WithEvents(Context(m, log))
           k == Context(more, log)
<1>1. HasAll(rows, more) /\ \A e \in Entered(more) \ Entered(rows) : more[e].excl
  BY DEF Further, Entered, HasAll
<1>2. ASSUME NEW e \in Entered(more) \ Entered(rows)
      PROVE  m[e].res = "weak" /\ m[e].excl /\ OwnTime(k, e) = At(e)
  <2>1. Neutral(k, e)
    BY <1>1, <1>2 DEF Neutral, Context
  <2>2. m[e].res = "weak" /\ m[e].excl
    BY <2>1, BareRows
  <2> QED BY <2>1, <2>2 DEF KeepsPlace, OwnTime
<1>3. Joins(c, d) /\ Bared(c, c)
  BY <1>1, <1>2, BareJoins
<1>4. d.rows = m /\ c.rows = r /\ Entered(m) = Entered(more) /\ Entered(r) = Entered(rows)
      /\ \A x \in d.events : x[2] # 0 => x[3] \in Entered(m)
  BY BareRows, LedgerIsHistory
<1> HIDE DEF c, d, m, r
<1>5. More(c, d)
  <2>1. \A x \in d.events \ c.events : x[3] \in Entered(more) \ Entered(rows)
    BY <1>3, <1>4 DEF Joins
  <2>2. \A x \in d.events \ c.events : d.rows[x[3]].excl
    BY <1>2, <1>4, <2>1
  <2> QED BY <1>3, <2>2 DEF More, Neutral
<1>6. SettledExams(rows, log) = SettledExams(more, log)
  <2>1. ASSUME NEW e \in Entered(more) \ Entered(rows) PROVE <<e, more[e].at>> \notin Opening(log).settled
    BY <2>1 DEF Further, Entered
  <2> QED BY <1>1, <2>1 DEF SettledExams, HasAll
<1> QED BY <1>3, <1>5, <1>6 DEF c, d, m, r

(***************************************************************************)
(* Whatever a replay says a bonus saved from a dismissal, a bonus before   *)
(* it paid: one that the replay of the ledger with further results without *)
(* an effect gives too.                                                    *)
(***************************************************************************)
THEOREM SavedIsEarned ==
  ASSUME NEW rows, NEW more, NEW log, IsLedger(rows, log), IsLedger(more, log),
         Further(rows, more, log), NEW s, NEW t,
         History(rows, log, s.bonuses) = History(more, log, t.bonuses),
         NEW p \in Replayed(rows, log, s).saved
  PROVE  \E b \in Replayed(more, log, t).bonuses : EarnedFor(log, b, p)
<1> DEFINE r == Bare(rows, log)
           m == Bare(more, log)
           c == WithEvents(Context(r, log))
           d == WithEvents(Context(m, log))
<1>1. IsLedger(r, log) /\ IsLedger(m, log)
  BY BareRows
<1>2. More(c, d) /\ Bared(c, c) /\ SettledExams(rows, log) = SettledExams(more, log)
  BY FurtherIsMore
<1>3. SettledExams(r, log) = SettledExams(rows, log) /\ SettledExams(m, log) = SettledExams(more, log)
  BY BareRows DEF SettledExams, Entered
<1>4. Run(c, s).saved = Replayed(rows, log, s).saved /\ Run(d, t).bonuses = Replayed(more, log, t).bonuses
  BY BareReplay DEF Replayed
<1> HIDE DEF r, m
<1>5. c.rows = r /\ c.log = log /\ c.open = Opening(log) /\ c.back = ReturnDay(log)
  BY <1>1, LedgerIsHistory
<1>6. d.rows = m /\ d.log = log /\ d.open = Opening(log) /\ d.back = ReturnDay(log)
  BY <1>1, LedgerIsHistory
<1>7. Ordered(c) /\ Ordered(d) /\ Placed(d)
  BY <1>1, LedgerIsOrdered, LedgerIsPlaced
<1>8. \A x \in c.events : IsEvent(c, x)
  BY <1>1, ReplayAssumption, EventsAreEvents
<1> HIDE DEF c, d
<1>9. Beginning(c, s) = Beginning(d, t)
  <2> DEFINE From(k, u) == {b \in u.bonuses \cap SettledExams(k.rows, k.log) : At(b) <= k.open.at}
  <2>1. From(c, s) = History(rows, log, s.bonuses) /\ From(d, t) = History(more, log, t.bonuses)
    BY <1>2, <1>3, <1>5, <1>6 DEF History
  <2>2. From(c, s) = From(d, t)
    BY <2>1
  <2> QED BY <1>5, <1>6, <2>2 DEF Beginning
<1>10. Blank(Beginning(c, s))
  <2> DEFINE b == Beginning(c, s)
  <2>1. Opening(log) \in Entry
    BY ReplayAssumption, OpeningIsEntry DEF IsLedger
  <2>2. Capped(c.open.after) \in Nat
    BY <1>5, <2>1, CappedBounds, ReplayAssumption DEF Entry, ReplayAssumption
  <2>3. b.bal = Capped(c.open.after) /\ b.shadow = b.bal /\ b.bonuses = {} /\ b.saved = {} /\ Whole(b)
    BY DEF Beginning, Whole, Parts
  <2>4. b.last \in Nat
    BY BeginningLast
  <2> QED BY <2>2, <2>3, <2>4 DEF Blank, Money
<1>11. \A q \in Run(c, s).saved : \E b \in Run(d, t).bonuses : EarnedFor(d.log, b, q)
  BY <1>2, <1>7, <1>8, <1>9, <1>10, ReplayAssumption, MoreRuns
<1> QED BY <1>4, <1>6, <1>11

-----------------------------------------------------------------------------
(***************************************************************************)
(* An old result entered after a credit of a later day: what it and the    *)
(* results after it may spend until that credit.                           *)
(***************************************************************************)
(* What decides on a dismissal, and what says of one. *)
SameWallet(a, b) ==
  /\ Whole(b) /\ b.bal = a.bal /\ b.known = a.known /\ b.late = a.late
  /\ b.gone = a.gone /\ b.why = a.why /\ b.bonuses = a.bonuses

LEMMA WalletBreaks ==
  ASSUME NEW c, NEW a, NEW x, NEW f, Whole(a)
  PROVE  SameWallet(a, BreakStreak(c, a, x)) /\ SameWallet(a, ApplyDeferred(a, f))
<1>1. ASSUME NEW b, Whole(b), NEW e PROVE SameWallet(b, ResetStreak(b, e))
  BY <1>1 DEF ResetStreak, SameWallet, Whole, Parts
<1>2. ASSUME NEW w PROVE SameWallet(a, [a EXCEPT !.deferred = w])
  BY DEF SameWallet, Whole, Parts
<1>3. SameWallet(a, BreakStreak(c, a, x))
  BY <1>1, <1>2 DEF BreakStreak, BreakOrDefer
<1>4. SameWallet(a, ApplyDeferred(a, f))
  <2> DEFINE due == {w \in a.deferred : w[2] = f}
             b == [a EXCEPT !.deferred = @ \ due]
  <2>1. SameWallet(a, a)
    BY DEF SameWallet
  <2>2. SameWallet(a, b)
    BY <1>2
  <2>3. ApplyDeferred(a, f) = IF due = {} THEN a ELSE ResetStreak(b, Greatest({w[1] : w \in due}))
    BY DEF ApplyDeferred
  <2> HIDE DEF b, due
  <2>4. \A e : SameWallet(b, ResetStreak(b, e))
    BY <1>1, <2>2 DEF SameWallet
  <2> QED BY <2>1, <2>2, <2>3, <2>4 DEF SameWallet
<1> QED BY <1>3, <1>4

LEMMA WalletDismissed ==
  ASSUME NEW a, NEW priority, NEW rule, NEW e, Whole(a)
  PROVE  LET b == DismissAt(a, priority, rule, e) IN
         /\ Whole(b) /\ b.gone /\ b.bonuses = a.bonuses
         /\ b.why = a.why \/ b.why = [rule |-> rule, of |-> e]
<1> DEFINE why == [rule |-> rule, of |-> e]
           b == Dismiss(a, priority, why)
<1>1. Whole(b) /\ b.gone /\ b.bonuses = a.bonuses /\ b.why \in {a.why, why}
  <2> DEFINE d == [a EXCEPT !.late = 0, !.gone = TRUE]
             g == [d EXCEPT !.priority = priority, !.why = why]
  <2>1. Whole(d) /\ d.gone /\ d.bonuses = a.bonuses /\ d.why = a.why
    BY DEF Whole, Parts
  <2>2. b \in {d, g}
    BY DEF Dismiss
  <2> HIDE DEF d
  <2>3. Whole(g) /\ g.gone /\ g.bonuses = d.bonuses /\ g.why = why
    BY <2>1 DEF Whole, Parts
  <2> QED BY <2>1, <2>2, <2>3
<1>2. DismissAt(a, priority, rule, e) = [b EXCEPT !.bal = 0, !.dismissals = @ \cup {why}]
  BY DEF DismissAt
<1> HIDE DEF b, why
<1>3. LET g == [b EXCEPT !.bal = 0, !.dismissals = @ \cup {why}] IN
      Whole(g) /\ g.gone = b.gone /\ g.bonuses = b.bonuses /\ g.why = b.why
  BY <1>1 DEF Whole, Parts
<1> QED BY <1>1, <1>2, <1>3 DEF why

(* The loss finds an empty balance and is not spared. *)
Falls(c, a, e) == a.bal = 0 /\ ~Introduced(c, Knowing(c, a, e), e)

LEMMA KnowingIs ==
  ASSUME NEW c, NEW a, NEW e, Whole(a)
  PROVE  LET k == Knowing(c, a, e)
             credit == LaterCredit(c, e) IN
         /\ Whole(k) /\ k.bal = a.bal /\ k.shadow = a.shadow /\ k.gone = a.gone /\ k.why = a.why
         /\ k.bonuses = a.bonuses
         /\ IF a.gone \/ credit = 0 \/ a.late # 0 THEN k.late = a.late /\ k.known = a.known
            ELSE k.late = credit /\ k.known = a.bal
<1> DEFINE credit == LaterCredit(c, e)
           b == [a EXCEPT !.late = credit, !.known = a.bal]
<1>1. Knowing(c, a, e) = IF a.gone \/ credit = 0 \/ a.late # 0 THEN a ELSE b
  BY DEF Knowing
<1> HIDE DEF credit
<1>2. /\ Whole(b) /\ b.bal = a.bal /\ b.shadow = a.shadow /\ b.gone = a.gone /\ b.why = a.why
      /\ b.bonuses = a.bonuses /\ b.late = credit /\ b.known = a.bal
  BY DEF Whole, Parts
<1> HIDE DEF b
<1>3. CASE a.gone \/ credit = 0 \/ a.late # 0
  BY <1>1, <1>3 DEF credit
<1>4. CASE ~(a.gone \/ credit = 0 \/ a.late # 0)
  BY <1>1, <1>2, <1>4 DEF credit
<1> QED BY <1>3, <1>4

(* A loss dismisses as Falls says, and lowers the balance. *)
Lost(c, a, e, b) ==
  LET p == PenaltyOf[e]
      k == Knowing(c, a, e) IN
  /\ Whole(b) /\ b.bonuses = a.bonuses
  /\ Falls(c, a, e) => b.gone /\ (b.why = a.why \/ b.why = [rule |-> "loss", of |-> e])
  /\ ~Falls(c, a, e) =>
       /\ b.gone = a.gone /\ b.why = a.why /\ b.late = k.late /\ b.bal = Less(a.bal, p)
       /\ b.known = IF k.gone \/ k.late = 0 \/ Omitted(c, k, e) THEN k.known ELSE Less(k.known, p)

LEMMA WalletLoses ==
  ASSUME NEW c, NEW a, NEW x, Whole(a)
  PROVE  Lost(c, a, x[3], Lose(c, a, x))
<1> DEFINE e == x[3]
           p == PenaltyOf[e]
           k == Knowing(c, a, e)
           spared == Introduced(c, k, e)
           known == IF k.gone \/ k.late = 0 \/ Omitted(c, k, e) THEN k.known ELSE Less(k.known, p)
           saved == IF k.shadow = 0 /\ k.bal > 0 /\ ~spared THEN k.saved \cup {e} ELSE k.saved
           lost == [k EXCEPT !.bal = Less(@, p), !.shadow = Less(@, p), !.known = known, !.saved = saved]
           broken == BreakStreak(c, lost, x)
<1>1. Whole(k) /\ k.bal = a.bal /\ k.gone = a.gone /\ k.why = a.why /\ k.bonuses = a.bonuses
  BY KnowingIs
<1>2. Lose(c, a, x) = DismissIf(k.bal = 0 /\ ~spared, broken, e)
  BY DEF Lose, LoseKnowing
<1>3. Falls(c, a, e) <=> k.bal = 0 /\ ~spared
  BY <1>1 DEF Falls
<1> HIDE DEF k, spared, p, known, saved
<1>4. /\ Whole(lost) /\ lost.bal = Less(k.bal, p) /\ lost.known = known /\ lost.late = k.late
      /\ lost.gone = k.gone /\ lost.why = k.why /\ lost.bonuses = k.bonuses
  BY <1>1 DEF Whole, Parts
<1> HIDE DEF lost
<1>5. SameWallet(lost, broken)
  BY <1>4, WalletBreaks
<1> HIDE DEF broken, e
<1>6. CASE Falls(c, a, e)
  <2> DEFINE b == DismissAt(broken, 60, "loss", e)
  <2>1. Lose(c, a, x) = b
    BY <1>2, <1>3, <1>6 DEF DismissIf
  <2>2. Whole(b) /\ b.gone /\ b.bonuses = broken.bonuses
        /\ (b.why = broken.why \/ b.why = [rule |-> "loss", of |-> e])
    BY <1>5, WalletDismissed DEF SameWallet
  <2> HIDE DEF b
  <2> QED BY <1>1, <1>4, <1>5, <1>6, <2>1, <2>2 DEF SameWallet, e, Lost
<1>7. CASE ~Falls(c, a, e)
  <2>1. Lose(c, a, x) = broken
    BY <1>2, <1>3, <1>7 DEF DismissIf
  <2> QED BY <1>1, <1>4, <1>5, <1>7, <2>1 DEF SameWallet, e, k, known, p, Lost
<1> QED BY <1>6, <1>7 DEF e

LEMMA WalletAdds ==
  ASSUME NEW a, NEW l, Whole(a)
  PROVE  LET b == AddEntry(a, l) IN
         /\ Whole(b) /\ b.bal = Capped(a.bal + l.applied) /\ b.known = a.known
         /\ b.late = IF l.applied > 0 THEN 0 ELSE a.late
         /\ b.gone = a.gone /\ b.why = a.why /\ b.bonuses = a.bonuses
<1> DEFINE bal == Capped(a.bal + l.applied)
           back == IF l.undoes # 0 THEN bal - a.bal ELSE 0
           b == [a EXCEPT !.bal = bal, !.shadow = Capped(@ + l.applied),
                          !.late = IF l.applied > 0 THEN 0 ELSE @, !.hold = Less(@, back)]
<1>1. AddEntry(a, l) = ClampHold(b)
  BY DEF AddEntry
<1> HIDE DEF bal, back
<1>2. /\ Whole(b) /\ b.bal = bal /\ b.known = a.known /\ b.late = IF l.applied > 0 THEN 0 ELSE a.late
      /\ b.gone = a.gone /\ b.why = a.why /\ b.bonuses = a.bonuses
  BY DEF Whole, Parts
<1> HIDE DEF b
<1>3. SameWallet(b, ClampHold(b))
  BY <1>2 DEF ClampHold, SameWallet, Whole, Parts
<1> QED BY <1>1, <1>2, <1>3 DEF SameWallet, bal

LEMMA WalletDeducts ==
  ASSUME NEW c, NEW a, NEW i, Whole(a)
  PROVE  LET b == DeductEntry(c, a, i) IN
         /\ Whole(b) /\ b.bonuses = a.bonuses
         /\ b.why = a.why \/ b.why.rule = "hand"
         /\ \/ b.gone
            \/ /\ b.gone = a.gone /\ b.late = a.late
               /\ b.bal = Less(a.bal, c.log[i].applied) /\ b.known = Less(a.known, c.log[i].applied)
<1> DEFINE l == c.log[i]
           n == l.applied
           counted == i \notin Undone(c.log)
           dismisses == counted /\ (l.violation \/ (l.applied > 0 /\ a.bal = 0))
           hold == IF l.undoes # 0 THEN a.hold ELSE a.hold + Smaller(a.bal, n)
           saved == IF counted /\ l.applied > 0 /\ a.shadow = 0 THEN a.saved \cup {0} ELSE a.saved
           why == [rule |-> "hand", of |-> i]
           b == [a EXCEPT !.bal = Less(@, n), !.shadow = Less(@, n), !.known = Less(@, n), !.hold = hold]
           d == [b EXCEPT !.saved = saved]
           g == [b EXCEPT !.late = 0, !.gone = TRUE]
           h == [g EXCEPT !.priority = 60, !.why = why]
<1>1. b.saved = a.saved
  BY DEF Whole, Parts
<1>2. DeductEntry(c, a, i) = IF dismisses THEN Dismiss(b, 60, why) ELSE d
  BY <1>1 DEF DeductEntry
<1>3. Dismiss(b, 60, why) \in {g, h}
  BY DEF Dismiss
<1>4. why.rule = "hand"
  OBVIOUS
<1> HIDE DEF l, n, hold, saved, dismisses, why
<1>5. /\ Whole(b) /\ b.bal = Less(a.bal, n) /\ b.known = Less(a.known, n) /\ b.late = a.late
      /\ b.gone = a.gone /\ b.why = a.why /\ b.bonuses = a.bonuses
  BY DEF Whole, Parts
<1> HIDE DEF b
<1>6. SameWallet(b, d)
  BY <1>5 DEF SameWallet, Whole, Parts
<1>7. Whole(g) /\ g.gone /\ g.why = b.why /\ g.bonuses = b.bonuses
  BY <1>5 DEF Whole, Parts
<1> HIDE DEF g
<1>8. Whole(h) /\ h.gone /\ h.why = why /\ h.bonuses = g.bonuses
  BY <1>7 DEF Whole, Parts
<1> HIDE DEF d, h
<1>9. CASE dismisses
  BY <1>2, <1>3, <1>4, <1>5, <1>7, <1>8, <1>9
<1>10. CASE ~dismisses
  BY <1>2, <1>5, <1>6, <1>10 DEF SameWallet, n, l
<1> QED BY <1>9, <1>10

(* A pass leaves the wallet alone or earns a bonus. *)
LEMMA WalletCounts ==
  ASSUME NEW c, NEW a, NEW e, Whole(a)
  PROVE  LET b == CountPass(c, a, e) IN
         \/ SameWallet(a, b)
         \/ /\ Whole(b) /\ b.bal = Capped(a.bal + 1) /\ b.known = Capped(a.known + 1)
            /\ b.late = a.late /\ b.gone = a.gone /\ b.why = a.why /\ b.bonuses = a.bonuses \cup {e}
<1> DEFINE started == [a EXCEPT !.first = e, !.last = e]
           waits == [a EXCEPT !.first = e, !.last = e, !.waiting = TRUE]
           earned == [a EXCEPT !.bal = Capped(@ + 1), !.known = Capped(@ + 1),
                               !.count = @ + 1, !.bonuses = @ \cup {e}]
<1>1. CountPass(c, a, e) \in {a, ResetStreak(a, e), started, waits, ResetStreak(earned, e)}
  BY DEF CountPass
<1>2. ASSUME NEW b, Whole(b) PROVE SameWallet(b, ResetStreak(b, e))
  BY <1>2 DEF ResetStreak, SameWallet, Whole, Parts
<1>3. SameWallet(a, a) /\ SameWallet(a, started) /\ SameWallet(a, waits) /\ SameWallet(a, ResetStreak(a, e))
  BY <1>2 DEF SameWallet, Whole, Parts
<1>4. /\ Whole(earned) /\ earned.bal = Capped(a.bal + 1) /\ earned.known = Capped(a.known + 1)
      /\ earned.late = a.late /\ earned.gone = a.gone /\ earned.why = a.why
      /\ earned.bonuses = a.bonuses \cup {e}
  BY DEF Whole, Parts
<1> HIDE DEF started, waits, earned
<1>5. SameWallet(earned, ResetStreak(earned, e))
  BY <1>2, <1>4
<1> QED BY <1>1, <1>3, <1>4, <1>5 DEF SameWallet

(* The results that a loss of the balance is counted for. *)
Loses(c, e) == ~Neutral(c, e) /\ c.rows[e].res \in Losses /\ e \notin Finals

(* Only a loss that finds an empty balance is told as the rule of losses. *)
LEMMA EventTells ==
  ASSUME NEW c, NEW a, NEW x, Whole(a)
  PROVE  LET b == ReplayEvent(c, a, x) IN
         /\ Whole(b)
         /\ \/ b.why = a.why \/ b.why.rule # "loss"
            \/ x[2] # 0 /\ b.why.of = x[3] /\ Loses(c, x[3]) /\ Falls(c, a, x[3])
<1>1. CASE x[2] = 0
  <2>1. ReplayEvent(c, a, x) = IF c.log[x[3]].action = "add" THEN AddEntry(a, c.log[x[3]])
                               ELSE DeductEntry(c, a, x[3])
    BY <1>1 DEF ReplayEvent, ReplayCommand
  <2>2. LET b == AddEntry(a, c.log[x[3]]) IN Whole(b) /\ b.why = a.why
    BY WalletAdds
  <2>3. ASSUME NEW i
        PROVE  /\ Whole(DeductEntry(c, a, i))
               /\ DeductEntry(c, a, i).why = a.why \/ DeductEntry(c, a, i).why.rule = "hand"
    <3> DEFINE b == DeductEntry(c, a, i)
    <3>1. Whole(b) /\ (b.why = a.why \/ b.why.rule = "hand")
      BY WalletDeducts
    <3> QED BY <3>1
  <2> QED BY <2>1, <2>2, <2>3
<1>2. CASE x[2] # 0
  <2> DEFINE e == x[3]
             r == ReplayResult(c, a, x)
             told(b) == \/ b.why = a.why \/ b.why.rule # "loss"
                        \/ b.why.of = e /\ Loses(c, e) /\ Falls(c, a, e)
  <2>1. Whole(r) /\ told(r)
    <3>1. CASE Neutral(c, e)
      BY <3>1 DEF ReplayResult
    <3>2. CASE Loses(c, e)
      <4>1. r = Lose(c, a, x)
        BY <3>2 DEF ReplayResult, Losses, Loses
      <4>2. Whole(r) /\ (Falls(c, a, e) => r.why = a.why \/ r.why = [rule |-> "loss", of |-> e])
            /\ (~Falls(c, a, e) => r.why = a.why)
        BY <4>1, WalletLoses DEF Lost
      <4> QED BY <3>2, <4>2
    <3>3. CASE ~Neutral(c, e) /\ ~Loses(c, e)
      <4>1. \/ r = Cheat(a, e) \/ r = DismissAt(a, 75, "final", e)
            \/ r = CountPass(c, a, e) \/ r = BreakStreak(c, a, x)
        BY <3>3 DEF ReplayResult, Loses
      <4>2. LET b == Cheat(a, e) IN Whole(b) /\ told(b)
        <5>1. ASSUME NEW m, Whole(m), m.why = a.why, NEW priority, NEW rule, rule # "loss"
              PROVE  LET b == DismissAt(m, priority, rule, e) IN
                     Whole(b) /\ (b.why = a.why \/ b.why.rule # "loss")
          <6> DEFINE b == DismissAt(m, priority, rule, e)
          <6>1. Whole(b) /\ (b.why = m.why \/ b.why = [rule |-> rule, of |-> e])
            BY <5>1, WalletDismissed
          <6> HIDE DEF b
          <6>2. Whole(b) /\ (b.why = a.why \/ b.why.rule # "loss")
            BY <5>1, <6>1
          <6> QED BY <6>2 DEF b
        <5>2. ASSUME NEW n
              PROVE  LET b == [a EXCEPT !.cheats = n] IN Whole(b) /\ b.why = a.why
          BY DEF Whole, Parts
        <5> DEFINE m1 == [a EXCEPT !.cheats = 1]
                   m2 == [a EXCEPT !.cheats = a.cheats + 1]
        <5>3. Cheat(a, e) = DismissAt(m1, 80, "cheat", e) \/ Cheat(a, e) = DismissAt(m2, 100, "cheats", e)
          BY DEF Cheat
        <5>4. Whole(m1) /\ m1.why = a.why /\ Whole(m2) /\ m2.why = a.why
          BY <5>2
        <5> HIDE DEF m1, m2
        <5>5. LET b == DismissAt(m1, 80, "cheat", e) IN Whole(b) /\ (b.why = a.why \/ b.why.rule # "loss")
          BY <5>1, <5>4
        <5>6. LET b == DismissAt(m2, 100, "cheats", e) IN Whole(b) /\ (b.why = a.why \/ b.why.rule # "loss")
          BY <5>1, <5>4
        <5> QED BY <5>3, <5>5, <5>6
      <4>3. LET b == DismissAt(a, 75, "final", e) IN Whole(b) /\ told(b)
        <5>1. LET b == DismissAt(a, 75, "final", e) IN
              Whole(b) /\ (b.why = a.why \/ b.why = [rule |-> "final", of |-> e])
          BY WalletDismissed
        <5> QED BY <5>1
      <4>4. LET b == CountPass(c, a, e) IN Whole(b) /\ b.why = a.why
        <5> DEFINE b == CountPass(c, a, e)
        <5>1. SameWallet(a, b) \/ (Whole(b) /\ b.why = a.why)
          BY WalletCounts
        <5> QED BY <5>1 DEF SameWallet
      <4>5. LET b == BreakStreak(c, a, x) IN Whole(b) /\ b.why = a.why
        BY WalletBreaks DEF SameWallet
      <4> HIDE DEF r
      <4> QED BY <4>1, <4>2, <4>3, <4>4, <4>5
    <3> QED BY <3>1, <3>2, <3>3
  <2> HIDE DEF r
  <2>2. SameWallet(r, ApplyDeferred(r, e))
    BY <2>1, WalletBreaks
  <2>3. ReplayEvent(c, a, x) = ApplyDeferred(r, e)
    BY <1>2 DEF ReplayEvent, r
  <2> QED BY <1>2, <2>1, <2>2, <2>3 DEF SameWallet
<1> QED BY <1>1, <1>2

Earned(a, e, b) ==
  /\ Whole(b) /\ b.bal = Capped(a.bal + 1) /\ b.known = Capped(a.known + 1)
  /\ b.late = a.late /\ b.gone = a.gone /\ b.why = a.why /\ b.bonuses = a.bonuses \cup {e}

(* The results that dismiss whatever the balance is. *)
Dismisses(c, e) ==
  /\ ~Neutral(c, e)
  /\ c.rows[e].res = "cheat" \/ (c.rows[e].res \in Losses /\ e \in Finals)

LEMMA LostThen ==
  ASSUME NEW c, NEW a, NEW e, NEW r, NEW b, Lost(c, a, e, r), SameWallet(r, b)
  PROVE  Lost(c, a, e, b)
BY DEF Lost, SameWallet

LEMMA EarnedThen ==
  ASSUME NEW a, NEW e, NEW r, NEW b, Earned(a, e, r), SameWallet(r, b)
  PROVE  Earned(a, e, b)
BY DEF Earned, SameWallet

(* What a result does to the wallet. *)
LEMMA WalletResult ==
  ASSUME NEW c, NEW a, NEW x, Whole(a), x[2] # 0
  PROVE  LET e == x[3]
             b == ReplayEvent(c, a, x) IN
         /\ Loses(c, e) => Lost(c, a, e, b)
         /\ Earns(c, e) => SameWallet(a, b) \/ Earned(a, e, b)
         /\ Dismisses(c, e) => b.gone
         /\ ~Loses(c, e) /\ ~Earns(c, e) /\ ~Dismisses(c, e) => SameWallet(a, b)
<1> DEFINE e == x[3]
           r == ReplayResult(c, a, x)
           b == ReplayEvent(c, a, x)
<1>1. b = ApplyDeferred(r, e)
  BY DEF ReplayEvent
<1>2. ASSUME Whole(r) PROVE SameWallet(r, b)
  BY <1>1, <1>2, WalletBreaks
<1>3. SameWallet(a, a)
  BY DEF SameWallet
<1>4. CASE Loses(c, e)
  <2>1. r = Lose(c, a, x) /\ ~Earns(c, e) /\ ~Dismisses(c, e)
    BY <1>4 DEF ReplayResult, Losses, Loses, Earns, Dismisses
  <2>2. Lost(c, a, e, Lose(c, a, x))
    BY WalletLoses
  <2> HIDE DEF r, b
  <2>3. Lost(c, a, e, b)
    BY <1>2, <2>1, <2>2, LostThen DEF Lost
  <2> QED BY <1>4, <2>1, <2>3 DEF b
<1>5. CASE Earns(c, e)
  <2>1. r = CountPass(c, a, e) /\ ~Loses(c, e) /\ ~Dismisses(c, e)
    BY <1>5 DEF ReplayResult, Losses, Loses, Earns, Dismisses
  <2>2. SameWallet(a, r) \/ Earned(a, e, r)
    BY <2>1, WalletCounts DEF Earned
  <2> HIDE DEF r, b
  <2>3. SameWallet(r, b)
    BY <1>2, <2>2 DEF SameWallet, Earned
  <2>4. SameWallet(a, b) \/ Earned(a, e, b)
    BY <2>2, <2>3, EarnedThen DEF SameWallet
  <2> QED BY <1>5, <2>1, <2>4 DEF b
<1>6. CASE Dismisses(c, e)
  <2>1. (r = Cheat(a, e) \/ r = DismissAt(a, 75, "final", e)) /\ ~Loses(c, e) /\ ~Earns(c, e)
    BY <1>6 DEF ReplayResult, Losses, Loses, Earns, Dismisses
  <2>2. \A m, priority, rule : Whole(m) =>
          Whole(DismissAt(m, priority, rule, e)) /\ DismissAt(m, priority, rule, e).gone
    BY WalletDismissed
  <2>3. \A n : Whole([a EXCEPT !.cheats = n])
    BY DEF Whole, Parts
  <2>4. Whole(r) /\ r.gone
    BY <2>1, <2>2, <2>3 DEF Cheat
  <2> HIDE DEF r, b
  <2>5. b.gone
    BY <1>2, <2>4 DEF SameWallet
  <2> QED BY <1>6, <2>1, <2>5 DEF b
<1>7. CASE ~Loses(c, e) /\ ~Earns(c, e) /\ ~Dismisses(c, e)
  <2>1. r = a \/ r = BreakStreak(c, a, x)
    BY <1>7 DEF ReplayResult, Loses, Earns, Dismisses
  <2>2. SameWallet(a, r)
    BY <1>3, <2>1, WalletBreaks
  <2> HIDE DEF r, b
  <2>3. SameWallet(a, b)
    BY <1>2, <2>2 DEF SameWallet
  <2> QED BY <1>7, <2>3 DEF b
<1> QED BY <1>4, <1>5, <1>6, <1>7

-----------------------------------------------------------------------------
(* The credit an old result waits for is the first of its exam's day or later it was *)
(* entered after. *)
LEMMA LaterCreditIs ==
  ASSUME NEW c, NEW e, c.credits \subseteq Nat, LaterCredit(c, e) # 0
  PROVE  LET t == LaterCredit(c, e) IN
         /\ t \in c.credits /\ Day(t) > DayOf[e] /\ t <= c.rows[e].at
         /\ \A u \in c.credits : Day(u) >= DayOf[e] /\ u <= c.rows[e].at => t <= u
<1> DEFINE after == {t \in c.credits : Day(t) >= DayOf[e] /\ t <= c.rows[e].at}
<1>1. after # {} /\ Day(Least(after)) > DayOf[e] /\ LaterCredit(c, e) = Least(after)
  BY DEF LaterCredit
<1>2. after \subseteq Nat
  OBVIOUS
<1>3. \E n \in after : \A m \in after : n <= m
  <2> HIDE DEF after
  <2> QED BY <1>1, <1>2, LeastNumber
<1>4. Least(after) \in after /\ \A y \in after : Least(after) <= y
  <2> HIDE DEF after
  <2> QED BY <1>3 DEF Least
<1> QED BY <1>1, <1>4

IsCredit(c, y) == y[2] = 0 /\ c.log[y[3]].action = "add" /\ c.log[y[3]].applied > 0

(* What the lemmas below read of a ledger: its credits are events, its results stand on *)
(* their exams' days, and a pass stands before what it may save from. *)
Timed(c) ==
  /\ Ordered(c) /\ Placed(c) /\ c.credits \subseteq Nat
  /\ \A x \in c.events : /\ IsEvent(c, x)
                         /\ x[2] = 0 => c.log[x[3]].action \in {"add", "deduct"}
                         /\ x[2] # 0 => Day(x[1]) = DayOf[x[3]] /\ c.rows[x[3]].at \in Nat
                         /\ IsCredit(c, x) => x[1] \in c.credits
  /\ \A t \in c.credits : \E y \in c.events : y[1] = t /\ IsCredit(c, y)

(* The credit t is still to come after the events S, and a result of theirs waits for it. *)
Awaited(c, S, t) ==
  /\ \E y \in S : y[2] # 0 /\ t = LaterCredit(c, y[3])
  /\ \A y \in S : IsCredit(c, y) => y[1] # t

Wallet(c, S, a) ==
  /\ Whole(a) /\ a.bal \in Nat /\ a.known \in Nat /\ a.bal <= Cap /\ a.known <= Cap
  /\ a.late # 0 => a.bal <= a.known /\ Awaited(c, S, a.late)

LEMMA WalletStays ==
  ASSUME NEW c, NEW S, NEW x, ~IsCredit(c, x), NEW a, Wallet(c, S, a), NEW b, SameWallet(a, b)
  PROVE  Wallet(c, S \cup {x}, b)
BY DEF Wallet, SameWallet, Awaited

LEMMA LessKeeps ==
  ASSUME Cap \in Nat, NEW m \in Nat, NEW n \in Nat, NEW p \in Nat
  PROVE  /\ Less(m, p) \in Nat /\ (m <= Cap => Less(m, p) <= Cap) /\ Less(m, p) <= m
         /\ m <= n => Less(m, p) <= Less(n, p)
BY DEF Less

LEMMA CappedKeeps ==
  ASSUME Cap \in Nat, NEW m \in Nat, NEW n \in Nat
  PROVE  /\ Capped(m) \in Nat /\ Capped(m) <= Cap /\ (m <= Cap => Capped(m) = m)
         /\ (m <= Cap => m <= Capped(m + 1)) /\ Capped(m + 0) = Capped(m)
         /\ m <= n => Capped(m) <= Capped(n) /\ Capped(m + 1) <= Capped(n + 1)
BY DEF Capped, Smaller

LEMMA WalletStep ==
  ASSUME ReplayAssumption, NEW c, Timed(c), NEW S \in SUBSET c.events, NEW x \in c.events,
         \A y \in S : Before(y, x), NEW a, Wallet(c, S, a), ~a.gone, ~ReplayEvent(c, a, x).gone
  PROVE  Wallet(c, S \cup {x}, ReplayEvent(c, a, x))
<1> DEFINE b == ReplayEvent(c, a, x)
           e == x[3]
<1>0. /\ Cap \in Nat /\ a.bal \in Nat /\ a.known \in Nat /\ a.bal <= Cap /\ a.known <= Cap /\ Whole(a)
      /\ IsEvent(c, x)
  BY DEF Wallet, Timed, ReplayAssumption
<1>1. CASE x[2] = 0 /\ c.log[e].action = "add"
  <2> DEFINE n == c.log[e].applied
  <2>1. b = AddEntry(a, c.log[e]) /\ n \in Nat
    BY <1>0, <1>1 DEF ReplayEvent, ReplayCommand, IsEvent, IsCommand
  <2>2. /\ Whole(b) /\ b.bal = Capped(a.bal + n) /\ b.known = a.known
        /\ b.late = IF n > 0 THEN 0 ELSE a.late
    BY <1>0, <2>1, WalletAdds
  <2> HIDE DEF b, n
  <2>3. b.bal \in Nat /\ b.bal <= Cap
    <3>1. a.bal + n \in Nat
      BY <1>0, <2>1
    <3>2. Capped(a.bal + n) \in Nat /\ Capped(a.bal + n) <= Cap
      BY <1>0, <3>1, CappedKeeps
    <3> QED BY <2>2, <3>2
  <2>4. CASE n > 0
    BY <1>0, <2>2, <2>3, <2>4 DEF Wallet, b
  <2>5. CASE ~(n > 0)
    <3>1. n = 0 /\ b.bal = a.bal
      BY <1>0, <2>1, <2>2, <2>5, CappedKeeps
    <3>2. ~IsCredit(c, x)
      BY <2>5 DEF IsCredit, n
    <3> QED BY <1>0, <2>2, <2>5, <3>1, <3>2 DEF Wallet, Awaited, b
  <2> QED BY <2>4, <2>5
<1>2. CASE x[2] = 0 /\ c.log[e].action # "add"
  <2> DEFINE n == c.log[e].applied
  <2>1. b = DeductEntry(c, a, e) /\ n \in Nat /\ ~IsCredit(c, x)
    BY <1>0, <1>2 DEF ReplayEvent, ReplayCommand, IsEvent, IsCommand, IsCredit
  <2>2. /\ Whole(b) /\ (b.gone \/ (b.late = a.late /\ b.bal = Less(a.bal, n) /\ b.known = Less(a.known, n)))
    BY <1>0, <2>1, WalletDeducts
  <2> HIDE DEF n
  <2>3. b.late = a.late /\ b.bal = Less(a.bal, n) /\ b.known = Less(a.known, n)
    BY <2>2
  <2> HIDE DEF b
  <2>4. b.bal \in Nat /\ b.known \in Nat /\ b.bal <= Cap /\ b.known <= Cap
        /\ (a.bal <= a.known => b.bal <= b.known)
    <3>1. /\ Less(a.bal, n) \in Nat /\ Less(a.bal, n) <= Cap
          /\ (a.bal <= a.known => Less(a.bal, n) <= Less(a.known, n))
      BY <1>0, <2>1, LessKeeps
    <3>2. Less(a.known, n) \in Nat /\ Less(a.known, n) <= Cap
      BY <1>0, <2>1, LessKeeps
    <3> QED BY <2>3, <3>1, <3>2
  <2> QED BY <2>1, <2>2, <2>3, <2>4 DEF Wallet, Awaited, b
<1>3. CASE x[2] # 0 /\ Loses(c, e)
  <2> DEFINE p == PenaltyOf[e]
             k == Knowing(c, a, e)
             t == LaterCredit(c, e)
  <2>1. Lost(c, a, e, b) /\ ~b.gone /\ ~IsCredit(c, x)
    BY <1>0, <1>3, WalletResult DEF IsCredit
  <2>2. /\ Whole(b) /\ b.late = k.late /\ b.bal = Less(a.bal, p)
        /\ b.known \in {k.known, Less(k.known, p)}
    BY <2>1 DEF Lost
  <2>3. /\ IF t = 0 \/ a.late # 0 THEN k.late = a.late /\ k.known = a.known
           ELSE k.late = t /\ k.known = a.bal
    BY <1>0, KnowingIs
  <2>4. p \in Nat
    BY <1>0, <1>3, ReplayAssumption DEF IsEvent, ReplayAssumption
  <2>5. t # 0 => Awaited(c, S \cup {x}, t)
    <3> SUFFICES ASSUME t # 0 PROVE Awaited(c, S \cup {x}, t)
      OBVIOUS
    <3>1. t \in Nat /\ Day(t) > DayOf[e]
      BY LaterCreditIs DEF Timed
    <3>2. ASSUME NEW y \in S, IsCredit(c, y), y[1] = t PROVE FALSE
      <4>1. y[1] <= x[1] /\ x[1] \in Nat
        BY <1>0, <3>1, <3>2 DEF Before, IsEvent
      <4>2. Day(t) <= Day(x[1]) /\ Day(x[1]) = DayOf[e]
        BY <1>3, <3>1, <3>2, <4>1, DaysPass DEF Timed
      <4>3. Day(t) \in Nat /\ Day(x[1]) \in Nat
        BY <3>1, <4>1, DayBounds, ReplayAssumption DEF Day, ReplayAssumption
      <4> QED BY <3>1, <4>2, <4>3
    <3> QED BY <1>3, <2>1, <3>2 DEF Awaited
  <2> HIDE DEF p, k, t, b
  <2>6. k.known \in Nat /\ k.known <= Cap /\ (k.late # 0 => a.bal <= k.known)
    BY <1>0, <2>3 DEF Wallet
  <2>7. /\ b.bal \in Nat /\ b.bal <= Cap /\ b.known \in Nat /\ b.known <= Cap
        /\ (a.bal <= k.known => b.bal <= b.known)
    <3>1. /\ Less(a.bal, p) \in Nat /\ Less(a.bal, p) <= Cap /\ Less(a.bal, p) <= a.bal
          /\ (a.bal <= k.known => Less(a.bal, p) <= Less(k.known, p))
          /\ Less(k.known, p) \in Nat /\ Less(k.known, p) <= Cap
      BY <1>0, <2>4, <2>6, LessKeeps
    <3> QED BY <1>0, <2>2, <2>6, <3>1
  <2>8. b.late # 0 => Awaited(c, S \cup {x}, b.late)
    <3>1. CASE b.late = t
      BY <2>5, <3>1
    <3>2. CASE b.late = a.late
      BY <2>1, <3>2 DEF Wallet, Awaited
    <3> QED BY <2>2, <2>3, <3>1, <3>2
  <2> QED BY <2>2, <2>6, <2>7, <2>8 DEF Wallet, b
<1>4. CASE x[2] # 0 /\ ~Loses(c, e)
  <2>1. ~IsCredit(c, x)
    BY <1>4 DEF IsCredit
  <2>2. SameWallet(a, b) \/ Earned(a, e, b)
    BY <1>0, <1>4, WalletResult
  <2> HIDE DEF b
  <2>3. CASE SameWallet(a, b)
    BY <2>1, <2>3, WalletStays DEF b
  <2>4. CASE Earned(a, e, b)
    <3>1. Whole(b) /\ b.bal = Capped(a.bal + 1) /\ b.known = Capped(a.known + 1) /\ b.late = a.late
      BY <2>4 DEF Earned
    <3>2. b.bal \in Nat /\ b.bal <= Cap /\ b.known \in Nat /\ b.known <= Cap
          /\ (a.bal <= a.known => b.bal <= b.known)
      <4>1. a.bal + 1 \in Nat /\ a.known + 1 \in Nat
        BY <1>0
      <4>2. \A n \in Nat : Capped(n) \in Nat /\ Capped(n) <= Cap
        BY <1>0, CappedKeeps
      <4>3. a.bal <= a.known => Capped(a.bal + 1) <= Capped(a.known + 1)
        BY <1>0, CappedKeeps
      <4> QED BY <3>1, <4>1, <4>2, <4>3
    <3> QED BY <2>1, <3>1, <3>2 DEF Wallet, Awaited, b
  <2> QED BY <2>2, <2>3, <2>4
<1> QED BY <1>1, <1>2, <1>3, <1>4

-----------------------------------------------------------------------------
(***************************************************************************)
(* The moment a replayed ledger is dismissed by a loss                     *)
(***************************************************************************)
(* The beginning of a replay. *)
Fresh(a) ==
  Blank(a) /\ a.bal <= Cap /\ a.known = 0 /\ a.late = 0 /\ ~a.gone /\ a.why = NoWhy

Preceding(E, x) == {y \in E : Before(y, x)}

LEMMA RunSteps ==
  ASSUME ReplayAssumption, NEW c, NEW s, NEW f, Timed(c), Fresh(Beginning(c, s)),
         Replays(c, s, f, SUBSET c.events)
  PROVE  \A S \in SUBSET c.events : Explained(c, f[S]) /\ Money(f[S])
<1> DEFINE E == c.events
           G == {S \in SUBSET E : Explained(c, f[S]) /\ Money(f[S])}
<1>0. IsHistory(E) /\ \A x \in E : IsEvent(c, x) /\ (x[2] # 0 => x[3] \in Entered(c.rows))
  BY DEF Timed, Ordered
<1>1. {} \in G
  <2>1. f[{}] = Beginning(c, s)
    BY DEF Replays
  <2> QED BY <2>1, BeginningIsExplained DEF Fresh, Blank
<1>2. ASSUME NEW S \in SUBSET E, S # {}, S \ {Last(S)} \in G PROVE S \in G
  <2> DEFINE x == Last(S)
             R == S \ {x}
  <2>0. f[S] = ReplayEvent(c, f[R], x)
    BY <1>2 DEF Replays
  <2>1. x \in E /\ Explained(c, f[R]) /\ Money(f[R])
    <3>1. x \in S
      <4> HIDE DEF E, G
      <4> QED BY <1>0, <1>2, WithoutLast
    <3> QED BY <1>2, <3>1
  <2> HIDE DEF x, R
  <2>2. Explained(c, f[S])
    BY <1>0, <2>0, <2>1, EventFollows DEF Follows
  <2>3. Money(f[S])
    BY <1>0, <2>0, <2>1, EventSteps DEF Steps
  <2> QED BY <2>2, <2>3
<1>3. SUBSET E \subseteq G
  <2> HIDE DEF G, E
  <2> QED BY <1>0, <1>1, <1>2, HistoryInduction
<1> QED BY <1>3 DEF G

(* What a replay has found it keeps; each of its bonuses is that of an event of its own. *)
Grows(f, P, S) ==
  /\ f[P].gone => f[S].gone
  /\ f[P].bonuses \subseteq f[S].bonuses
  /\ \A m \in f[S].bonuses \ f[P].bonuses : \E y \in S \ P : y[2] # 0 /\ y[3] = m

LEMMA RunGrows ==
  ASSUME ReplayAssumption, NEW c, NEW s, NEW f, Timed(c), Fresh(Beginning(c, s)),
         Replays(c, s, f, SUBSET c.events), NEW P, Prefix(P, c.events),
         NEW W \in SUBSET c.events, P \subseteq W
  PROVE  Grows(f, P, W)
<1> DEFINE E == c.events
           G == {S \in SUBSET E : P \subseteq S => Grows(f, P, S)}
<1>0. IsHistory(E) /\ P \in SUBSET E
      /\ \A x \in E : IsEvent(c, x) /\ (x[2] # 0 => x[3] \in Entered(c.rows))
  BY DEF Timed, Ordered, Prefix
<1>1. {} \in G
  <2>1. P \subseteq {} => P = {}
    OBVIOUS
  <2> QED BY <2>1 DEF Grows
<1>2. ASSUME NEW S \in SUBSET E, S # {}, S \ {Last(S)} \in G PROVE S \in G
  <2> SUFFICES ASSUME P \subseteq S, S # P PROVE Grows(f, P, S)
    BY DEF Grows
  <2> DEFINE x == Last(S)
             R == S \ {x}
  <2>0. f[S] = ReplayEvent(c, f[R], x)
    BY <1>2 DEF Replays
  <2>1. x \in S /\ R \in SUBSET E
    <3> HIDE DEF E, G
    <3> QED BY <1>0, <1>2, WithoutLast
  <2>2. \A y \in S \ {x} : Before(y, x)
    BY <1>0, <1>2, FS_Subset, LastIsIn DEF IsHistory
  <2>3. x \notin P
    <3> SUFFICES ASSUME x \in P PROVE FALSE
      OBVIOUS
    <3> HIDE DEF x
    <3>1. \A y \in S : y \in P
      BY <1>0, <2>2 DEF Prefix
    <3> QED BY <3>1
  <2> HIDE DEF x
  <2>4. P \subseteq R
    BY <2>3
  <2>5. Grows(f, P, R)
    BY <1>2, <2>4 DEF x
  <2>6. Explained(c, f[R]) /\ Money(f[R])
    BY <2>1, RunSteps
  <2>7. f[R].gone => f[S].gone
    BY <1>0, <2>0, <2>1, <2>6, EventFollows DEF Follows
  <2>8. f[S].bonuses = f[R].bonuses \/ (x[2] # 0 /\ f[S].bonuses = f[R].bonuses \cup {x[3]})
    <3>1. x \in E /\ IsEvent(c, x) /\ Money(f[R])
      BY <1>0, <2>1, <2>6
    <3>2. Steps(c, f[R], x, f[S])
      BY <2>0, <3>1, EventSteps
    <3> HIDE DEF E, R
    <3> QED BY <3>2 DEF Steps
  <2>9. R \subseteq S /\ x \in S \ P
    BY <2>1, <2>3
  <2> HIDE DEF R
  <2> QED BY <2>5, <2>7, <2>8, <2>9 DEF Grows
<1>3. SUBSET E \subseteq G
  <2> HIDE DEF G, E
  <2> QED BY <1>0, <1>1, <1>2, HistoryInduction
<1> QED BY <1>3 DEF G

(* Until the student is dismissed. *)
LEMMA WalletRuns ==
  ASSUME ReplayAssumption, NEW c, NEW s, NEW f, Timed(c), Fresh(Beginning(c, s)),
         Replays(c, s, f, SUBSET c.events), NEW W, Prefix(W, c.events), ~f[W].gone
  PROVE  Wallet(c, W, f[W])
<1> DEFINE E == c.events
           G == {S \in SUBSET E : Prefix(S, E) /\ ~f[S].gone => Wallet(c, S, f[S])}
<1>0. IsHistory(E) /\ W \in SUBSET E
  BY DEF Timed, Ordered, Prefix
<1>1. {} \in G
  <2>1. f[{}] = Beginning(c, s)
    BY DEF Replays
  <2>2. Wallet(c, {}, Beginning(c, s))
    BY DEF Wallet, Fresh, Blank, Money, ReplayAssumption
  <2> QED BY <2>1, <2>2
<1>2. ASSUME NEW S \in SUBSET E, S # {}, S \ {Last(S)} \in G PROVE S \in G
  <2> SUFFICES ASSUME Prefix(S, E), ~f[S].gone PROVE Wallet(c, S, f[S])
    OBVIOUS
  <2> DEFINE x == Last(S)
             R == S \ {x}
  <2>1. Prefix(R, E) /\ x \in S /\ R \in SUBSET E /\ \A y \in R : Before(y, x)
    BY <1>0, <1>2, PrefixWithoutLast
  <2>2. f[S] = ReplayEvent(c, f[R], x)
    BY <1>2 DEF Replays
  <2> HIDE DEF x
  <2>3. R \subseteq S /\ S = R \cup {x} /\ x \in E
    BY <2>1
  <2> HIDE DEF R
  <2>4. ~f[R].gone
    <3> HIDE DEF G
    <3>1. Prefix(R, c.events) /\ S \in SUBSET c.events /\ R \subseteq S
      BY <2>1, <2>3
    <3>2. f[R].gone => f[S].gone
      BY <3>1, RunGrows DEF Grows
    <3> QED BY <3>2
  <2>5. Wallet(c, R, f[R])
    BY <1>2, <2>1, <2>4 DEF x, R
  <2>6. Wallet(c, R \cup {x}, ReplayEvent(c, f[R], x))
    BY <2>1, <2>2, <2>3, <2>4, <2>5, WalletStep
  <2> QED BY <2>2, <2>3, <2>6
<1>3. SUBSET E \subseteq G
  <2> HIDE DEF G, E
  <2> QED BY <1>0, <1>1, <1>2, HistoryInduction
<1> QED BY <1>0, <1>3 DEF G

(* Where a dismissal by the rule of losses was found. *)
Fell(c, f, x) == x[2] # 0 /\ Loses(c, x[3]) /\ Falls(c, f[Preceding(c.events, x)], x[3])
FellIn(c, f, S) == \E x \in S : Fell(c, f, x) /\ x[3] = f[S].why.of

LEMMA FallsWhere ==
  ASSUME ReplayAssumption, NEW c, NEW s, NEW f, Timed(c), Fresh(Beginning(c, s)),
         Replays(c, s, f, SUBSET c.events), NEW W, Prefix(W, c.events), f[W].why.rule = "loss"
  PROVE  FellIn(c, f, W)
<1> DEFINE E == c.events
           G == {S \in SUBSET E : Prefix(S, E) /\ f[S].why.rule = "loss" => FellIn(c, f, S)}
<1>0. IsHistory(E) /\ W \in SUBSET E
  BY DEF Timed, Ordered, Prefix
<1>1. {} \in G
  <2>1. f[{}] = Beginning(c, s)
    BY DEF Replays
  <2> QED BY <2>1 DEF Fresh, NoWhy
<1>2. ASSUME NEW S \in SUBSET E, S # {}, S \ {Last(S)} \in G PROVE S \in G
  <2> SUFFICES ASSUME Prefix(S, E), f[S].why.rule = "loss" PROVE FellIn(c, f, S)
    OBVIOUS
  <2> DEFINE x == Last(S)
             R == S \ {x}
  <2>1. Prefix(R, E) /\ x \in S /\ R \in SUBSET E /\ \A y \in R : Before(y, x)
    BY <1>0, <1>2, PrefixWithoutLast
  <2>2. f[S] = ReplayEvent(c, f[R], x)
    BY <1>2 DEF Replays
  <2>3. f[R].why.rule = "loss" => FellIn(c, f, R)
    BY <1>2, <2>1
  <2> HIDE DEF x
  <2>4. R = Preceding(E, x)
    <3>1. ASSUME NEW y \in E, Before(y, x) PROVE y \in R
      BY <1>0, <2>1, <3>1, EventsAreOrdered DEF Prefix
    <3> QED BY <2>1, <3>1 DEF Preceding
  <2>5. R \subseteq S
    OBVIOUS
  <2> HIDE DEF R
  <2>6. Whole(f[R])
    BY <2>1, RunSteps DEF Money
  <2>7. \/ f[S].why = f[R].why
        \/ x[2] # 0 /\ f[S].why.of = x[3] /\ Loses(c, x[3]) /\ Falls(c, f[R], x[3])
    BY <2>2, <2>6, EventTells
  <2> QED BY <2>1, <2>3, <2>4, <2>5, <2>7 DEF Fell, FellIn
<1>3. SUBSET E \subseteq G
  <2> HIDE DEF G, E
  <2> QED BY <1>0, <1>1, <1>2, HistoryInduction
<1> QED BY <1>0, <1>3 DEF G

-----------------------------------------------------------------------------
(***************************************************************************)
(* The window of an old loss: from it to the credit it was entered after,  *)
(* the balance that decides in the replay with it, which omits it, is not  *)
(* below the balance that decides in the replay without it.                *)
(***************************************************************************)
(* d reads c's ledger and an old loss, the event z, entered after a credit of a later day *)
(* and before every deduction by hand up to that credit. *)
JoinsAt(c, d, z) ==
  /\ Joins(c, d) /\ Timed(c) /\ Timed(d)
  /\ z \in d.events \ c.events /\ d.events = c.events \cup {z}
  /\ Entered(d.rows) = Entered(c.rows) \cup {z[3]}
  /\ Neutral(d, z[3]) => ~(DayOf[z[3]] >= d.back)
  /\ ~Neutral(d, z[3]) => Loses(d, z[3])
  /\ LaterCredit(d, z[3]) # 0 /\ \A t \in d.credits : t <= d.rows[z[3]].at
  /\ \A x \in d.events :
       x[2] = 0 /\ d.log[x[3]].action = "deduct" /\ x[1] <= LaterCredit(d, z[3]) => x[1] <= z[1]

(* Before the old loss, and wherever it has no effect, the replays are the same. *)
LEMMA SameStep ==
  ASSUME NEW c, NEW d, NEW z, NEW x \in c.events, NEW a, JoinsAt(c, d, z),
         Neutral(d, z[3]) \/ Before(x, z)
  PROVE  ReplayEvent(c, a, x) = ReplayEvent(d, a, x)
<1> DEFINE h == x[3]
<1>0. Joins(c, d) /\ x \in d.events /\ z \in d.events /\ IsEvent(d, x) /\ IsEvent(d, z) /\ z[2] = 1
  BY DEF JoinsAt, Joins, Timed
<1>1. ASSUME x[2] # 0, Earns(d, h) PROVE ~(z[3] < h /\ DayOf[z[3]] >= d.back)
  <2>1. CASE Neutral(d, z[3])
    BY <2>1 DEF JoinsAt
  <2>2. CASE ~Neutral(d, z[3])
    <3>1. Spends(d, z) /\ Place(z) = z[3] /\ z[3] # 0 /\ Before(x, z)
      BY <1>0, <2>2 DEF JoinsAt, Loses, Spends, Place, Timed, Ordered
    <3>2. EarnedFor(d.log, h, Place(z))
      BY <1>0, <1>1, <3>1 DEF JoinsAt, Timed, Placed
    <3>3. h < z[3] /\ h \in Nat /\ z[3] \in Nat
      BY <1>0, <3>1, <3>2 DEF EarnedFor, IsEvent
    <3> QED BY <3>3
  <2> QED BY <2>1, <2>2
<1>2. ASSUME x[2] # 0, Earns(d, h), NEW n PROVE Missing(c, n, h) <=> Missing(d, n, h)
  <2>1. c.back = d.back /\ Entered(d.rows) = Entered(c.rows) \cup {z[3]}
    BY DEF JoinsAt, Joins
  <2> QED BY <1>1, <1>2, <2>1 DEF Missing
<1>3. x[2] # 0 /\ Earns(d, h) => CountPass(c, a, h) = CountPass(d, a, h)
  BY <1>2 DEF CountPass
<1> QED BY <1>0, <1>3, JoinsEvent

(***************************************************************************)
(* From the old loss to the credit K it was entered after: the balance     *)
(* without it, which b knows, is not below a's.                            *)
(***************************************************************************)
Window(K, a, b) ==
  /\ Whole(b) /\ ~b.gone /\ b.late = K /\ a.late \in {0, K}
  /\ b.known \in Nat /\ b.known <= Cap
  /\ IF a.late = 0 THEN a.bal <= b.known ELSE a.known <= b.known

(* Until K the results after the old loss wait for K or for nothing. *)
LEMMA WaitsForSame ==
  ASSUME ReplayAssumption, NEW c, NEW d, NEW z, NEW x \in c.events, JoinsAt(c, d, z),
         Before(z, x), x[1] < LaterCredit(d, z[3]), x[2] # 0
  PROVE  LaterCredit(c, x[3]) \in {0, LaterCredit(d, z[3])}
<1> DEFINE K == LaterCredit(d, z[3])
           t == LaterCredit(c, x[3])
           e == z[3]
           h == x[3]
<1>1. /\ Joins(c, d) /\ c.credits = d.credits /\ d.credits \subseteq Nat /\ z[2] = 1 /\ K # 0
      /\ x \in d.events /\ z \in d.events
  BY DEF JoinsAt, Joins, Timed
<1>2. /\ IsEvent(d, x) /\ IsEvent(d, z) /\ Day(x[1]) = DayOf[h] /\ Day(z[1]) = DayOf[e]
  BY <1>1 DEF JoinsAt, Timed
<1>3. x[1] \in Nat /\ z[1] \in Nat /\ z[1] <= x[1]
  BY <1>2 DEF IsEvent, Before
<1>4. SUFFICES ASSUME t # 0 PROVE t = K
  OBVIOUS
<1>5. /\ K \in d.credits /\ Day(K) > DayOf[e] /\ K <= d.rows[e].at
      /\ \A u \in d.credits : Day(u) >= DayOf[e] /\ u <= d.rows[e].at => K <= u
  BY <1>1, LaterCreditIs
<1>6. /\ t \in c.credits /\ Day(t) > DayOf[h] /\ t <= c.rows[h].at
      /\ \A u \in c.credits : Day(u) >= DayOf[h] /\ u <= c.rows[h].at => t <= u
  BY <1>1, <1>4, LaterCreditIs
<1>7. c.rows[h].at \in Nat
  BY DEF JoinsAt, Timed
<1> HIDE DEF K, t, e, h
<1>8. K \in Nat /\ t \in Nat /\ DayOf[e] <= DayOf[h] /\ DayOf[h] <= Day(K)
  <2>1. K \in Nat /\ t \in Nat
    BY <1>1, <1>5, <1>6
  <2>2. x[1] <= K
    BY <1>3, <2>1 DEF K
  <2> QED BY <1>2, <1>3, <2>1, <2>2, DaysPass
<1>9. Day(t) \in Nat /\ Day(K) \in Nat /\ DayOf[e] \in Nat /\ DayOf[h] \in Nat
  <2>1. \A n \in Nat : Day(n) \in Nat
    BY ReplayAssumption, DayBounds DEF Day, ReplayAssumption
  <2> QED BY <1>2, <1>3, <1>8, <2>1
<1>10. K <= t
  <2>1. Day(t) >= DayOf[e]
    BY <1>6, <1>8, <1>9
  <2>2. t <= d.rows[e].at
    BY <1>1, <1>6 DEF JoinsAt, e
  <2> QED BY <1>1, <1>5, <1>6, <2>1, <2>2
<1>11. t <= K
  <2>1. K <= c.rows[h].at
    BY <1>6, <1>7, <1>8, <1>10
  <2> QED BY <1>1, <1>5, <1>6, <1>8, <1>9, <2>1
<1> QED BY <1>8, <1>10, <1>11

(* What an old result before the old loss waits for when the old loss comes is K. *)
LEMMA AwaitsSame ==
  ASSUME ReplayAssumption, NEW c, NEW d, NEW z, NEW S \in SUBSET c.events, JoinsAt(c, d, z),
         \A y \in S : Before(y, z), \A y \in c.events : Before(y, z) => y \in S,
         NEW t, t # 0, Awaited(c, S, t)
  PROVE  t = LaterCredit(d, z[3])
<1> DEFINE K == LaterCredit(d, z[3])
           e == z[3]
<1>1. /\ Joins(c, d) /\ c.credits = d.credits /\ d.credits \subseteq Nat /\ z[2] = 1 /\ K # 0
      /\ z \in d.events /\ IsEvent(d, z) /\ Day(z[1]) = DayOf[e] /\ d.rows[e].at \in Nat
  BY DEF JoinsAt, Joins, Timed
<1>2. PICK y \in S : y[2] # 0 /\ t = LaterCredit(c, y[3])
  BY DEF Awaited
<1> DEFINE h == y[3]
<1>3. IsEvent(c, y) /\ Day(y[1]) = DayOf[h] /\ Before(y, z) /\ c.rows[h].at \in Nat
  BY <1>2 DEF JoinsAt, Timed
<1>4. z[1] \in Nat /\ y[1] \in Nat /\ y[1] <= z[1]
  BY <1>1, <1>3 DEF IsEvent, Before
<1>5. /\ K \in d.credits /\ Day(K) > DayOf[e] /\ K <= d.rows[e].at
      /\ \A u \in d.credits : Day(u) >= DayOf[e] /\ u <= d.rows[e].at => K <= u
  BY <1>1, LaterCreditIs
<1>6. /\ t \in c.credits /\ Day(t) > DayOf[h] /\ t <= c.rows[h].at
      /\ \A u \in c.credits : Day(u) >= DayOf[h] /\ u <= c.rows[h].at => t <= u
  BY <1>1, <1>2, LaterCreditIs
<1>7. t \in Nat /\ K \in Nat
  BY <1>1, <1>5, <1>6
<1>8. z[1] <= t
  <2>1. PICK u \in c.events : u[1] = t /\ IsCredit(c, u)
    BY <1>6 DEF JoinsAt, Timed
  <2>2. u \notin S
    BY <2>1 DEF Awaited
  <2>3. ~Before(u, z)
    BY <2>2
  <2> QED BY <1>4, <1>7, <2>1, <2>3 DEF Before
<1> HIDE DEF K, e, h
<1>9. DayOf[e] <= Day(t) /\ DayOf[h] <= DayOf[e]
  BY <1>1, <1>3, <1>4, <1>7, <1>8, DaysPass
<1>10. Day(t) \in Nat /\ Day(K) \in Nat /\ DayOf[e] \in Nat /\ DayOf[h] \in Nat
  <2>1. \A n \in Nat : Day(n) \in Nat
    BY ReplayAssumption, DayBounds DEF Day, ReplayAssumption
  <2> QED BY <1>1, <1>3, <1>4, <1>7, <2>1
<1>11. K <= t
  <2>1. t <= d.rows[e].at
    BY <1>1, <1>6 DEF JoinsAt, e
  <2> QED BY <1>1, <1>5, <1>6, <1>9, <1>10, <2>1
<1>12. t <= K
  <2>1. K <= c.rows[h].at
    BY <1>3, <1>6, <1>7, <1>11 DEF h
  <2>2. Day(K) >= DayOf[h]
    BY <1>5, <1>9, <1>10
  <2> QED BY <1>1, <1>5, <1>6, <2>1, <2>2
<1> QED BY <1>7, <1>11, <1>12 DEF K, e

LEMMA WindowOpens ==
  ASSUME ReplayAssumption, NEW c, NEW d, NEW z, NEW S \in SUBSET c.events, NEW a, JoinsAt(c, d, z),
         ~Neutral(d, z[3]), \A y \in S : Before(y, z), \A y \in c.events : Before(y, z) => y \in S,
         Wallet(c, S, a), ~a.gone
  PROVE  Window(LaterCredit(d, z[3]), a, ReplayEvent(d, a, z))
<1> DEFINE e == z[3]
           K == LaterCredit(d, e)
           k == Knowing(d, a, e)
           b == ReplayEvent(d, a, z)
<1>0. /\ Whole(a) /\ a.bal \in Nat /\ a.known \in Nat /\ a.bal <= Cap /\ a.known <= Cap /\ K # 0
      /\ z[2] # 0 /\ Loses(d, e)
  BY DEF Wallet, JoinsAt, Joins
<1>1. a.late \in {0, K}
  BY AwaitsSame DEF Wallet
<1>2. Lost(d, a, e, b)
  BY <1>0, WalletResult
<1>3. k.gone = a.gone /\ k.late = K /\ k.known = IF a.late = 0 THEN a.bal ELSE a.known
  BY <1>0, <1>1, KnowingIs
<1> HIDE DEF k, K, b
<1>4. Omitted(d, k, e)
  BY <1>0, <1>3 DEF Omitted, K
<1>5. ~Falls(d, a, e)
  BY <1>0, <1>3, <1>4 DEF Falls, Introduced, k
<1>6. Whole(b) /\ b.gone = a.gone /\ b.late = k.late /\ b.known = k.known
  BY <1>2, <1>4, <1>5 DEF Lost, k
<1>7. Window(K, a, b)
  BY <1>0, <1>1, <1>3, <1>6 DEF Window
<1> QED BY <1>7 DEF b, K

LEMMA WindowCommand ==
  ASSUME ReplayAssumption, NEW c, NEW d, NEW z, NEW x \in c.events, NEW S, NEW a, NEW b,
         JoinsAt(c, d, z), Before(z, x), x[1] < LaterCredit(d, z[3]), x[2] = 0,
         Wallet(c, S, a), Window(LaterCredit(d, z[3]), a, b)
  PROVE  Window(LaterCredit(d, z[3]), ReplayEvent(c, a, x), ReplayEvent(d, b, x))
<1> DEFINE K == LaterCredit(d, z[3])
           e == z[3]
           l == c.log[x[3]]
           p == ReplayEvent(c, a, x)
           q == ReplayEvent(d, b, x)
<1>1. /\ Joins(c, d) /\ c.log = d.log /\ d.credits \subseteq Nat /\ z[2] = 1 /\ K # 0
      /\ x \in d.events /\ z \in d.events /\ IsEvent(d, x) /\ IsEvent(d, z)
      /\ l.action \in {"add", "deduct"} /\ Day(z[1]) = DayOf[e]
      /\ \A y \in d.events : y[2] = 0 /\ d.log[y[3]].action = "deduct" /\ y[1] <= K => y[1] <= z[1]
  BY DEF JoinsAt, Joins, Timed
<1>2. x[1] \in Nat /\ z[1] \in Nat /\ z[1] < x[1] /\ l.applied \in Nat
  BY <1>1 DEF IsEvent, Before, IsCommand
<1>3. /\ K \in d.credits /\ K \in Nat
      /\ \A u \in d.credits : Day(u) >= DayOf[e] /\ u <= d.rows[e].at => K <= u
  BY <1>1, LaterCreditIs
<1> HIDE DEF K, e
<1>4. x[1] <= K
  BY <1>2, <1>3 DEF K
<1>5. l.action = "add"
  BY <1>1, <1>2, <1>4
<1>6. l.applied = 0
  <2> SUFFICES ASSUME l.applied # 0 PROVE FALSE
    OBVIOUS
  <2>1. IsCredit(d, x)
    BY <1>1, <1>2, <1>5 DEF IsCredit
  <2>2. x[1] \in d.credits /\ x[1] <= d.rows[e].at
    BY <1>1, <2>1 DEF JoinsAt, Timed, e
  <2>3. DayOf[e] <= Day(x[1])
    BY <1>1, <1>2, DaysPass
  <2>4. Day(x[1]) \in Nat /\ DayOf[e] \in Nat
    BY <1>1, <1>2, ReplayAssumption, DayBounds DEF Day, ReplayAssumption
  <2>5. K <= x[1]
    BY <1>3, <2>2, <2>3, <2>4
  <2> QED BY <1>2, <1>3, <2>5 DEF K
<1>7. p = AddEntry(a, l) /\ q = AddEntry(b, l)
  BY <1>1, <1>5 DEF ReplayEvent, ReplayCommand
<1>8. Whole(a) /\ Whole(b) /\ a.bal \in Nat /\ a.bal <= Cap /\ Cap \in Nat
  BY DEF Wallet, Window, ReplayAssumption
<1> HIDE DEF p, q, l
<1>9. p.bal = a.bal /\ p.known = a.known /\ p.late = a.late
  <2>1. p.bal = Capped(a.bal + l.applied) /\ p.known = a.known /\ p.late = IF l.applied > 0 THEN 0 ELSE a.late
    BY <1>7, <1>8, WalletAdds
  <2>2. Capped(a.bal + 0) = a.bal
    BY <1>8, CappedKeeps
  <2> QED BY <1>6, <2>1, <2>2
<1>10. Whole(q) /\ q.known = b.known /\ q.late = b.late /\ q.gone = b.gone
  <2>1. Whole(q) /\ q.known = b.known /\ q.late = (IF l.applied > 0 THEN 0 ELSE b.late) /\ q.gone = b.gone
    BY <1>7, <1>8, WalletAdds
  <2> QED BY <1>6, <2>1
<1> QED BY <1>9, <1>10 DEF Window, p, q

(* A loss that a survives b survives: b knows at least as much. *)
LEMMA WindowLoss ==
  ASSUME ReplayAssumption, NEW K, K # 0, NEW c, NEW d, NEW e \in Exams, NEW S, NEW a, NEW b, NEW p, NEW q,
         LaterCredit(c, e) = LaterCredit(d, e), LaterCredit(c, e) \in {0, K},
         Wallet(c, S, a), ~a.gone, Window(K, a, b), Lost(c, a, e, p), ~p.gone, Lost(d, b, e, q)
  PROVE  Window(K, p, q)
<1> DEFINE n == PenaltyOf[e]
           t == LaterCredit(c, e)
           k == Knowing(c, a, e)
           m == Knowing(d, b, e)
<1>0. /\ Whole(a) /\ a.bal \in Nat /\ a.known \in Nat /\ n \in Nat /\ Cap \in Nat
      /\ a.late # 0 => a.bal <= a.known
  BY DEF Wallet, ReplayAssumption
<1>1. /\ Whole(b) /\ ~b.gone /\ b.late = K /\ a.late \in {0, K} /\ b.known \in Nat /\ b.known <= Cap
      /\ (IF a.late = 0 THEN a.bal ELSE a.known) <= b.known
  BY DEF Window
<1>2. k.gone = a.gone /\ (IF t = 0 \/ a.late # 0 THEN k.late = a.late /\ k.known = a.known
                          ELSE k.late = t /\ k.known = a.bal)
  BY <1>0, KnowingIs
<1>3. m.gone = b.gone /\ m.late = K /\ m.known = b.known
  BY <1>1, KnowingIs
<1> HIDE DEF t, k, m, n
<1>4. (Omitted(c, k, e) <=> t # 0 /\ t = k.late) /\ (Omitted(d, m, e) <=> t = K)
  BY <1>3 DEF Omitted, t
<1>5. ~Falls(c, a, e)
  BY DEF Lost
<1>6. a.bal # 0 \/ (k.late # 0 /\ (Omitted(c, k, e) \/ k.known > 0))
  BY <1>5 DEF Falls, Introduced, k
<1>7. t # K => b.known > 0
  <2> SUFFICES ASSUME t = 0 PROVE b.known > 0
    BY DEF t
  <2>1. k.late = a.late /\ k.known = a.known /\ ~Omitted(c, k, e)
    BY <1>2, <1>4
  <2> QED BY <1>0, <1>1, <1>6, <2>1
<1>8. ~Falls(d, b, e)
  BY <1>1, <1>3, <1>4, <1>7 DEF Falls, Introduced, m
<1>9. p.late = k.late /\ p.bal = Less(a.bal, n)
      /\ p.known = IF k.late = 0 \/ Omitted(c, k, e) THEN k.known ELSE Less(k.known, n)
  BY <1>2, <1>5 DEF Lost, n, k
<1>10. Whole(q) /\ ~q.gone /\ q.late = K
       /\ q.known = IF Omitted(d, m, e) THEN b.known ELSE Less(b.known, n)
  BY <1>1, <1>3, <1>8 DEF Lost, n, m
<1>11. CASE t = K
  <2>1. p.late = K /\ q.known = b.known
    BY <1>1, <1>2, <1>4, <1>9, <1>10, <1>11
  <2>2. p.known = IF a.late = 0 THEN a.bal ELSE a.known
    BY <1>1, <1>2, <1>4, <1>9, <1>11
  <2> QED BY <1>1, <1>10, <2>1, <2>2 DEF Window
<1>12. CASE t = 0
  <2>1. /\ p.late = a.late /\ q.known = Less(b.known, n)
        /\ p.bal = Less(a.bal, n) /\ (a.late # 0 => p.known = Less(a.known, n))
    BY <1>2, <1>4, <1>9, <1>10, <1>12
  <2>2. /\ Less(b.known, n) \in Nat /\ Less(b.known, n) <= Cap
        /\ a.known <= b.known => Less(a.known, n) <= Less(b.known, n)
        /\ a.bal <= b.known => Less(a.bal, n) <= Less(b.known, n)
    BY <1>0, <1>1, LessKeeps
  <2> QED BY <1>1, <1>10, <2>1, <2>2 DEF Window
<1> QED BY <1>11, <1>12 DEF t

LEMMA WindowStep ==
  ASSUME ReplayAssumption, NEW c, NEW d, NEW z, NEW x \in c.events, NEW S, NEW a, NEW b,
         JoinsAt(c, d, z), Before(z, x), x[1] < LaterCredit(d, z[3]),
         Wallet(c, S, a), ~a.gone, ~ReplayEvent(c, a, x).gone, Window(LaterCredit(d, z[3]), a, b),
         x[2] # 0 /\ Earns(d, x[3]) /\ x[3] \in ReplayEvent(c, a, x).bonuses
           => ReplayEvent(d, b, x).bonuses # b.bonuses
  PROVE  Window(LaterCredit(d, z[3]), ReplayEvent(c, a, x), ReplayEvent(d, b, x))
<1> DEFINE K == LaterCredit(d, z[3])
           h == x[3]
           p == ReplayEvent(c, a, x)
           q == ReplayEvent(d, b, x)
<1>1. CASE x[2] = 0
  BY <1>1, WindowCommand
<1>2. CASE x[2] # 0
  <2>1. /\ K # 0 /\ h \in Exams /\ c.credits = d.credits
        /\ c.rows[h] = d.rows[h] /\ (Neutral(c, h) <=> Neutral(d, h))
    BY <1>2 DEF JoinsAt, Joins, Timed, IsEvent
  <2>2. LaterCredit(c, h) = LaterCredit(d, h) /\ LaterCredit(c, h) \in {0, K}
    <3>1. LaterCredit(c, h) = LaterCredit(d, h)
      BY <2>1 DEF LaterCredit
    <3>2. LaterCredit(c, h) \in {0, K}
      BY <1>2, WaitsForSame
    <3> QED BY <3>1, <3>2
  <2>3. /\ Loses(c, h) <=> Loses(d, h)
        /\ Earns(c, h) <=> Earns(d, h)
        /\ Dismisses(c, h) <=> Dismisses(d, h)
    BY <2>1 DEF Loses, Earns, Dismisses
  <2>4. /\ Whole(a) /\ Whole(b) /\ a.bal \in Nat /\ a.known \in Nat /\ b.known \in Nat /\ b.known <= Cap
        /\ Cap \in Nat
    BY DEF Wallet, Window, ReplayAssumption
  <2> HIDE DEF K
  <2>5. CASE Loses(c, h)
    <3>1. Lost(c, a, h, p) /\ Lost(d, b, h, q)
      BY <1>2, <2>3, <2>4, <2>5, WalletResult
    <3> HIDE DEF p, q, h
    <3>2. Window(K, p, q)
      BY <2>1, <2>2, <3>1, WindowLoss DEF K, p
    <3> QED BY <3>2 DEF K, p, q
  <2>6. CASE Earns(c, h)
    <3>1. (SameWallet(a, p) \/ Earned(a, h, p)) /\ (SameWallet(b, q) \/ Earned(b, h, q))
      BY <1>2, <2>3, <2>4, <2>6, WalletResult
    <3>2. SameWallet(b, q) => h \notin p.bonuses
      BY <1>2, <2>3, <2>6 DEF SameWallet
    <3> HIDE DEF p, q, h
    <3>3. CASE SameWallet(a, p) /\ SameWallet(b, q)
      BY <3>3 DEF Window, SameWallet, K, p, q
    <3>4. CASE SameWallet(a, p) /\ Earned(b, h, q)
      <4>1. b.known + 1 \in Nat
        BY <2>4
      <4>2. Capped(b.known + 1) \in Nat /\ Capped(b.known + 1) <= Cap /\ b.known <= Capped(b.known + 1)
        BY <2>4, <4>1, CappedKeeps
      <4> QED BY <2>4, <3>4, <4>2 DEF Window, SameWallet, Earned, K, p, q
    <3>5. CASE Earned(a, h, p) /\ Earned(b, h, q)
      <4>1. b.known + 1 \in Nat
        BY <2>4
      <4>2. /\ Capped(b.known + 1) \in Nat /\ Capped(b.known + 1) <= Cap
            /\ a.bal <= b.known => Capped(a.bal + 1) <= Capped(b.known + 1)
            /\ a.known <= b.known => Capped(a.known + 1) <= Capped(b.known + 1)
        BY <2>4, <4>1, CappedKeeps
      <4> QED BY <3>5, <4>2 DEF Window, Earned, K, p, q
    <3>6. CASE Earned(a, h, p) /\ SameWallet(b, q)
      BY <3>2, <3>6 DEF Earned
    <3> QED BY <3>1, <3>3, <3>4, <3>5, <3>6
  <2>7. CASE Dismisses(c, h)
    BY <1>2, <2>4, <2>7, WalletResult
  <2>8. CASE ~Loses(c, h) /\ ~Earns(c, h) /\ ~Dismisses(c, h)
    <3>1. SameWallet(a, p) /\ SameWallet(b, q)
      BY <1>2, <2>3, <2>4, <2>8, WalletResult
    <3> HIDE DEF p, q
    <3> QED BY <3>1 DEF Window, SameWallet, K, p, q
  <2> QED BY <2>5, <2>6, <2>7, <2>8
<1> QED BY <1>1, <1>2

(* After the events S of d, of which c has its own: the replays are the same, or the old *)
(* loss is among them and its credit is still to come. *)
Since(d, z, S, a, b) ==
  IF z \in S /\ ~Neutral(d, z[3]) THEN Window(LaterCredit(d, z[3]), a, b) ELSE a = b

LEMMA SinceDismissed ==
  ASSUME NEW d, NEW z, NEW S, NEW a, NEW b, Since(d, z, S, a, b), ~a.gone
  PROVE  ~b.gone
BY DEF Since, Window

LEMMA SinceOwn ==
  ASSUME ReplayAssumption, NEW c, NEW d, NEW z, NEW x \in c.events, NEW S \in SUBSET d.events,
         NEW a, NEW b, JoinsAt(c, d, z), Since(d, z, S, a, b),
         \A y \in S : Before(y, x), \A y \in d.events : Before(y, x) => y \in S,
         x[1] < LaterCredit(d, z[3]),
         Wallet(c, S \cap c.events, a), ~a.gone, ~ReplayEvent(c, a, x).gone,
         x[2] # 0 /\ Earns(d, x[3]) /\ x[3] \in ReplayEvent(c, a, x).bonuses
           => ReplayEvent(d, b, x).bonuses # b.bonuses
  PROVE  Since(d, z, S \cup {x}, ReplayEvent(c, a, x), ReplayEvent(d, b, x))
<1> DEFINE p == ReplayEvent(c, a, x)
           q == ReplayEvent(d, b, x)
<1>0. x \in d.events /\ z \in d.events /\ z # x /\ IsHistory(d.events)
  BY DEF JoinsAt, Joins, Timed, Ordered
<1>1. CASE Neutral(d, z[3]) \/ z \notin S
  <2>1. Neutral(d, z[3]) \/ Before(x, z)
    BY <1>0, <1>1, EventsAreOrdered
  <2>2. a = b /\ p = ReplayEvent(d, a, x)
    BY <1>1, <2>1, SameStep DEF Since
  <2> QED BY <1>0, <1>1, <2>2 DEF Since
<1>2. CASE z \in S /\ ~Neutral(d, z[3])
  <2>1. Before(z, x)
    BY <1>2
  <2>2. Window(LaterCredit(d, z[3]), p, q)
    <3>1. Window(LaterCredit(d, z[3]), a, b)
      BY <1>2 DEF Since
    <3> QED BY <2>1, <3>1, WindowStep
  <2> QED BY <1>2, <2>2 DEF Since
<1> QED BY <1>1, <1>2

LEMMA SinceOld ==
  ASSUME ReplayAssumption, NEW c, NEW d, NEW z, NEW S \in SUBSET c.events, NEW a, NEW b,
         JoinsAt(c, d, z), Since(d, z, S, a, b), \A y \in S : Before(y, z),
         \A y \in c.events : Before(y, z) => y \in S,
         Wallet(c, S, a), ~a.gone, NEW B, NEW Q, a.deferred = Waits(c, B, Q)
  PROVE  Since(d, z, S \cup {z}, a, ReplayEvent(d, b, z))
<1>1. z \notin S /\ z \in d.events \ c.events /\ z[2] # 0 /\ z[3] # 0 /\ Ordered(c) /\ Joins(c, d)
  BY DEF JoinsAt, Timed, Ordered, Joins
<1>2. a = b
  BY <1>1 DEF Since
<1>3. CASE Neutral(d, z[3])
  <2>1. ReplayEvent(d, a, z) = ApplyDeferred(a, z[3])
    BY <1>1, <1>3 DEF ReplayEvent, ReplayResult
  <2>2. ApplyDeferred(a, z[3]) = a
    BY <1>1, NothingWaits
  <2> QED BY <1>2, <1>3, <2>1, <2>2 DEF Since
<1>4. CASE ~Neutral(d, z[3])
  <2>1. Window(LaterCredit(d, z[3]), a, ReplayEvent(d, a, z))
    BY <1>4, WindowOpens
  <2> QED BY <1>2, <1>4, <2>1 DEF Since
<1> QED BY <1>3, <1>4

-----------------------------------------------------------------------------
(* By induction over the moments of d up to a loss that falls. *)
LEMMA OldLossRuns ==
  ASSUME ReplayAssumption, NEW c, NEW d, NEW z, NEW s, JoinsAt(c, d, z), Bared(c, c),
         Fresh(Beginning(c, s)), Beginning(c, s) = Beginning(d, s),
         ~Run(c, s).gone, Run(d, s).why.rule = "loss",
         \A m \in Run(c, s).bonuses : m < Run(d, s).why.of => m \in Run(d, s).bonuses
  PROVE  \E w \in d.events :
           w[2] # 0 /\ w[3] = Run(d, s).why.of /\ ~(w[1] < LaterCredit(d, z[3]))
<1> DEFINE E == c.events
           D == d.events
           K == LaterCredit(d, z[3])
<1>0. /\ IsHistory(E) /\ IsHistory(D) /\ D = E \cup {z} /\ z \notin E
      /\ Timed(c) /\ Timed(d) /\ Ordered(c) /\ Fresh(Beginning(d, s))
  BY DEF JoinsAt, Timed, Ordered
<1>h. IsHistory(D)
  BY <1>0
<1>1. PICK f : Replays(c, s, f, SUBSET E) /\ Run(c, s) = f[E]
  BY <1>0, RunReplays
<1>2. PICK g : Replays(d, s, g, SUBSET D) /\ Run(d, s) = g[D]
  BY <1>0, RunReplays
<1>3. Prefix(D, D) /\ Prefix(E, E)
  BY DEF Prefix
<1>f. ASSUME NEW P, Prefix(P, E)
      PROVE  (f[P].gone => f[E].gone) /\ f[P].bonuses \subseteq f[E].bonuses
  <2>1. P \subseteq E /\ E \in SUBSET E
    BY <1>f DEF Prefix
  <2>2. Grows(f, P, E)
    BY <1>0, <1>1, <1>f, <2>1, RunGrows
  <2> QED BY <2>2 DEF Grows
<1>g. ASSUME NEW P, Prefix(P, D), NEW W \in SUBSET D, P \subseteq W
      PROVE  \A m \in g[W].bonuses \ g[P].bonuses : \E y \in W \ P : y[2] # 0 /\ y[3] = m
  <2>1. Grows(g, P, W)
    BY <1>0, <1>2, <1>g, RunGrows
  <2> QED BY <2>1 DEF Grows
<1>p. ASSUME NEW S, Prefix(S, D), S # {}
      PROVE  /\ Prefix(S \ {Last(S)}, D) /\ Last(S) \in S /\ S \in SUBSET D
             /\ \A y \in S \ {Last(S)} : Before(y, Last(S))
  <2> HIDE DEF D
  <2> QED BY <1>h, <1>p, PrefixWithoutLast
<1>4. PICK w \in D : Fell(d, g, w) /\ w[3] = g[D].why.of
  <2>1. g[D].why.rule = "loss"
    BY <1>2
  <2>2. FellIn(d, g, D)
    BY <1>0, <1>2, <1>3, <2>1, FallsWhere
  <2> QED BY <2>2 DEF FellIn
<1> SUFFICES ASSUME w[1] < K PROVE FALSE
  BY <1>2, <1>4 DEF Fell
<1> DEFINE U == Preceding(D, w) \cup {w}
<1>5. \A y \in U : y[1] < K /\ ~Before(w, y)
  <2>1. ASSUME NEW y \in D, Before(y, w) PROVE y[1] < K /\ ~Before(w, y)
    <3>1. y[1] \in Nat /\ w[1] \in Nat /\ K \in Nat
      <4>1. y \in Nat \X Nat \X Nat /\ w \in Nat \X Nat \X Nat
        BY <1>0 DEF IsHistory
      <4>2. K \in d.credits
        BY LaterCreditIs DEF JoinsAt, Timed
      <4> QED BY <4>1, <4>2 DEF JoinsAt, Timed
    <3>2. y[1] <= w[1]
      BY <2>1, <3>1 DEF Before
    <3>3. ~Before(w, y)
      BY <1>0, <2>1, EventsAreOrdered
    <3> QED BY <3>1, <3>2, <3>3
  <2>2. ~Before(w, w)
    BY <1>0, EventsAreOrdered
  <2> QED BY <2>1, <2>2 DEF Preceding
<1>6. Prefix(U, D) /\ w \in U
  <2>1. ASSUME NEW u \in U, NEW v \in D, Before(v, u) PROVE v \in U
    <3>1. v = w \/ Before(v, w)
      <4>1. u \in D /\ (u = w \/ Before(u, w))
        BY DEF Preceding
      <4> QED BY <1>0, <2>1, <4>1, EventsAreOrdered
    <3> QED BY <3>1 DEF Preceding
  <2> QED BY <2>1 DEF Prefix, Preceding
<1> HIDE DEF K, U
<1>7. ASSUME NEW S, Prefix(S, D)
      PROVE  /\ Prefix(S \cap E, E) /\ S \cap E \in SUBSET E /\ ~f[S \cap E].gone
             /\ Wallet(c, S \cap E, f[S \cap E]) /\ f[S \cap E].bonuses \subseteq f[E].bonuses
  <2> DEFINE T == S \cap E
  <2>1. Prefix(T, E) /\ T \in SUBSET E /\ T \subseteq E
    BY <1>0, <1>7 DEF Prefix
  <2> HIDE DEF T
  <2>2. (f[T].gone => f[E].gone) /\ f[T].bonuses \subseteq f[E].bonuses
    BY <2>1, <1>f
  <2>3. ~f[T].gone
    BY <1>1, <2>2
  <2>4. Wallet(c, T, f[T])
    BY <1>0, <1>1, <2>1, <2>3, WalletRuns
  <2> QED BY <2>1, <2>2, <2>3, <2>4 DEF T
<1> DEFINE G == {S \in SUBSET D : Prefix(S, D) /\ S \subseteq U => Since(d, z, S, f[S \cap E], g[S])}
<1>8. {} \in G
  <2>1. f[{}] = Beginning(c, s) /\ g[{}] = Beginning(c, s) /\ {} \cap E = {}
    BY <1>1, <1>2 DEF Replays
  <2> QED BY <2>1 DEF Since
<1>9. ASSUME NEW S \in SUBSET D, S # {}, S \ {Last(S)} \in G PROVE S \in G
  <2> SUFFICES ASSUME Prefix(S, D), S \subseteq U PROVE Since(d, z, S, f[S \cap E], g[S])
    OBVIOUS
  <2> DEFINE x == Last(S)
             R == S \ {x}
  <2>1. Prefix(R, D) /\ x \in S /\ x \in D /\ R \in SUBSET D /\ \A y \in R : Before(y, x)
    BY <1>9, <1>p
  <2>2. g[S] = ReplayEvent(d, g[R], x)
    BY <1>2, <1>9 DEF Replays
  <2>3. Since(d, z, R, f[R \cap E], g[R])
    BY <1>9, <2>1
  <2> HIDE DEF x
  <2>4. R \cup {x} = S /\ x \notin R
    BY <2>1
  <2>5. \A y \in D : Before(y, x) => y \in R
    <3> SUFFICES ASSUME NEW y \in D, Before(y, x) PROVE y \in R
      OBVIOUS
    <3>1. y # x
      BY <1>0, EventsAreOrdered
    <3> QED BY <2>1, <3>1 DEF Prefix
  <2>6. x[1] < K /\ x \in U
    BY <1>5, <2>1
  <2> HIDE DEF R
  <2> DEFINE a == f[R \cap E]
             b == g[R]
  <2>7. /\ Prefix(R \cap E, E) /\ R \cap E \in SUBSET E /\ ~a.gone /\ Wallet(c, R \cap E, a)
    BY <1>7, <2>1
  <2>8. CASE x \in E
    <3> DEFINE T == S \cap E
    <3>1. T \in SUBSET E /\ T # {} /\ T \ {x} = R \cap E /\ x \in T /\ \A y \in T \ {x} : Before(y, x)
      BY <2>1, <2>4, <2>8
    <3>2. Last(T) = x
      <4>1. Last(T) \in T /\ \A y \in T \ {Last(T)} : Before(y, Last(T))
        BY <1>0, <3>1, FS_Subset, LastIsIn DEF IsHistory
      <4> HIDE DEF T
      <4>2. ~(Before(Last(T), x) /\ Before(x, Last(T)))
        BY <1>0, <3>1, <4>1, EventsAreOrdered
      <4> QED BY <3>1, <4>1, <4>2
    <3>3. f[T] = ReplayEvent(c, f[R \cap E], x)
      BY <1>1, <3>1, <3>2 DEF Replays
    <3>4. ~f[T].gone /\ f[T].bonuses \subseteq f[E].bonuses
      BY <1>7
    <3>5. ASSUME x[2] # 0, Earns(d, x[3]), x[3] \in f[T].bonuses PROVE g[S].bonuses # b.bonuses
      <4> DEFINE m == x[3]
      <4>1. x # w
        BY <1>4, <3>5 DEF Fell, Loses, Earns, Losses
      <4>2. Before(x, w)
        BY <2>6, <4>1 DEF U, Preceding
      <4>3. m < w[3]
        <5>1. Spends(d, w) /\ Place(w) = w[3] /\ w[3] # 0
          BY <1>0, <1>4 DEF Fell, Loses, Spends, Place, Timed, Ordered
        <5>2. EarnedFor(d.log, m, Place(w))
          BY <1>0, <2>1, <3>5, <4>2, <5>1 DEF Timed, Placed
        <5> QED BY <5>1, <5>2 DEF EarnedFor
      <4>4. m \in g[D].bonuses
        BY <1>1, <1>2, <1>4, <3>4, <3>5, <4>3
      <4>5. \A y \in D : y[2] # 0 /\ y[3] = m => y = x
        BY <1>0, <2>1, <3>5 DEF Timed, Ordered, Results
      <4>6. m \in g[S].bonuses
        <5>1. \A n \in g[D].bonuses \ g[S].bonuses : \E y \in D \ S : y[2] # 0 /\ y[3] = n
          <6>1. S \subseteq D /\ D \in SUBSET D
            OBVIOUS
          <6> QED BY <6>1, <1>g
        <5> QED BY <2>1, <4>4, <4>5, <5>1
      <4>7. m \notin b.bonuses
        <5>1. Prefix({}, D) /\ {} \subseteq R /\ R \in SUBSET D
          BY <2>1 DEF Prefix
        <5>2. \A n \in g[R].bonuses \ g[{}].bonuses : \E y \in R \ {} : y[2] # 0 /\ y[3] = n
          BY <5>1, <1>g
        <5>3. g[{}].bonuses = {}
          BY <1>2 DEF Replays, Fresh, Blank
        <5> QED BY <2>1, <2>4, <4>5, <5>2, <5>3
      <4> QED BY <4>6, <4>7
    <3> HIDE DEF T, E, D
    <3>6. Since(d, z, R \cup {x}, ReplayEvent(c, a, x), ReplayEvent(d, b, x))
      BY <2>1, <2>2, <2>3, <2>5, <2>6, <2>7, <2>8, <3>3, <3>4, <3>5, SinceOwn DEF E, D, K
    <3> QED BY <2>2, <2>4, <3>3, <3>6 DEF T
  <2>9. CASE x \notin E
    <3>1. x = z /\ S \cap E = R \cap E /\ R \subseteq E /\ R \cap E = R
      BY <1>0, <2>1, <2>4, <2>9
    <3>2. f[R].deferred = Waits(c, Breaks(c, R), Passed(R))
      <4>1. Beginning(c, s).last \in Nat
        BY DEF Fresh, Blank
      <4>2. Follow(c, c, R, f[R], f[R])
        <5>1. Prefix(R, E) /\ R \in SUBSET E
          BY <2>7, <3>1
        <5>2. \A P \in SUBSET E : Prefix(P, E) => Follow(c, c, P, f[P], f[P])
          BY <1>0, <1>1, <4>1, BaredFollow
        <5> QED BY <5>1, <5>2
      <4> QED BY <4>2 DEF Follow, Streaks
    <3>3. Since(d, z, R \cup {z}, f[R], ReplayEvent(d, g[R], z))
      <4>1. R \in SUBSET c.events /\ ~f[R].gone /\ Wallet(c, R, f[R]) /\ Since(d, z, R, f[R], g[R])
        BY <2>3, <2>7, <3>1
      <4>2. (\A y \in R : Before(y, z)) /\ \A y \in c.events : Before(y, z) => y \in R
        BY <1>0, <2>1, <2>5, <3>1
      <4> QED BY <3>2, <4>1, <4>2, SinceOld
    <3> QED BY <2>2, <2>4, <3>1, <3>3
  <2> QED BY <2>8, <2>9
<1>10. SUBSET D \subseteq G
  <2> HIDE DEF G, D
  <2> QED BY <1>h, <1>8, <1>9, HistoryInduction
<1>11. ~g[U].gone
  <2>1. Since(d, z, U, f[U \cap E], g[U])
    BY <1>6, <1>10 DEF Prefix
  <2>2. ~f[U \cap E].gone
    BY <1>6, <1>7
  <2> QED BY <2>1, <2>2, SinceDismissed
<1>12. g[U].gone
  <2>1. Last(U) = w /\ U \ {w} = Preceding(D, w) /\ U # {} /\ U \in SUBSET D
    <3>1. ~Before(w, w) /\ U \in SUBSET D
      BY <1>0, <1>6, EventsAreOrdered DEF Prefix
    <3>2. U \ {w} = Preceding(D, w)
      BY <3>1 DEF U, Preceding
    <3>3. Last(U) \in U /\ \A y \in U \ {Last(U)} : Before(y, Last(U))
      BY <1>6, <1>p
    <3>4. Last(U) = w
      BY <1>5, <1>6, <3>3
    <3> QED BY <1>6, <3>1, <3>2, <3>4
  <2>2. g[U] = ReplayEvent(d, g[Preceding(D, w)], w)
    BY <1>2, <2>1 DEF Replays
  <2>3. Whole(g[Preceding(D, w)])
    <3>1. Preceding(D, w) \in SUBSET D
      BY DEF Preceding
    <3> QED BY <1>0, <1>2, <3>1, RunSteps DEF Money
  <2>4. Lost(d, g[Preceding(D, w)], w[3], g[U]) /\ Falls(d, g[Preceding(D, w)], w[3])
    BY <1>4, <2>2, <2>3, WalletResult DEF Fell
  <2> QED BY <2>4 DEF Lost
<1> QED BY <1>11, <1>12

-----------------------------------------------------------------------------
(***************************************************************************)
(* The stored ledger, with the old loss and without it                     *)
(***************************************************************************)
LEMMA LedgerIsTimed ==
  ASSUME NEW rows, NEW log, IsLedger(rows, log)
  PROVE  Timed(WithEvents(Context(rows, log)))
<1> DEFINE b == Context(rows, log)
           c == WithEvents(b)
<1>1. /\ c.rows = rows /\ c.log = log /\ c.credits = Credits(log)
      /\ \A x \in c.events : x[2] # 0 => x[3] \in Entered(rows)
  BY LedgerIsHistory
<1>2. /\ b.rows = rows /\ b.log = log /\ c.events = CommandEvents(b) \cup ResultEvents(b)
  BY DEF WithEvents, Context
<1>3. Ordered(c) /\ Placed(c) /\ \A x \in c.events : IsEvent(c, x)
  BY LedgerIsOrdered, LedgerIsPlaced, EventsAreEvents, ReplayAssumption
<1>4. \A e \in Entered(rows) : Day(LedgerTime(b, e)) = DayOf[e] /\ rows[e].at \in Nat
  BY LedgerTimeIsOfDay DEF IsLedger, Entered, Row
<1>5. Credits(log) \subseteq Nat
  BY CreditsAreMoments DEF IsLedger
<1>6. \A i \in Pending(log) : log[i].action \in {"add", "deduct"}
  BY PendingAreMovements DEF IsLedger
<1> HIDE DEF b, c
<1>7. CommandEvents(b) = {<<log[i].at, 0, i>> : i \in Pending(log)}
  BY <1>2 DEF CommandEvents
<1>8. ASSUME NEW x \in c.events, x[2] = 0
      PROVE  x[3] \in Pending(log) /\ x[1] = log[x[3]].at
  BY <1>2, <1>7, <1>8 DEF ResultEvents
<1>9. ASSUME NEW x \in c.events, x[2] # 0
      PROVE  x[3] \in Entered(rows) /\ x[1] = LedgerTime(b, x[3])
  <2>1. x \in ResultEvents(b)
    BY <1>2, <1>7, <1>9
  <2> QED BY <1>2, <2>1 DEF ResultEvents
<1>10. ASSUME NEW x \in c.events, IsCredit(c, x) PROVE x[1] \in c.credits
  BY <1>1, <1>8, <1>10 DEF IsCredit, Credits
<1>11. ASSUME NEW t \in c.credits PROVE \E y \in c.events : y[1] = t /\ IsCredit(c, y)
  <2>1. PICK i \in Pending(log) : log[i].at = t /\ log[i].action = "add" /\ log[i].applied > 0
    BY <1>1, <1>11 DEF Credits
  <2>2. <<t, 0, i>> \in c.events
    BY <1>2, <1>7, <2>1
  <2>3. IsCredit(c, <<t, 0, i>>)
    BY <1>1, <2>1 DEF IsCredit
  <2> QED BY <2>2, <2>3
<1>12. ASSUME NEW x \in c.events
       PROVE  /\ x[2] = 0 => c.log[x[3]].action \in {"add", "deduct"}
              /\ x[2] # 0 => Day(x[1]) = DayOf[x[3]] /\ c.rows[x[3]].at \in Nat
  BY <1>1, <1>4, <1>6, <1>8, <1>9
<1> QED BY <1>1, <1>3, <1>5, <1>10, <1>11, <1>12 DEF Timed, c, b

LEMMA LedgerIsFresh ==
  ASSUME NEW rows, NEW log, IsLedger(rows, log), NEW s
  PROVE  Fresh(Beginning(WithEvents(Context(rows, log)), s))
<1> DEFINE c == WithEvents(Context(rows, log))
           b == Beginning(c, s)
<1>1. Opening(log).after \in Nat
  BY ReplayAssumption, OpeningIsEntry DEF IsLedger, Entry
<1>2. c.open = Opening(log)
  BY LedgerIsHistory
<1> HIDE DEF c
<1>3. Capped(c.open.after) \in Nat /\ Capped(c.open.after) <= Cap
  BY <1>1, <1>2, CappedBounds, ReplayAssumption DEF ReplayAssumption
<1>4. /\ Whole(b) /\ b.bal = Capped(c.open.after) /\ b.shadow = b.bal /\ b.bonuses = {} /\ b.saved = {}
      /\ b.known = 0 /\ b.late = 0 /\ ~b.gone /\ b.why = NoWhy
  BY DEF Beginning, Whole, Parts
<1>5. b.last \in Nat
  BY BeginningLast
<1> QED BY <1>3, <1>4, <1>5 DEF Fresh, Blank, Money, c

LEMMA ReturnDayIsDay ==
  ASSUME NEW log \in Seq(Entry)
  PROVE  ReturnDay(log) \in Nat
<1> DEFINE i == Latest(log, {"grant"})
<1>1. i = 0 \/ log[i] \in Entry
  BY LatestIsPlace, EntriesAreTyped
<1>2. DayLength \in Nat \ {0}
  BY ReplayAssumption DEF ReplayAssumption
<1>3. ReturnDay(log) = IF i = 0 THEN 0 ELSE Day(log[i].at)
  BY DEF ReturnDay
<1> HIDE DEF i
<1>4. ASSUME log[i] \in Entry PROVE Day(log[i].at) \in Nat
  <2>1. log[i].at \in Nat
    BY <1>4 DEF Entry
  <2> QED BY <1>2, <2>1, DayBounds DEF Day
<1> QED BY <1>1, <1>3, <1>4

(* more is rows with the result of e, a loss entered after every credit of the ledger, *)
(* the first of them on or after the exam's day of a later day. *)
OldLoss(rows, more, log, e) ==
  LET k == Context(more, log)
      K == LaterCredit(k, e) IN
  /\ e \in Exams /\ rows[e].res = "none" /\ more = [rows EXCEPT ![e] = more[e]]
  /\ more[e].res \in Losses /\ e \notin Finals /\ ~more[e].excl
  /\ <<e, more[e].at>> \notin Opening(log).settled
  /\ K # 0 /\ \A t \in Credits(log) : t <= more[e].at
  /\ \A i \in Pending(log) : log[i].action = "deduct" /\ log[i].at <= K => log[i].at <= LedgerTime(k, e)

LEMMA OldLossJoins ==
  ASSUME NEW rows, NEW more, NEW log, NEW e, IsLedger(rows, log), IsLedger(more, log),
         OldLoss(rows, more, log, e)
  PROVE  LET c == WithEvents(Context(Bare(rows, log), log))
             d == WithEvents(Context(Bare(more, log), log))
             z == <<LedgerTime(Context(more, log), e), 1, e>> IN
         JoinsAt(c, d, z) /\ Bared(c, c)
<1> DEFINE r == Bare(rows, log)
           m == Bare(more, log)
           k == Context(more, log)
           c == WithEvents(Context(r, log))
           d == WithEvents(Context(m, log))
           z == <<LedgerTime(k, e), 1, e>>
           K == LaterCredit(k, e)
<1>1. /\ e \in Exams /\ rows[e].res = "none" /\ \A f \in Exams \ {e} : more[f] = rows[f]
      /\ more[e].res \in Losses /\ e \notin Finals /\ ~more[e].excl
      /\ <<e, more[e].at>> \notin Opening(log).settled
      /\ K # 0 /\ \A t \in Credits(log) : t <= more[e].at
      /\ \A i \in Pending(log) :
           log[i].action = "deduct" /\ log[i].at <= K => log[i].at <= LedgerTime(k, e)
  BY DEF OldLoss, IsLedger
<1>2. Entered(more) = Entered(rows) \cup {e} /\ e \notin Entered(rows) /\ Entered(more) \ Entered(rows) = {e}
  BY <1>1 DEF Entered, Losses
<1>3. HasAll(rows, more)
  BY <1>1, <1>2 DEF HasAll, Entered
<1>4. k.rows = more /\ k.credits = Credits(log) /\ k.open = Opening(log) /\ k.back = ReturnDay(log)
  BY DEF Context
<1>5. /\ IsLedger(r, log) /\ IsLedger(m, log) /\ Entered(r) = Entered(rows) /\ Entered(m) = Entered(more)
      /\ m[e].at = more[e].at
      /\ ~Neutral(k, e) => m[e] = more[e]
      /\ Neutral(k, e) => m[e].res = "weak"
  BY <1>1, <1>2, BareRows
<1>6. /\ d.rows = m /\ d.log = log /\ d.open = Opening(log) /\ d.back = ReturnDay(log)
      /\ d.credits = Credits(log)
  BY <1>5, LedgerIsHistory
<1>6c. c.rows = r
  BY <1>5, LedgerIsHistory
<1>7. (Neutral(d, e) <=> Neutral(k, e)) /\ LaterCredit(d, e) = K
  <2>1. Neutral(k, e) <=> Neutral(Context(m, log), e)
    BY <1>2, BareTimes
  <2>2. LaterCredit(k, e) = LaterCredit(Context(m, log), e)
    BY <1>2, BareTimes
  <2>3. Neutral(d, e) <=> Neutral(Context(m, log), e)
    BY DEF Neutral, WithEvents, Context
  <2>4. LaterCredit(d, e) = LaterCredit(Context(m, log), e)
    BY DEF LaterCredit, WithEvents, Context
  <2> QED BY <2>1, <2>2, <2>3, <2>4
<1> HIDE DEF c, d, r, m, K
<1>8. OwnTime(k, e) = At(e)
  <2> DEFINE followed == {t \in k.credits : t > At(e) /\ t <= k.rows[e].at /\ Day(t) = DayOf[e]}
  <2>1. OwnTime(k, e) = IF KeepsPlace(k, e) THEN At(e) ELSE Greatest({At(e)} \cup followed)
    BY DEF OwnTime
  <2>2. followed = {}
    <3> SUFFICES ASSUME NEW t \in k.credits, t <= k.rows[e].at, Day(t) = DayOf[e] PROVE FALSE
      OBVIOUS
    <3>1. k.credits \subseteq Nat /\ t \in Nat
      BY <1>4, CreditsAreMoments DEF IsLedger
    <3>2. K \in k.credits /\ Day(K) > DayOf[e] /\ \A u \in k.credits : Day(u) >= DayOf[e] /\ u <= k.rows[e].at => K <= u
      <4>1. LaterCredit(k, e) # 0
        BY <1>1 DEF K
      <4> HIDE DEF k
      <4> QED BY <3>1, <4>1, LaterCreditIs DEF K
    <3>3. DayOf[e] \in Nat
      BY <1>1, ReplayAssumption DEF ReplayAssumption
    <3>4. K <= t /\ K \in Nat
      BY <3>1, <3>2, <3>3
    <3>5. Day(K) <= Day(t)
      BY <3>1, <3>4, ReplayAssumption, DaysPass
    <3>6. Day(K) \in Nat
      <4>1. DayLength \in Nat \ {0}
        BY ReplayAssumption DEF ReplayAssumption
      <4> QED BY <3>4, <4>1, DayBounds DEF Day
    <3> QED BY <3>2, <3>3, <3>5, <3>6
  <2> HIDE DEF followed
  <2>3. Greatest({At(e)}) = At(e)
    <3>1. At(e) \in Nat
      BY <1>1, ReplayAssumption, ExamsMoment
    <3> QED BY <3>1 DEF Greatest
  <2> QED BY <2>1, <2>2, <2>3
<1>9. m[e].res # "pass"
  BY <1>1, <1>5 DEF Losses
<1>10. Joins(c, d) /\ Bared(c, c) /\ d.events = c.events \cup {z}
  <2>1. \A f \in Entered(more) \ Entered(rows) : m[f].res # "pass" /\ OwnTime(k, f) = At(f)
    BY <1>2, <1>8, <1>9
  <2>2. Joins(c, d) /\ Bared(c, c)
        /\ d.events = c.events \cup {<<LedgerTime(k, f), 1, f>> : f \in Entered(more) \ Entered(rows)}
    BY <1>3, <2>1, BareJoins DEF c, d, r, m
  <2> QED BY <1>2, <2>2
<1>11. Timed(c) /\ Timed(d)
  BY <1>5, LedgerIsTimed DEF c, d
<1>12. z \in d.events \ c.events
  BY <1>2, <1>5, <1>6c, <1>10 DEF Joins
<1>13. Neutral(d, e) => ~(DayOf[e] >= d.back)
  <2>1. Neutral(d, e) => DayOf[e] < ReturnDay(log)
    BY <1>1, <1>4, <1>7 DEF Neutral
  <2>2. DayOf[e] \in Nat /\ ReturnDay(log) \in Nat
    BY <1>1, ReplayAssumption, ReturnDayIsDay DEF ReplayAssumption, IsLedger
  <2> QED BY <1>6, <2>1, <2>2
<1>14. ~Neutral(d, e) => Loses(d, e)
  BY <1>1, <1>5, <1>6, <1>7 DEF Loses
<1>15. LaterCredit(d, e) # 0 /\ \A t \in d.credits : t <= d.rows[e].at
  BY <1>1, <1>5, <1>6, <1>7 DEF K
<1>16. ASSUME NEW x \in d.events, x[2] = 0, d.log[x[3]].action = "deduct", x[1] <= LaterCredit(d, e)
       PROVE  x[1] <= z[1]
  <2>1. x[3] \in Pending(log) /\ x[1] = log[x[3]].at
    <3>1. d.events = CommandEvents(Context(m, log)) \cup ResultEvents(Context(m, log))
      BY DEF d, WithEvents, Context
    <3>2. CommandEvents(Context(m, log)) = {<<log[i].at, 0, i>> : i \in Pending(log)}
      BY DEF CommandEvents, Context
    <3> QED BY <1>16, <3>1, <3>2 DEF ResultEvents
  <2> QED BY <1>1, <1>6, <1>7, <1>16, <2>1
<1>17. Entered(d.rows) = Entered(c.rows) \cup {z[3]}
  BY <1>2, <1>5, <1>6, <1>6c
<1> HIDE DEF k
<1>18. z[3] = e
  OBVIOUS
<1> HIDE DEF z
<1>19. JoinsAt(c, d, z)
  BY <1>10, <1>11, <1>12, <1>13, <1>14, <1>15, <1>16, <1>17, <1>18 DEF JoinsAt
<1> QED BY <1>10, <1>19 DEF c, d, r, m, k, z

(***************************************************************************)
(* An old loss, entered after a credit of a later day and with no deduction*)
(* by hand between the two, dismisses nobody before that credit: neither   *)
(* itself nor by making another result of that time find an empty balance, *)
(* as long as the bonuses of that time stay what they were.                *)
(***************************************************************************)
THEOREM OldLossWaits ==
  ASSUME NEW rows, NEW more, NEW log, NEW e, IsLedger(rows, log), IsLedger(more, log),
         OldLoss(rows, more, log, e), NEW s,
         ~Replayed(rows, log, s).gone, Replayed(more, log, s).why.rule = "loss",
         \A b \in Replayed(rows, log, s).bonuses :
           b < Replayed(more, log, s).why.of => b \in Replayed(more, log, s).bonuses
  PROVE  LET k == Context(more, log) IN
         LedgerTime(k, Replayed(more, log, s).why.of) >= LaterCredit(k, e)
<1> DEFINE r == Bare(rows, log)
           m == Bare(more, log)
           k == Context(more, log)
           c == WithEvents(Context(r, log))
           d == WithEvents(Context(m, log))
           z == <<LedgerTime(k, e), 1, e>>
<1>1. JoinsAt(c, d, z) /\ Bared(c, c)
  BY OldLossJoins
<1>2. /\ IsLedger(r, log) /\ IsLedger(m, log) /\ Entered(r) = Entered(rows) /\ Entered(m) = Entered(more)
      /\ (\A f \in Exams : r[f].at = rows[f].at) /\ (\A f \in Exams : m[f].at = more[f].at)
  BY BareRows
<1>3. Run(c, s) = Replayed(rows, log, s) /\ Run(d, s) = Replayed(more, log, s)
  BY BareReplay DEF Replayed
<1>4. c.rows = r /\ c.log = log /\ c.open = Opening(log) /\ c.back = ReturnDay(log)
      /\ d.rows = m /\ d.log = log /\ d.open = Opening(log) /\ d.back = ReturnDay(log)
  BY <1>2, LedgerIsHistory
<1>5. Fresh(Beginning(c, s))
  BY <1>2, LedgerIsFresh
<1> HIDE DEF c, d, r, m, k
<1>6. SettledExams(r, log) = SettledExams(m, log)
  <2>1. /\ Entered(more) = Entered(rows) \cup {e} /\ e \notin Entered(rows)
        /\ <<e, more[e].at>> \notin Opening(log).settled
        /\ \A f \in Entered(rows) : more[f].at = rows[f].at
    BY DEF OldLoss, Entered, IsLedger, Losses
  <2>2. \A f \in Entered(rows) : r[f].at = rows[f].at /\ m[f].at = rows[f].at
    BY <1>2, <2>1 DEF Entered
  <2>3. m[e].at = more[e].at
    BY <1>2 DEF OldLoss
  <2> QED BY <1>2, <2>1, <2>2, <2>3 DEF SettledExams
<1>7. Beginning(c, s) = Beginning(d, s)
  BY <1>4, <1>6 DEF Beginning
<1>8. PICK w \in d.events :
        w[2] # 0 /\ w[3] = Run(d, s).why.of /\ ~(w[1] < LaterCredit(d, z[3]))
  BY <1>1, <1>3, <1>5, <1>7, ReplayAssumption, OldLossRuns
<1>9. w[3] \in Entered(more) /\ w[1] = LedgerTime(k, w[3]) /\ w[1] \in Nat
  <2>1. w[3] \in Entered(m) /\ IsHistory(d.events)
    BY <1>2, <1>8, LedgerIsHistory DEF d
  <2>2. w[1] = LedgerTime(Context(m, log), w[3])
    <3>1. d.events = CommandEvents(Context(m, log)) \cup ResultEvents(Context(m, log))
      BY DEF d, WithEvents, Context
    <3> QED BY <1>8, <3>1 DEF CommandEvents, ResultEvents
  <2>3. LedgerTime(Context(m, log), w[3]) = LedgerTime(k, w[3])
    BY <1>2, <2>1, BareTimes DEF m, k
  <2>4. w[1] \in Nat
    BY <2>1 DEF IsHistory
  <2> QED BY <1>2, <2>1, <2>2, <2>3, <2>4
<1>10. LaterCredit(d, e) = LaterCredit(k, e)
  <2>1. LaterCredit(k, e) = LaterCredit(Context(m, log), e)
    <3>1. e \in Entered(more)
      BY DEF OldLoss, Entered, Losses
    <3> QED BY <3>1, BareTimes DEF m, k
  <2>2. LaterCredit(d, e) = LaterCredit(Context(m, log), e)
    BY DEF LaterCredit, WithEvents, Context, d
  <2> QED BY <2>1, <2>2
<1>11. LaterCredit(d, e) \in Nat
  <2>1. LaterCredit(d, e) # 0 /\ d.credits \subseteq Nat
    BY <1>1 DEF JoinsAt, Timed
  <2> QED BY <2>1, LaterCreditIs
<1> QED BY <1>3, <1>8, <1>9, <1>10, <1>11 DEF k
=============================================================================
