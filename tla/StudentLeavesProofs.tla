-------------------------- MODULE StudentLeavesProofs --------------------------
(***************************************************************************)
(* Proofs about StudentLeaves, for any exams, days and number of leaves,   *)
(* when no score is typed over a leave that another leave crosses.         *)
(* Stands is the strengthening: at each exam that is not mislaid a backup   *)
(* is held by one leave, that covers it, and is the result recorded there,  *)
(* and if there is a result one of the covering leaves holds it, whether    *)
(* the marker is there or was deleted by hand.  That it is one leave rests  *)
(* on Apart: at most one leave for the exam and one period cover an exam.   *)
(***************************************************************************)
EXTENDS StudentLeaves, TLAPS

Shape(f) ==
  /\ f.leave \in [Leaves -> Scope \cup {NoLeave}]
  /\ f.row \in [Exams -> Results \cup {Excused, NoRow}]
  /\ f.backup \in [Leaves -> [Exams -> Results \cup {NoRow}]]

Clash(s, t) ==
  IF IsExamLeave(s) THEN t = s
  ELSE t # NoLeave /\ ~IsExamLeave(t) /\ t.from <= s.to /\ t.to >= s.from

Apart(f) == \A l, k \in Leaves : l # k /\ f.leave[l] # NoLeave => ~Clash(f.leave[l], f.leave[k])

OneHolder(f, e) ==
  \A l, k \in Leaves : f.backup[l][e] # NoRow /\ f.backup[k][e] # NoRow => l = k

(* The leaves C cover exam e, whose result is r; M are the exams whose marker *)
(* was deleted.                                                             *)
Stands(f, C, e, r, M) ==
  /\ OneHolder(f, e)
  /\ \A l \in Leaves : f.backup[l][e] # NoRow => l \in C /\ f.backup[l][e] = r
  /\ C # {} => f.row[e] = Excused \/ (e \in M /\ f.row[e] = NoRow)
  /\ C = {} => f.row[e] = r
  /\ C # {} /\ r # NoRow => \E l \in C : f.backup[l][e] # NoRow

(* The leave id is about to cover e as well, and may hold its backup. *)
Between(f, C, id, e, r) ==
  /\ OneHolder(f, e)
  /\ \A l \in Leaves : f.backup[l][e] # NoRow => l \in C \cup {id} /\ f.backup[l][e] = r
  /\ C # {} => f.row[e] \in {Excused, NoRow}
  /\ f.row[e] \in {Excused, NoRow, r}
  /\ r # NoRow /\ f.row[e] # r => \E l \in C \cup {id} : f.backup[l][e] # NoRow

Ready(f, id, scope, e, r, M) ==
  IF CoversOn(scope, e, day[e]) THEN Between(f, Others(f, id, e), id, e, r)
  ELSE Stands(f, Others(f, id, e), e, r, M)

Owned(f) == \A l \in Leaves, e \in Exams : f.leave[l] = NoLeave => f.backup[l][e] = NoRow

IInv ==
  /\ Shape(file) /\ Apart(file) /\ Owned(file)
  /\ day \in [Exams -> Days] /\ real \in [Exams -> Results \cup {NoRow}]
  /\ removed \subseteq Exams /\ mislaid \subseteq Exams
  /\ \A e \in removed : file.row[e] = NoRow
  /\ \A e \in Exams \ mislaid : Stands(file, Covering(file, e), e, real[e], removed)

LEMMA ScopeFacts ==
  /\ NoLeave \notin Scope /\ Excused \notin Results \cup {NoRow} /\ NoRow \notin Results
  /\ Absent \in Results /\ Scores \subseteq Results
BY Assumption DEF Assumption, Scope, ExamLeave, PeriodLeave, Results

LEMMA CoveringFacts ==
  ASSUME NEW f, NEW e \in Exams, NEW id \in Leaves
  PROVE  /\ Covering(f, e) \subseteq Leaves
         /\ Others(f, id, e) = Covering(f, e) \ {id}
         /\ \A l \in Leaves : l \in Covering(f, e) <=> CoversOn(f.leave[l], e, day[e])
         /\ \A l \in Covering(f, e) : f.leave[l] # NoLeave
BY DEF Covering, Others, CoversOn

LEMMA CoveringInLeaves ==
  ASSUME NEW f, NEW e \in Exams
  PROVE  Covering(f, e) \subseteq Leaves
BY DEF Covering

LEMMA SameKindClash ==
  ASSUME NEW s \in Scope, NEW t \in Scope, NEW e \in Exams, NEW d \in Days,
         CoversOn(s, e, d), CoversOn(t, e, d), IsExamLeave(s) <=> IsExamLeave(t)
  PROVE  Clash(s, t)
<1>1. CASE IsExamLeave(s)
  <2>1. s \in [exam : Exams] /\ t \in [exam : Exams]
    BY <1>1 DEF IsExamLeave, ExamLeave
  <2>2. s.exam = e /\ t.exam = e
    BY <1>1 DEF CoversOn
  <2>3. s = t
    BY <2>1, <2>2
  <2> QED BY <2>3, <1>1 DEF Clash
<1>2. CASE ~IsExamLeave(s)
  <2>1. s \in [from : Days, to : Days] /\ t \in [from : Days, to : Days]
    BY <1>2 DEF IsExamLeave, Scope, PeriodLeave
  <2>2. /\ s.from <= d /\ d <= s.to /\ t.from <= d /\ d <= t.to
        /\ t # NoLeave
    BY <1>2 DEF CoversOn
  <2>3. d \in Nat /\ s.from \in Nat /\ s.to \in Nat /\ t.from \in Nat /\ t.to \in Nat
    BY <2>1 DEF Days
  <2>4. t.from <= s.to /\ t.to >= s.from
    BY <2>2, <2>3
  <2> QED BY <2>2, <2>4, <1>2 DEF Clash
<1> QED BY <1>1, <1>2

(* Beside one leave at most one other covers the same exam. *)
LEMMA OneOther ==
  ASSUME NEW f, Shape(f), Apart(f), NEW e \in Exams, day[e] \in Days,
         NEW id \in Covering(f, e), NEW l \in Covering(f, e), NEW k \in Covering(f, e),
         l # id, k # id
  PROVE  l = k
<1>1. /\ id \in Leaves /\ l \in Leaves /\ k \in Leaves
      /\ CoversOn(f.leave[id], e, day[e]) /\ CoversOn(f.leave[l], e, day[e])
      /\ CoversOn(f.leave[k], e, day[e])
  BY DEF Covering
<1>2. /\ f.leave[id] \in Scope /\ f.leave[l] \in Scope /\ f.leave[k] \in Scope
      /\ f.leave[id] # NoLeave /\ f.leave[l] # NoLeave /\ f.leave[k] # NoLeave
  BY <1>1 DEF Shape, CoversOn
<1>3. ~Clash(f.leave[id], f.leave[l]) /\ ~Clash(f.leave[id], f.leave[k])
      /\ (l # k => ~Clash(f.leave[l], f.leave[k]))
  BY <1>1, <1>2 DEF Apart
<1> QED BY <1>1, <1>2, <1>3, SameKindClash

LEMMA RestoredFacts ==
  ASSUME NEW f, NEW id \in Leaves, Shape(f)
  PROVE  LET R == RestoredGrades(f, id) IN
         /\ R.leave = f.leave
         /\ Shape(R)
         /\ \A e \in Exams :
              /\ R.row[e] = IF Others(f, id, e) # {} THEN f.row[e]
                            ELSE IF f.backup[id][e] # NoRow THEN f.backup[id][e]
                            ELSE IF id \in Covering(f, e) /\ f.row[e] = Excused THEN NoRow
                            ELSE f.row[e]
              /\ \A l \in Leaves : R.backup[l][e] =
                   IF l = id THEN NoRow
                   ELSE IF l \in Others(f, id, e) /\ f.backup[l][e] = NoRow THEN f.backup[id][e]
                   ELSE f.backup[l][e]
<1> DEFINE R == RestoredGrades(f, id)
<1>1. /\ R.leave = f.leave
      /\ R.row = [e \in Exams |->
           IF Others(f, id, e) # {} THEN f.row[e]
           ELSE IF f.backup[id][e] # NoRow THEN f.backup[id][e]
           ELSE IF id \in Covering(f, e) /\ f.row[e] = Excused THEN NoRow
           ELSE f.row[e]]
      /\ R.backup = [l \in Leaves |-> [e \in Exams |->
           IF l = id THEN NoRow
           ELSE IF l \in Others(f, id, e) /\ f.backup[l][e] = NoRow THEN f.backup[id][e]
           ELSE f.backup[l][e]]]
  BY DEF RestoredGrades
<1> HIDE DEF R
<1>2. Shape(R)
  <2>1. \A e \in Exams : f.row[e] \in Results \cup {Excused, NoRow}
    BY DEF Shape
  <2>2. \A l \in Leaves, e \in Exams : f.backup[l][e] \in Results \cup {NoRow}
    BY DEF Shape
  <2>3. R.row \in [Exams -> Results \cup {Excused, NoRow}]
    BY <1>1, <2>1, <2>2
  <2>4. R.backup \in [Leaves -> [Exams -> Results \cup {NoRow}]]
    BY <1>1, <2>2
  <2> QED BY <1>1, <2>3, <2>4 DEF Shape
<1>3. ASSUME NEW e \in Exams, NEW l \in Leaves
      PROVE  R.backup[l][e] =
               IF l = id THEN NoRow
               ELSE IF l \in Others(f, id, e) /\ f.backup[l][e] = NoRow THEN f.backup[id][e]
               ELSE f.backup[l][e]
  BY <1>1
<1>4. ASSUME NEW e \in Exams
      PROVE  R.row[e] = IF Others(f, id, e) # {} THEN f.row[e]
                        ELSE IF f.backup[id][e] # NoRow THEN f.backup[id][e]
                        ELSE IF id \in Covering(f, e) /\ f.row[e] = Excused THEN NoRow
                        ELSE f.row[e]
  BY <1>1
<1> QED BY <1>1, <1>2, <1>3, <1>4 DEF R

(* Restoring a leave leaves every exam to the others, however many there are. *)
LEMMA RestoredStands ==
  ASSUME NEW f, NEW id \in Leaves, Shape(f), NEW e \in Exams, NEW r \in Results \cup {NoRow},
         NEW M, Stands(f, Covering(f, e), e, r, M), Apart(f), day[e] \in Days
  PROVE  Stands(RestoredGrades(f, id), Others(f, id, e), e, r, M)
<1> DEFINE R == RestoredGrades(f, id)
           C == Covering(f, e)
           O == Others(f, id, e)
<1>1. /\ R.row[e] = IF O # {} THEN f.row[e]
                    ELSE IF f.backup[id][e] # NoRow THEN f.backup[id][e]
                    ELSE IF id \in C /\ f.row[e] = Excused THEN NoRow
                    ELSE f.row[e]
      /\ \A l \in Leaves : R.backup[l][e] =
           IF l = id THEN NoRow
           ELSE IF l \in O /\ f.backup[l][e] = NoRow THEN f.backup[id][e]
           ELSE f.backup[l][e]
  BY RestoredFacts
<1>2. O = C \ {id} /\ C \subseteq Leaves
  BY CoveringFacts
<1>8. id \in C => \A l, k \in O : l = k
  BY <1>2, OneOther
<1> HIDE DEF R, C, O
<1>3. Stands(f, C, e, r, M)
  BY DEF C
<1>4. \A l \in Leaves : R.backup[l][e] # NoRow => l \in O /\ R.backup[l][e] = r
  BY <1>1, <1>2, <1>3 DEF Stands
<1>5. O # {} => R.row[e] = Excused \/ (e \in M /\ R.row[e] = NoRow)
  BY <1>1, <1>2, <1>3 DEF Stands
<1>6. O = {} => R.row[e] = r
  <2> SUFFICES ASSUME O = {} PROVE R.row[e] = r
    OBVIOUS
  <2>1. CASE f.backup[id][e] # NoRow
    BY <2>1, <1>1, <1>3 DEF Stands
  <2>2. CASE f.backup[id][e] = NoRow /\ id \in C
    <3>1. C = {id}
      BY <2>2, <1>2
    <3>2. r = NoRow /\ f.row[e] \in {Excused, NoRow}
      BY <3>1, <2>2, <1>3 DEF Stands
    <3> QED BY <3>2, <2>2, <1>1
  <2>3. CASE f.backup[id][e] = NoRow /\ id \notin C
    <3>1. C = {}
      BY <2>3, <1>2
    <3> QED BY <3>1, <2>3, <1>1, <1>3 DEF Stands
  <2> QED BY <2>1, <2>2, <2>3
<1>7. O # {} /\ r # NoRow => \E l \in O : R.backup[l][e] # NoRow
  <2> SUFFICES ASSUME O # {}, r # NoRow PROVE \E l \in O : R.backup[l][e] # NoRow
    OBVIOUS
  <2>1. PICK k \in C : f.backup[k][e] # NoRow
    BY <1>2, <1>3 DEF Stands
  <2>2. CASE k = id
    <3>1. PICK l \in O : TRUE
      OBVIOUS
    <3>2. l \in Leaves /\ l # id
      BY <1>2
    <3>3. R.backup[l][e] # NoRow
      BY <3>1, <3>2, <2>1, <2>2, <1>1
    <3> QED BY <3>3
  <2>3. CASE k # id
    <3>1. k \in O /\ k \in Leaves
      BY <2>3, <1>2
    <3>2. R.backup[k][e] # NoRow
      BY <3>1, <2>3, <2>1, <1>1
    <3> QED BY <3>1, <3>2
  <2> QED BY <2>2, <2>3
<1>9. OneHolder(R, e)
  <2>1. f.backup[id][e] # NoRow => id \in C /\ \A l \in Leaves : l # id => f.backup[l][e] = NoRow
    BY <1>3 DEF Stands, OneHolder
  <2>2. CASE f.backup[id][e] # NoRow
    BY <2>1, <2>2, <1>1, <1>8 DEF OneHolder
  <2>3. CASE f.backup[id][e] = NoRow
    <3>1. \A l \in Leaves : R.backup[l][e] = f.backup[l][e]
      BY <2>3, <1>1
    <3> QED BY <3>1, <1>3 DEF Stands, OneHolder
  <2> QED BY <2>2, <2>3
<1> QED BY <1>4, <1>5, <1>6, <1>7, <1>9 DEF Stands, R, O

LEMMA DeletedFacts ==
  ASSUME NEW f, NEW id \in Leaves, Shape(f)
  PROVE  /\ Shape(Deleted(f, id))
         /\ Deleted(f, id).row = f.row
         /\ \A l \in Leaves : Deleted(f, id).leave[l] = IF l = id THEN NoLeave ELSE f.leave[l]
         /\ \A l \in Leaves, e \in Exams :
              Deleted(f, id).backup[l][e] = IF l = id THEN NoRow ELSE f.backup[l][e]
         /\ \A e \in Exams : Covering(Deleted(f, id), e) = Others(f, id, e)
<1> DEFINE D == Deleted(f, id)
<1>1. D.row = f.row /\ D.leave = [f.leave EXCEPT ![id] = NoLeave]
      /\ D.backup = [f.backup EXCEPT ![id] = Blank]
  BY DEF Deleted
<1>2. Blank \in [Exams -> Results \cup {NoRow}] /\ \A e \in Exams : Blank[e] = NoRow
  BY DEF Blank
<1> HIDE DEF D
<1>3. D.leave \in [Leaves -> Scope \cup {NoLeave}]
      /\ \A l \in Leaves : D.leave[l] = IF l = id THEN NoLeave ELSE f.leave[l]
  BY <1>1 DEF Shape
<1>4. D.backup \in [Leaves -> [Exams -> Results \cup {NoRow}]]
      /\ \A l \in Leaves : D.backup[l] = IF l = id THEN Blank ELSE f.backup[l]
  BY <1>1, <1>2 DEF Shape
<1>5. Shape(D)
  BY <1>1, <1>3, <1>4 DEF Shape
<1>6. \A l \in Leaves, e \in Exams : D.backup[l][e] = IF l = id THEN NoRow ELSE f.backup[l][e]
  BY <1>2, <1>4
<1>7. ASSUME NEW e \in Exams PROVE Covering(D, e) = Others(f, id, e)
  <2>1. \A l \in Leaves : CoversOn(D.leave[l], e, day[e]) <=> l # id /\ CoversOn(f.leave[l], e, day[e])
    BY <1>3 DEF CoversOn
  <2> QED BY <2>1, CoveringFacts DEF Covering
<1> QED BY <1>1, <1>3, <1>5, <1>6, <1>7 DEF D

LEMMA WithoutDuplicateShape ==
  ASSUME NEW f, NEW id \in Leaves, NEW scope \in Scope, Shape(f)
  PROVE  Shape(WithoutDuplicate(f, id, scope))
<1>1. CASE Duplicates(f, id, scope) = {}
  BY <1>1 DEF WithoutDuplicate
<1>2. CASE Duplicates(f, id, scope) # {}
  <2> DEFINE l == CHOOSE k \in Duplicates(f, id, scope) : TRUE
  <2>1. l \in Leaves /\ WithoutDuplicate(f, id, scope) = Deleted(RestoredGrades(f, l), l)
    BY <1>2 DEF WithoutDuplicate, Duplicates
  <2> HIDE DEF l
  <2>2. Shape(RestoredGrades(f, l))
    BY <2>1, RestoredFacts
  <2> QED BY <2>1, <2>2, DeletedFacts
<1> QED BY <1>1, <1>2

(* Whatever duplicate goes first, the leave that takes its place is ready to *)
(* cover what it will cover.                                                *)
LEMMA WithoutDuplicateReady ==
  ASSUME NEW f, NEW id \in Leaves, NEW scope \in Scope, Shape(f),
         NEW e \in Exams, NEW r \in Results \cup {NoRow}, NEW M,
         Stands(f, Others(f, id, e), e, r, M),
         Apart(f), day[e] \in Days
  PROVE  Ready(WithoutDuplicate(f, id, scope), id, scope, e, r, M)
<1> DEFINE C == Others(f, id, e)
           W == WithoutDuplicate(f, id, scope)
<1>1. CASE Duplicates(f, id, scope) = {}
  <2>1. W = f
    BY <1>1 DEF WithoutDuplicate
  <2>2. r # Excused
    BY ScopeFacts
  <2>3. Between(f, C, id, e, r)
    BY <2>2 DEF Stands, Between
  <2> QED BY <2>1, <2>3 DEF Ready
<1>2. CASE Duplicates(f, id, scope) # {}
  <2> DEFINE l == CHOOSE k \in Duplicates(f, id, scope) : TRUE
             R == RestoredGrades(f, l)
             D == Deleted(R, l)
  <2>1. l \in Leaves /\ l # id /\ f.leave[l] = scope
    BY <1>2 DEF Duplicates
  <2>2. W = D
    BY <1>2 DEF WithoutDuplicate
  <2> HIDE DEF l
  <2>3. Shape(R) /\ R.leave = f.leave
    BY <2>1, RestoredFacts
  <2>4. /\ R.row[e] = IF Others(f, l, e) # {} THEN f.row[e]
                      ELSE IF f.backup[l][e] # NoRow THEN f.backup[l][e]
                      ELSE IF l \in Covering(f, e) /\ f.row[e] = Excused THEN NoRow
                      ELSE f.row[e]
        /\ \A k \in Leaves : R.backup[k][e] =
             IF k = l THEN NoRow
             ELSE IF k \in Others(f, l, e) /\ f.backup[k][e] = NoRow THEN f.backup[l][e]
             ELSE f.backup[k][e]
    BY <2>1, RestoredFacts
  <2>5. /\ Shape(D) /\ D.row = R.row
        /\ \A k \in Leaves : D.backup[k][e] = IF k = l THEN NoRow ELSE R.backup[k][e]
        /\ Covering(D, e) = Others(R, l, e)
    BY <2>1, <2>3, DeletedFacts
  <2>6. Covering(R, e) = Covering(f, e)
    BY <2>3 DEF Covering
  <2> HIDE DEF W, D, R, C
  <2>7. C = Covering(f, e) \ {id} /\ Covering(f, e) \subseteq Leaves
        /\ Others(f, l, e) = Covering(f, e) \ {l}
    BY <2>1, CoveringFacts DEF C
  <2>8. Others(D, id, e) = C \ {l}
    BY <2>1, <2>5, <2>6, <2>7, CoveringFacts
  <2>9. l \in C <=> CoversOn(scope, e, day[e])
    BY <2>1, <2>7, CoveringFacts
  <2>10. Stands(f, C, e, r, M) /\ r # Excused
    BY ScopeFacts DEF C
  <2>11. CASE l \notin C
    <3>1. l \notin Covering(f, e) /\ f.backup[l][e] = NoRow
      BY <2>1, <2>7, <2>10, <2>11 DEF Stands
    <3>2. D.row[e] = f.row[e] /\ \A k \in Leaves : D.backup[k][e] = f.backup[k][e]
      BY <3>1, <2>4, <2>5
    <3>3. C \ {l} = C /\ C \subseteq Leaves
      BY <2>7, <2>11
    <3>4. Stands(D, C \ {l}, e, r, M)
      BY <3>2, <3>3, <2>10 DEF Stands, OneHolder
    <3> QED BY <3>4, <2>2, <2>5, <2>8, <2>9, <2>11 DEF Ready, W
  <2>12. CASE l \in C
    <3>1. /\ f.row[e] \in {Excused, NoRow}
          /\ \A k \in Leaves : f.backup[k][e] # NoRow => k \in C /\ f.backup[k][e] = r
          /\ r # NoRow => \E k \in C : f.backup[k][e] # NoRow
      BY <2>10, <2>12 DEF Stands
    <3>2. \A k \in Leaves : D.backup[k][e] # NoRow => k \in (C \ {l}) \cup {id} /\ D.backup[k][e] = r
      BY <3>1, <2>1, <2>4, <2>5, <2>7
    <3>3. C \ {l} # {} => D.row[e] \in {Excused, NoRow}
      BY <3>1, <2>1, <2>4, <2>5, <2>7
    <3>4. D.row[e] \in {Excused, NoRow, r}
      <4>1. CASE Others(f, l, e) # {} \/ f.backup[l][e] # NoRow
        BY <4>1, <3>1, <2>1, <2>4, <2>5
      <4>2. CASE Others(f, l, e) = {} /\ f.backup[l][e] = NoRow
        <5>1. C = {l}
          BY <4>2, <2>7, <2>12
        <5>2. r = NoRow /\ D.row[e] = NoRow
          BY <5>1, <4>2, <3>1, <2>4, <2>5, <2>7
        <5> QED BY <5>2
      <4> QED BY <4>1, <4>2
    <3>5. r # NoRow /\ D.row[e] # r => \E k \in (C \ {l}) \cup {id} : D.backup[k][e] # NoRow
      <4> SUFFICES ASSUME r # NoRow, D.row[e] # r
                   PROVE  \E k \in (C \ {l}) \cup {id} : D.backup[k][e] # NoRow
        OBVIOUS
      <4>1. PICK k \in C : f.backup[k][e] # NoRow
        BY <3>1
      <4>2. k \in Leaves
        BY <2>7
      <4>3. CASE k # l
        BY <4>1, <4>2, <4>3, <2>4, <2>5
      <4>4. CASE k = l
        <5>1. Others(f, l, e) # {}
          BY <4>1, <4>4, <3>1, <2>1, <2>4, <2>5, <2>10
        <5>2. PICK j \in Others(f, l, e) : TRUE
          BY <5>1
        <5>3. j \in Leaves /\ j # l /\ j \in (C \ {l}) \cup {id}
          BY <5>2, <2>7
        <5>4. D.backup[j][e] # NoRow
          BY <5>2, <5>3, <4>1, <4>4, <2>4, <2>5
        <5> QED BY <5>3, <5>4
      <4> QED BY <4>3, <4>4
    <3>6. OneHolder(D, e)
      <4>1. \A j, k \in Others(f, l, e) : j = k
        BY <2>7, <2>12, OneOther
      <4>2. CASE f.backup[l][e] # NoRow
        <5>1. \A k \in Leaves : k # l => f.backup[k][e] = NoRow
          BY <4>2, <2>1, <2>10 DEF Stands, OneHolder
        <5> QED BY <5>1, <4>1, <4>2, <2>4, <2>5 DEF OneHolder
      <4>3. CASE f.backup[l][e] = NoRow
        <5>1. \A k \in Leaves : D.backup[k][e] = f.backup[k][e]
          BY <4>3, <2>4, <2>5
        <5> QED BY <5>1, <2>10 DEF Stands, OneHolder
      <4> QED BY <4>2, <4>3
    <3>7. Between(D, C \ {l}, id, e, r)
      BY <3>2, <3>3, <3>4, <3>5, <3>6 DEF Between
    <3> QED BY <3>7, <2>2, <2>5, <2>8, <2>9, <2>12 DEF Ready, W
  <2> QED BY <2>11, <2>12
<1> QED BY <1>1, <1>2

(* Taking a leave leaves every exam it reaches, and every other, as it must. *)
LEMMA TakenStands ==
  ASSUME NEW f, NEW id \in Leaves, NEW scope \in Scope, Shape(f), NEW M
  PROVE  /\ Shape(Taken(f, id, scope))
         /\ \A e \in Exams, r \in Results \cup {NoRow} :
              Ready(f, id, scope, e, r, M) =>
                Stands(Taken(f, id, scope), Covering(Taken(f, id, scope), e), e, r, M)
<1> DEFINE T == Taken(f, id, scope)
           on(e) == CoversOn(scope, e, day[e])
<1>1. /\ T.leave = [f.leave EXCEPT ![id] = scope]
      /\ T.row = [e \in Exams |-> IF on(e) THEN Excused ELSE f.row[e]]
      /\ T.backup = [f.backup EXCEPT ![id] =
           [e \in Exams |-> IF on(e) /\ KeepsResult(f, id, e) THEN f.row[e] ELSE f.backup[id][e]]]
  BY DEF Taken
<1>2. /\ \A e \in Exams : f.row[e] \in Results \cup {Excused, NoRow}
      /\ \A l \in Leaves, e \in Exams : f.backup[l][e] \in Results \cup {NoRow}
  BY DEF Shape
<1> HIDE DEF T, on
<1>3. /\ T.leave \in [Leaves -> Scope \cup {NoLeave}]
      /\ \A l \in Leaves : T.leave[l] = IF l = id THEN scope ELSE f.leave[l]
  BY <1>1 DEF Shape
<1>4. T.row \in [Exams -> Results \cup {Excused, NoRow}]
  BY <1>1, <1>2
<1> DEFINE mine == [e \in Exams |-> IF on(e) /\ KeepsResult(f, id, e) THEN f.row[e] ELSE f.backup[id][e]]
<1>5. mine \in [Exams -> Results \cup {NoRow}]
  <2>1. \A e \in Exams : KeepsResult(f, id, e) => f.row[e] \in Results
    BY <1>2 DEF KeepsResult
  <2> QED BY <2>1, <1>2
<1>6. T.backup = [f.backup EXCEPT ![id] = mine]
  BY <1>1
<1>7. \A e \in Exams : mine[e] = IF on(e) /\ KeepsResult(f, id, e) THEN f.row[e] ELSE f.backup[id][e]
  OBVIOUS
<1> HIDE DEF mine
<1>8. /\ T.backup \in [Leaves -> [Exams -> Results \cup {NoRow}]]
      /\ \A l \in Leaves : T.backup[l] = IF l = id THEN mine ELSE f.backup[l]
  BY <1>5, <1>6 DEF Shape
<1>9. Shape(T)
  BY <1>3, <1>4, <1>8 DEF Shape
<1>10. ASSUME NEW e \in Exams, NEW r \in Results \cup {NoRow}, Ready(f, id, scope, e, r, M)
       PROVE  Stands(T, Covering(T, e), e, r, M)
  <2> DEFINE C == Others(f, id, e)
  <2>1. C = Covering(f, e) \ {id} /\ C \subseteq Leaves
    BY CoveringFacts
  <2>2. Covering(T, e) = IF on(e) THEN C \cup {id} ELSE C
    <3>1. \A l \in Leaves : CoversOn(T.leave[l], e, day[e]) <=>
            (l = id /\ on(e)) \/ (l # id /\ l \in Covering(f, e))
      BY <1>3, CoveringFacts DEF on
    <3> QED BY <3>1, <2>1 DEF Covering
  <2>3. \A l \in Leaves : T.backup[l][e] =
          IF l = id /\ on(e) /\ KeepsResult(f, id, e) THEN f.row[e] ELSE f.backup[l][e]
    BY <1>7, <1>8
  <2>4. T.row[e] = IF on(e) THEN Excused ELSE f.row[e]
    BY <1>1
  <2> HIDE DEF C
  <2>5. r # Excused
    BY ScopeFacts
  <2>6. CASE ~on(e)
    <3>1. Stands(f, C, e, r, M)
      BY <1>10, <2>6 DEF Ready, on, C
    <3> QED BY <3>1, <2>1, <2>2, <2>3, <2>4, <2>6 DEF Stands, OneHolder
  <2>7. CASE on(e)
    <3>1. Between(f, C, id, e, r)
      BY <1>10, <2>7 DEF Ready, on, C
    <3>2. \A l \in Leaves : T.backup[l][e] # NoRow => l \in C \cup {id} /\ T.backup[l][e] = r
      BY <3>1, <2>3 DEF Between, KeepsResult
    <3>3. r # NoRow => \E l \in C \cup {id} : T.backup[l][e] # NoRow
      <4> SUFFICES ASSUME r # NoRow PROVE \E l \in C \cup {id} : T.backup[l][e] # NoRow
        OBVIOUS
      <4>1. CASE f.row[e] # r
        <5>1. PICK l \in C \cup {id} : f.backup[l][e] # NoRow
          BY <4>1, <3>1 DEF Between
        <5>2. l \in Leaves
          BY <2>1
        <5> QED BY <5>1, <5>2, <4>1, <2>3 DEF KeepsResult
      <4>2. CASE f.row[e] = r
        <5>1. T.backup[id][e] # NoRow
          BY <4>2, <2>3, <2>5, <2>7 DEF KeepsResult
        <5> QED BY <5>1
      <4> QED BY <4>1, <4>2
    <3>4. Covering(T, e) = C \cup {id} /\ T.row[e] = Excused
      BY <2>2, <2>4, <2>7
    <3>5. OneHolder(T, e)
      <4>1. CASE KeepsResult(f, id, e)
        <5>1. C = {}
          BY <4>1, <3>1 DEF Between, KeepsResult
        <5>2. \A l \in Leaves : l # id => f.backup[l][e] = NoRow
          BY <5>1, <3>1 DEF Between
        <5> QED BY <5>2, <2>3 DEF OneHolder
      <4>2. CASE ~KeepsResult(f, id, e)
        BY <4>2, <3>1, <2>3 DEF Between, OneHolder
      <4> QED BY <4>1, <4>2
    <3> QED BY <3>2, <3>3, <3>4, <3>5 DEF Stands
  <2> QED BY <2>6, <2>7
<1> QED BY <1>9, <1>10 DEF T

(* Fewer leaves stay apart. *)
LEMMA FewerApart ==
  ASSUME NEW f, NEW g, Apart(f), \A l \in Leaves : g.leave[l] \in {f.leave[l], NoLeave},
         Shape(f)
  PROVE  Apart(g)
<1>1. \A s \in Scope : ~Clash(s, NoLeave)
  BY ScopeFacts DEF Clash
<1>2. \A l \in Leaves : f.leave[l] \in Scope \cup {NoLeave}
  BY DEF Shape
<1> QED BY <1>1, <1>2 DEF Apart

(* The new leave is apart from those that stay beside it. *)
LEMMA TakenApart ==
  ASSUME NEW f, NEW id \in Leaves, NEW scope \in Scope, Shape(f), Apart(f),
         ~Overlaps(f, id, scope)
  PROVE  Apart(Taken(WithoutDuplicate(f, id, scope), id, scope))
<1> DEFINE W == WithoutDuplicate(f, id, scope)
           T == Taken(W, id, scope)
<1>1. /\ Shape(W)
      /\ \A k \in Leaves : W.leave[k] \in {f.leave[k], NoLeave}
      /\ \A k \in Leaves \ {id} : IsExamLeave(scope) => W.leave[k] # scope
  <2>1. Shape(W)
    BY WithoutDuplicateShape
  <2>2. CASE Duplicates(f, id, scope) = {}
    <3>1. W = f
      BY <2>2 DEF WithoutDuplicate
    <3> QED BY <3>1, <2>1, <2>2 DEF Duplicates
  <2>3. CASE Duplicates(f, id, scope) # {}
    <3> DEFINE l == CHOOSE k \in Duplicates(f, id, scope) : TRUE
    <3>1. l \in Leaves /\ l # id /\ f.leave[l] = scope /\ IsExamLeave(scope)
          /\ W = Deleted(RestoredGrades(f, l), l)
      BY <2>3 DEF WithoutDuplicate, Duplicates
    <3> HIDE DEF l, W
    <3>2. Shape(RestoredGrades(f, l)) /\ RestoredGrades(f, l).leave = f.leave
      BY <3>1, RestoredFacts
    <3>3. \A k \in Leaves : W.leave[k] = IF k = l THEN NoLeave ELSE f.leave[k]
      BY <3>1, <3>2, DeletedFacts
    <3>4. scope # NoLeave
      BY ScopeFacts
    <3>5. \A k \in Leaves : k # l => f.leave[k] # scope
      BY <3>1, <3>4 DEF Apart, Clash
    <3> QED BY <2>1, <3>1, <3>3, <3>4, <3>5 DEF W
  <2> QED BY <2>2, <2>3
<1>2. Apart(W)
  BY <1>1, FewerApart
<1>3. ~Overlaps(W, id, scope)
  <2>1. \A k \in Leaves : W.leave[k] # NoLeave => W.leave[k] = f.leave[k]
    BY <1>1
  <2> HIDE DEF W
  <2> QED BY <2>1 DEF Overlaps
<1> HIDE DEF W
<1>4. \A k \in Leaves : T.leave[k] = IF k = id THEN scope ELSE W.leave[k]
  BY <1>1 DEF Taken, Shape
<1> HIDE DEF T
<1>5. \A k \in Leaves \ {id} : ~Clash(scope, W.leave[k])
  BY <1>1, <1>3 DEF Overlaps, Clash
<1>6. ASSUME NEW k \in Leaves \ {id}, W.leave[k] # NoLeave
      PROVE  ~Clash(W.leave[k], scope)
  <2>1. W.leave[k] \in Scope
    BY <1>1, <1>6 DEF Shape
  <2>2. CASE IsExamLeave(W.leave[k])
    BY <2>2, <1>1, <1>6 DEF Clash
  <2>3. CASE ~IsExamLeave(W.leave[k]) /\ IsExamLeave(scope)
    BY <2>3 DEF Clash
  <2>4. CASE ~IsExamLeave(W.leave[k]) /\ ~IsExamLeave(scope)
    <3>1. W.leave[k] \in [from : Days, to : Days] /\ scope \in [from : Days, to : Days]
      BY <2>1, <2>4 DEF Scope, PeriodLeave, IsExamLeave
    <3>2. W.leave[k].from \in Nat /\ W.leave[k].to \in Nat /\ scope.from \in Nat /\ scope.to \in Nat
      BY <3>1 DEF Days
    <3>3. ~(W.leave[k].from <= scope.to /\ W.leave[k].to >= scope.from)
      BY <1>3, <1>6, <2>4 DEF Overlaps
    <3> QED BY <3>2, <3>3, <2>4 DEF Clash
  <2> QED BY <2>2, <2>3, <2>4
<1>7. Apart(T)
  BY <1>2, <1>4, <1>5, <1>6 DEF Apart
<1> QED BY <1>7 DEF T, W

(* No part of a transaction leaves a backup without its leave. *)
LEMMA RestoredOwned ==
  ASSUME NEW f, NEW id \in Leaves, Shape(f), Owned(f)
  PROVE  Owned(RestoredGrades(f, id))
<1> DEFINE R == RestoredGrades(f, id)
<1>1. R.leave = f.leave
      /\ \A l \in Leaves, e \in Exams : R.backup[l][e] =
           IF l = id THEN NoRow
           ELSE IF l \in Others(f, id, e) /\ f.backup[l][e] = NoRow THEN f.backup[id][e]
           ELSE f.backup[l][e]
  BY RestoredFacts
<1>2. \A l \in Leaves, e \in Exams : l \in Others(f, id, e) => f.leave[l] # NoLeave
  BY DEF Others, Covering, CoversOn
<1> HIDE DEF R
<1>3. Owned(R)
  BY <1>1, <1>2 DEF Owned
<1> QED BY <1>3 DEF R

LEMMA DeletedOwned ==
  ASSUME NEW f, NEW id \in Leaves, Shape(f), Owned(f)
  PROVE  Owned(Deleted(f, id))
<1>1. /\ \A l \in Leaves : Deleted(f, id).leave[l] = IF l = id THEN NoLeave ELSE f.leave[l]
      /\ \A l \in Leaves, e \in Exams :
           Deleted(f, id).backup[l][e] = IF l = id THEN NoRow ELSE f.backup[l][e]
  BY DeletedFacts
<1> QED BY <1>1 DEF Owned

LEMMA TakenOwned ==
  ASSUME NEW f, NEW id \in Leaves, NEW scope \in Scope, Shape(f), Owned(f)
  PROVE  Owned(Taken(WithoutDuplicate(f, id, scope), id, scope))
<1> DEFINE W == WithoutDuplicate(f, id, scope)
           T == Taken(W, id, scope)
<1>1. Owned(W) /\ Shape(W)
  <2>1. CASE Duplicates(f, id, scope) = {}
    BY <2>1, WithoutDuplicateShape DEF WithoutDuplicate
  <2>2. CASE Duplicates(f, id, scope) # {}
    <3> DEFINE l == CHOOSE k \in Duplicates(f, id, scope) : TRUE
    <3>1. l \in Leaves /\ W = Deleted(RestoredGrades(f, l), l)
      BY <2>2 DEF WithoutDuplicate, Duplicates
    <3> HIDE DEF l, W
    <3>2. Shape(RestoredGrades(f, l)) /\ Owned(RestoredGrades(f, l))
      BY <3>1, RestoredFacts, RestoredOwned
    <3> QED BY <3>1, <3>2, DeletedOwned, DeletedFacts
  <2> QED BY <2>1, <2>2
<1> HIDE DEF W
<1>2. /\ \A l \in Leaves : T.leave[l] = IF l = id THEN scope ELSE W.leave[l]
      /\ \A l \in Leaves : l # id => T.backup[l] = W.backup[l]
  BY <1>1 DEF Taken, Shape
<1> HIDE DEF T
<1>3. scope # NoLeave
  BY ScopeFacts
<1>4. Owned(T)
  BY <1>1, <1>2, <1>3 DEF Owned
<1> QED BY <1>4 DEF T, W

(* What an operation must show of the file it leaves. *)
LEMMA FileHolds ==
  ASSUME IInv, StillRemoved, Shape(file'), Apart(file'), Owned(file'),
         day' \in [Exams -> Days], real' \in [Exams -> Results \cup {NoRow}],
         mislaid' \subseteq Exams,
         \A e \in Exams \ mislaid' : Stands(file', Covering(file, e)', e, real'[e], removed)
  PROVE  IInv'
<1>1. removed' = {e \in removed : file'.row[e] = NoRow}
  BY DEF StillRemoved
<1>2. removed' \subseteq Exams /\ \A e \in removed' : file'.row[e] = NoRow
  BY <1>1 DEF IInv
<1>3. ASSUME NEW e \in Exams \ mislaid', NEW C, NEW r, Stands(file', C, e, r, removed)
      PROVE  Stands(file', C, e, r, removed')
  BY <1>1, <1>3 DEF Stands
<1>4. ASSUME NEW e \in Exams \ mislaid'
      PROVE  Stands(file', Covering(file, e)', e, real'[e], removed')
  BY <1>3, <1>4
<1> QED BY <1>2, <1>4 DEF IInv, Shape, Apart, Owned

-----------------------------------------------------------------------------
LEMMA InitHolds == Init => IInv
<1> SUFFICES ASSUME Init PROVE IInv
  OBVIOUS
<1>1. Blank \in [Exams -> Results \cup {NoRow}] /\ \A e \in Exams : Blank[e] = NoRow
  BY DEF Blank
<1>2. file.leave = [l \in Leaves |-> NoLeave] /\ file.row = Blank /\ file.backup = [l \in Leaves |-> Blank]
  BY DEF Init
<1>3. Shape(file)
  BY <1>1, <1>2 DEF Shape
<1>4. ASSUME NEW e \in Exams PROVE Covering(file, e) = {}
  BY <1>2 DEF Covering, CoversOn
<1>5. Apart(file)
  BY <1>2 DEF Apart
<1>6. Owned(file)
  BY <1>1, <1>2 DEF Owned
<1> QED BY <1>1, <1>2, <1>3, <1>4, <1>5, <1>6 DEF Init, IInv, Stands, OneHolder

LEMMA CreateHolds ==
  ASSUME IInv, NEW id \in Leaves, NEW scope \in Scope, Create(id, scope)
  PROVE  IInv'
<1> DEFINE W == WithoutDuplicate(file, id, scope)
           T == Taken(W, id, scope)
<1>1. ASSUME NEW e \in Exams \ mislaid
      PROVE  Ready(W, id, scope, e, real[e], removed) /\ real[e] \in Results \cup {NoRow}
  <2>1. Others(file, id, e) = Covering(file, e)
    <3>1. file.leave[id] = NoLeave
      BY DEF Create
    <3>2. id \notin Covering(file, e)
      BY <3>1 DEF Covering, CoversOn
    <3> QED BY <3>2, CoveringFacts
  <2>2. /\ Shape(file) /\ Apart(file) /\ day[e] \in Days /\ real[e] \in Results \cup {NoRow}
        /\ Stands(file, Others(file, id, e), e, real[e], removed)
    BY <2>1 DEF IInv
  <2> QED BY <2>2, WithoutDuplicateReady
<1>2. Shape(W)
  BY WithoutDuplicateShape DEF IInv
<1>3. file' = T /\ UNCHANGED <<day, real, mislaid>> /\ StillRemoved
  BY DEF Create
<1>6. Apart(T)
  BY TakenApart DEF Create, IInv
<1>7. Owned(T)
  BY TakenOwned DEF IInv
<1> HIDE DEF W
<1>4. Shape(T) /\ \A e \in Exams \ mislaid : Stands(T, Covering(T, e), e, real[e], removed)
  BY <1>1, <1>2, TakenStands
<1> HIDE DEF T
<1>5. \A e \in Exams : Covering(file, e)' = Covering(T, e)
  BY <1>3 DEF Covering
<1>10. Shape(file') /\ Apart(file') /\ Owned(file')
       /\ \A e \in Exams \ mislaid : Stands(file', Covering(T, e), e, real[e], removed)
  BY <1>3, <1>4, <1>5, <1>6, <1>7
<1>11. \A e \in Exams \ mislaid : Stands(file', Covering(file, e)', e, real'[e], removed)
  BY <1>10, <1>3, <1>5
<1>12. real' \in [Exams -> Results \cup {NoRow}] /\ day' \in [Exams -> Days]
       /\ mislaid' = mislaid /\ mislaid \subseteq Exams /\ StillRemoved
  BY <1>3 DEF IInv
<1> QED BY <1>10, <1>11, <1>12, FileHolds

LEMMA EditHolds ==
  ASSUME IInv, NEW id \in Leaves, NEW scope \in Scope, Edit(id, scope)
  PROVE  IInv'
<1> DEFINE R == RestoredGrades(file, id)
           W == WithoutDuplicate(R, id, scope)
           T == Taken(W, id, scope)
<1>1. Shape(R) /\ R.leave = file.leave
  BY RestoredFacts DEF IInv
<1>7. Apart(R) /\ ~Overlaps(R, id, scope)
  BY <1>1 DEF IInv, Apart, Overlaps, Edit
<1>2. ASSUME NEW e \in Exams \ mislaid
      PROVE  Ready(W, id, scope, e, real[e], removed) /\ real[e] \in Results \cup {NoRow}
  <2>1. /\ Shape(file) /\ Apart(file) /\ day[e] \in Days /\ real[e] \in Results \cup {NoRow}
        /\ Stands(file, Covering(file, e), e, real[e], removed)
    BY DEF IInv
  <2>2. Stands(R, Others(file, id, e), e, real[e], removed)
    BY <2>1, RestoredStands
  <2>3. Others(R, id, e) = Others(file, id, e)
    BY <1>1 DEF Others, Covering
  <2> HIDE DEF R
  <2>4. Stands(R, Others(R, id, e), e, real[e], removed)
    BY <2>2, <2>3
  <2> QED BY <1>1, <1>7, <2>1, <2>4, WithoutDuplicateReady
<1>3. file' = T /\ UNCHANGED <<day, real, mislaid>> /\ StillRemoved
  BY DEF Edit
<1>9. Owned(T)
  BY <1>1, RestoredOwned, TakenOwned DEF IInv
<1> HIDE DEF R
<1>8. Apart(T)
  BY <1>1, <1>7, TakenApart
<1>4. Shape(W)
  BY <1>1, WithoutDuplicateShape
<1> HIDE DEF W
<1>5. Shape(T) /\ \A e \in Exams \ mislaid : Stands(T, Covering(T, e), e, real[e], removed)
  BY <1>2, <1>4, TakenStands
<1> HIDE DEF T
<1>6. \A e \in Exams : Covering(file, e)' = Covering(T, e)
  BY <1>3 DEF Covering
<1>10. Shape(file') /\ Apart(file') /\ Owned(file')
       /\ \A e \in Exams \ mislaid : Stands(file', Covering(T, e), e, real[e], removed)
  BY <1>3, <1>5, <1>6, <1>8, <1>9
<1>11. \A e \in Exams \ mislaid : Stands(file', Covering(file, e)', e, real'[e], removed)
  BY <1>10, <1>3, <1>6
<1>12. real' \in [Exams -> Results \cup {NoRow}] /\ day' \in [Exams -> Days]
       /\ mislaid' = mislaid /\ mislaid \subseteq Exams /\ StillRemoved
  BY <1>3 DEF IInv
<1> QED BY <1>10, <1>11, <1>12, FileHolds

LEMMA CancelHolds ==
  ASSUME IInv, NEW id \in Leaves, Cancel(id)
  PROVE  IInv'
<1> DEFINE R == RestoredGrades(file, id)
           D == Deleted(R, id)
<1>1. Shape(R) /\ R.leave = file.leave
  BY RestoredFacts DEF IInv
<1>2. file' = D /\ UNCHANGED <<day, real, mislaid>> /\ StillRemoved
  BY DEF Cancel
<1>3. /\ Shape(D) /\ D.row = R.row
      /\ \A l \in Leaves, e \in Exams : D.backup[l][e] = IF l = id THEN NoRow ELSE R.backup[l][e]
      /\ \A e \in Exams : Covering(D, e) = Others(R, id, e)
  BY <1>1, DeletedFacts
<1>4. ASSUME NEW e \in Exams \ mislaid PROVE Stands(D, Covering(D, e), e, real[e], removed)
  <2>1. /\ Shape(file) /\ Apart(file) /\ day[e] \in Days /\ real[e] \in Results \cup {NoRow}
        /\ Stands(file, Covering(file, e), e, real[e], removed)
    BY DEF IInv
  <2>2. Stands(R, Others(file, id, e), e, real[e], removed)
    BY <2>1, RestoredStands
  <2>3. Others(R, id, e) = Others(file, id, e) /\ id \notin Others(file, id, e)
        /\ Others(file, id, e) \subseteq Leaves
    BY <1>1 DEF Others, Covering
  <2> HIDE DEF R, D
  <2>4. Covering(D, e) = Others(file, id, e)
    BY <1>3, <2>3
  <2> QED BY <1>3, <2>2, <2>3, <2>4 DEF Stands, OneHolder
<1>6. Apart(D)
  <2>1. \A l \in Leaves : D.leave[l] \in {file.leave[l], NoLeave}
    BY <1>1, DeletedFacts
  <2> QED BY <2>1, FewerApart DEF IInv
<1>7. Owned(D)
  BY <1>1, RestoredOwned, DeletedOwned DEF IInv
<1> HIDE DEF R, D
<1>5. \A e \in Exams : Covering(file, e)' = Covering(D, e)
  BY <1>2 DEF Covering
<1>10. Shape(file') /\ Apart(file') /\ Owned(file')
       /\ \A e \in Exams \ mislaid : Stands(file', Covering(D, e), e, real[e], removed)
  BY <1>2, <1>3, <1>4, <1>5, <1>6, <1>7
<1>11. \A e \in Exams \ mislaid : Stands(file', Covering(file, e)', e, real'[e], removed)
  BY <1>10, <1>2, <1>5
<1>12. real' \in [Exams -> Results \cup {NoRow}] /\ day' \in [Exams -> Days]
       /\ mislaid' = mislaid /\ mislaid \subseteq Exams /\ StillRemoved
  BY <1>2 DEF IInv
<1> QED BY <1>10, <1>11, <1>12, FileHolds

LEMMA EnterScoreHolds ==
  ASSUME IInv, ~Crossing, NEW e \in Exams, NEW v \in Scores, EnterScore(e, v)
  PROVE  IInv'
<1> DEFINE E == Ended(file, e)
<1>1. PICK row \in RowsAfter(file, E) :
        file' = [leave |-> [l \in Leaves |-> IF l \in E THEN NoLeave ELSE file.leave[l]],
                 row |-> [row EXCEPT ![e] = v],
                 backup |-> [l \in Leaves |-> IF l \in E THEN Blank ELSE file.backup[l]]]
  BY DEF EnterScore
<1>2. /\ real' = [real EXCEPT ![e] = v] /\ day' = day /\ v \in Results
      /\ mislaid' = mislaid /\ StillRemoved
  BY ScopeFacts DEF EnterScore
<1>3. row \in [Exams -> Results \cup {Excused, NoRow}]
  BY <1>1 DEF RowsAfter
<1>4. ASSUME NEW x \in Exams
      PROVE  LET held == {file.backup[l][x] : l \in E} \ {NoRow} IN
             IF held # {} THEN row[x] \in held
             ELSE row[x] = IF file.row[x] = Excused /\ E \cap Covering(file, x) # {}
                           THEN NoRow ELSE file.row[x]
  BY <1>1 DEF RowsAfter
<1>5. E = Covering(file, e) /\ E \subseteq Leaves
  BY CoveringInLeaves DEF Ended
<1>6. \A x \in Exams : Covering(file, x) \cap E # {} => Covering(file, x) \subseteq E
  BY DEF EnterScore, Alone
<1> HIDE DEF E
<1>7. /\ file'.leave = [l \in Leaves |-> IF l \in E THEN NoLeave ELSE file.leave[l]]
      /\ file'.row = [row EXCEPT ![e] = v]
      /\ file'.backup = [l \in Leaves |-> IF l \in E THEN Blank ELSE file.backup[l]]
  BY <1>1
<1>8. Blank \in [Exams -> Results \cup {NoRow}] /\ \A x \in Exams : Blank[x] = NoRow
  BY DEF Blank
<1>9. /\ file'.leave \in [Leaves -> Scope \cup {NoLeave}]
      /\ file'.row \in [Exams -> Results \cup {Excused, NoRow}]
      /\ file'.backup \in [Leaves -> [Exams -> Results \cup {NoRow}]]
  <2>1. file'.leave \in [Leaves -> Scope \cup {NoLeave}]
    BY <1>7 DEF IInv, Shape
  <2>2. file'.row \in [Exams -> Results \cup {Excused, NoRow}]
    BY <1>2, <1>3, <1>7
  <2>3. \A l \in Leaves : file.backup[l] \in [Exams -> Results \cup {NoRow}]
    BY DEF IInv, Shape
  <2>4. file'.backup \in [Leaves -> [Exams -> Results \cup {NoRow}]]
    BY <2>3, <1>7, <1>8
  <2> QED BY <2>1, <2>2, <2>4
<1>10. ASSUME NEW x \in Exams
       PROVE  /\ Covering(file, x)' = Covering(file, x) \ E
              /\ \A l \in Leaves : file'.backup[l][x] = IF l \in E THEN NoRow ELSE file.backup[l][x]
              /\ file'.row[x] = IF x = e THEN v ELSE row[x]
              /\ real'[x] = IF x = e THEN v ELSE real[x]
  <2>1. \A l \in Leaves : CoversOn(file'.leave[l], x, day[x]) <=> l \notin E /\ CoversOn(file.leave[l], x, day[x])
    BY <1>7 DEF CoversOn
  <2>2. Covering(file, x)' = Covering(file, x) \ E
    BY <2>1, <1>2 DEF Covering
  <2> QED BY <2>2, <1>2, <1>3, <1>7, <1>8 DEF IInv
<1>11. ASSUME NEW x \in Exams \ mislaid
       PROVE  Stands(file', Covering(file, x)', x, real'[x], removed)
  <2> DEFINE C == Covering(file, x)
  <2>1. Stands(file, C, x, real[x], removed) /\ C \subseteq Leaves /\ real[x] # Excused
    BY CoveringInLeaves, ScopeFacts DEF IInv
  <2>2. x = e => C = E
    BY <1>5
  <2>3. C \cap E # {} => C \subseteq E
    BY <1>6
  <2> HIDE DEF C
  <2>4. Covering(file, x)' = C \ E
    BY <1>10 DEF C
  <2>5. CASE C \cap E # {} \/ x = e
    <3>1. C \ E = {} /\ C \subseteq E
      BY <2>2, <2>3, <2>5
    <3>2. \A l \in Leaves : file'.backup[l][x] = NoRow
      BY <1>10, <2>1, <3>1 DEF Stands
    <3>3. file'.row[x] = real'[x]
      <4>1. CASE x = e
        BY <4>1, <1>10
      <4>2. CASE x # e
        <5>1. C # {}
          BY <4>2, <2>5
        <5>2. row[x] = real[x]
          <6>1. CASE {file.backup[l][x] : l \in E} \ {NoRow} # {}
            <7>1. row[x] \in {file.backup[l][x] : l \in E} \ {NoRow}
              BY <6>1, <1>4
            <7> QED BY <7>1, <1>5, <2>1 DEF Stands
          <6>2. CASE {file.backup[l][x] : l \in E} \ {NoRow} = {}
            <7>1. \A l \in C : file.backup[l][x] = NoRow
              BY <6>2, <3>1
            <7>2. real[x] = NoRow /\ file.row[x] \in {Excused, NoRow}
              BY <7>1, <5>1, <2>1 DEF Stands
            <7>3. E \cap Covering(file, x) # {}
              BY <5>1, <3>1 DEF C
            <7> QED BY <7>2, <7>3, <6>2, <1>4
          <6> QED BY <6>1, <6>2
        <5> QED BY <5>2, <4>2, <1>10
      <4> QED BY <4>1, <4>2
    <3> QED BY <3>1, <3>2, <3>3, <2>4 DEF Stands, OneHolder
  <2>6. CASE C \cap E = {} /\ x # e
    <3>1. C \ E = C
      BY <2>6
    <3>2. \A l \in E : file.backup[l][x] = NoRow
      BY <2>1, <2>6, <1>5 DEF Stands
    <3>3. {file.backup[l][x] : l \in E} \ {NoRow} = {}
      BY <3>2
    <3>4. E \cap Covering(file, x) = {}
      BY <2>6 DEF C
    <3>5. row[x] = file.row[x]
      BY <3>3, <3>4, <1>4
    <3>6. /\ file'.row[x] = file.row[x] /\ real'[x] = real[x]
          /\ \A l \in Leaves : file'.backup[l][x] = file.backup[l][x]
      BY <3>2, <3>5, <1>10, <2>6
    <3> QED BY <3>1, <3>6, <2>1, <2>4 DEF Stands, OneHolder
  <2> QED BY <2>5, <2>6
<1>12. real' \in [Exams -> Results \cup {NoRow}] /\ day' \in [Exams -> Days]
       /\ mislaid' = mislaid /\ mislaid \subseteq Exams /\ StillRemoved
  BY <1>2 DEF IInv
<1>13. Shape(file') /\ Apart(file')
  <2>1. \A l \in Leaves : file'.leave[l] \in {file.leave[l], NoLeave}
    BY <1>7
  <2> QED BY <2>1, <1>9, FewerApart DEF IInv, Shape
<1>14. Owned(file')
  <2>1. \A l \in Leaves, x \in Exams :
          /\ file'.backup[l][x] = IF l \in E THEN NoRow ELSE file.backup[l][x]
          /\ file'.leave[l] = IF l \in E THEN NoLeave ELSE file.leave[l]
    BY <1>7, <1>10
  <2>2. Owned(file)
    BY DEF IInv
  <2> QED BY <2>1, <2>2 DEF Owned
<1> QED BY <1>11, <1>12, <1>13, <1>14, FileHolds

(* An operation that writes the row of one exam; afterwards the markers M are *)
(* deleted.                                                                 *)
RowWritten(e, result, r, M) ==
  \/ e \in mislaid
  \/ Covering(file, e) = {} /\ result = r
  \/ /\ Covering(file, e) # {} /\ r = real[e]
     /\ result = Excused \/ (result = NoRow /\ e \in M)

LEMMA RowStands ==
  ASSUME IInv, NEW e \in Exams, NEW result \in Results \cup {Excused, NoRow},
         NEW r \in Results \cup {NoRow}, NEW M, removed \subseteq M,
         RowWritten(e, result, r, M), file' = WithRow(file, e, result),
         real' = [real EXCEPT ![e] = r], day' = day, mislaid' = mislaid
  PROVE  /\ Shape(file') /\ Apart(file') /\ Owned(file')
         /\ day' \in [Exams -> Days] /\ real' \in [Exams -> Results \cup {NoRow}]
         /\ mislaid' \subseteq Exams
         /\ \A x \in Exams \ mislaid' : Stands(file', Covering(file, x)', x, real'[x], M)
<1>1. file'.leave = file.leave /\ file'.row = [file.row EXCEPT ![e] = result]
      /\ file'.backup = file.backup
  BY DEF WithRow
<1>2. /\ Shape(file') /\ Apart(file') /\ Owned(file')
      /\ real' \in [Exams -> Results \cup {NoRow}] /\ day' \in [Exams -> Days]
      /\ mislaid' \subseteq Exams
  BY <1>1 DEF IInv, Shape, Apart, Owned
<1>3. ASSUME NEW x \in Exams \ mislaid
      PROVE  Stands(file', Covering(file, x)', x, real'[x], M)
  <2> DEFINE C == Covering(file, x)
  <2>1. C = Covering(file, x)'
    BY <1>1 DEF Covering
  <2>2. Stands(file, C, x, real[x], removed)
    BY DEF IInv
  <2>3. file'.row[x] = (IF x = e THEN result ELSE file.row[x])
        /\ real'[x] = (IF x = e THEN r ELSE real[x])
    BY <1>1 DEF IInv, Shape
  <2>4. x = e => \/ C = {} /\ result = r
                 \/ /\ C # {} /\ r = real[x]
                    /\ result = Excused \/ (result = NoRow /\ x \in M)
    BY DEF RowWritten
  <2> HIDE DEF C
  <2>5. CASE x # e
    <3>1. Stands(file', C, x, real'[x], M)
      BY <2>5, <1>1, <2>2, <2>3 DEF Stands, OneHolder
    <3> QED BY <3>1, <2>1
  <2>6. CASE x = e
    <3>1. Stands(file', C, x, real'[x], M)
      BY <2>6, <1>1, <2>2, <2>3, <2>4 DEF Stands, OneHolder
    <3> QED BY <3>1, <2>1
  <2> QED BY <2>5, <2>6
<1> QED BY <1>2, <1>3

LEMMA RowHolds ==
  ASSUME IInv, StillRemoved, NEW e \in Exams, NEW result \in Results \cup {Excused, NoRow},
         NEW r \in Results \cup {NoRow}, RowWritten(e, result, r, removed),
         file' = WithRow(file, e, result), real' = [real EXCEPT ![e] = r], day' = day,
         mislaid' = mislaid
  PROVE  IInv'
BY RowStands, FileHolds

LEMMA RowsHold ==
  ASSUME IInv, NEW e \in Exams,
         EnterAbsence(e) \/ MarkMissing(e) \/ WithdrawAbsence(e) \/ EnsureMarker(e)
  PROVE  IInv'
<1>1. /\ real \in [Exams -> Results \cup {NoRow}]
      /\ real[e] \in Results \cup {NoRow} /\ real = [real EXCEPT ![e] = real[e]]
  BY DEF IInv
<1>2. Absent \in Results /\ Excused # Absent /\ NoRow # Absent
  BY ScopeFacts
<1>3. CASE EnterAbsence(e)
  <2>1. CASE Covering(file, e) = {}
    BY <2>1, <1>2, <1>3, RowHolds DEF EnterAbsence, AbsenceOf, RowWritten
  <2>2. CASE Covering(file, e) # {}
    BY <2>2, <1>1, <1>3, RowHolds DEF EnterAbsence, AbsenceOf, RowWritten
  <2> QED BY <2>1, <2>2
<1>4. CASE MarkMissing(e)
  BY <1>2, <1>4, RowHolds DEF MarkMissing, RowWritten
<1>5. CASE WithdrawAbsence(e)
  <2>1. e \in mislaid \/ Covering(file, e) = {}
    BY <1>2, <1>5 DEF WithdrawAbsence, IInv, Stands
  <2> QED BY <2>1, <1>5, RowHolds DEF WithdrawAbsence, RowWritten
<1>6. CASE EnsureMarker(e)
  BY <1>1, <1>6, RowHolds DEF EnsureMarker, RowWritten
<1> QED BY <1>3, <1>4, <1>5, <1>6

(* A marker that is deleted leaves the backup behind it where it was. *)
LEMMA DeleteGradeHolds ==
  ASSUME IInv, NEW e \in Exams, DeleteGrade(e)
  PROVE  IInv'
<1>1. /\ real \in [Exams -> Results \cup {NoRow}]
      /\ real[e] \in Results \cup {NoRow} /\ real = [real EXCEPT ![e] = real[e]]
      /\ file.row[e] \in Results \cup {Excused, NoRow} /\ file.row \in [Exams -> Results \cup {Excused, NoRow}]
  BY DEF IInv, Shape
<1>2. Excused \notin Results \cup {NoRow} /\ NoRow \notin Results
  BY ScopeFacts
<1>3. /\ file.row[e] # NoRow /\ file' = WithRow(file, e, NoRow)
      /\ day' = day /\ mislaid' = mislaid
  BY DEF DeleteGrade
<1>4. e \in mislaid \/ Stands(file, Covering(file, e), e, real[e], removed)
  BY DEF IInv
<1> DEFINE r == IF file.row[e] = Excused THEN real[e] ELSE NoRow
<1>5. /\ r \in Results \cup {NoRow} /\ real' = [real EXCEPT ![e] = r]
      /\ removed' = IF file.row[e] = Excused THEN removed \cup {e} ELSE removed
  BY <1>1 DEF DeleteGrade
<1>6. RowWritten(e, NoRow, r, removed')
  <2>1. CASE e \in mislaid
    BY <2>1 DEF RowWritten
  <2>2. CASE e \notin mislaid /\ file.row[e] = Excused
    <3>1. Covering(file, e) # {}
      BY <2>2, <1>1, <1>2, <1>4 DEF Stands
    <3> QED BY <3>1, <2>2, <1>5 DEF RowWritten
  <2>3. CASE e \notin mislaid /\ file.row[e] # Excused
    <3>1. Covering(file, e) = {}
      BY <2>3, <1>3, <1>4 DEF Stands
    <3> QED BY <3>1, <2>3 DEF RowWritten
  <2> QED BY <2>1, <2>2, <2>3
<1> HIDE DEF r
<1>7. removed \subseteq removed'
  BY <1>5
<1> DEFINE M == removed'
<1>8. /\ Shape(file') /\ Apart(file') /\ Owned(file')
      /\ day' \in [Exams -> Days] /\ real' \in [Exams -> Results \cup {NoRow}]
      /\ mislaid' \subseteq Exams
      /\ \A x \in Exams \ mislaid' : Stands(file', Covering(file, x)', x, real'[x], M)
  <2>1. removed \subseteq M /\ RowWritten(e, NoRow, r, M)
    BY <1>6, <1>7
  <2> HIDE DEF M
  <2> QED BY <2>1, <1>3, <1>5, RowStands
<1>9. removed' \subseteq Exams /\ \A x \in removed' : file'.row[x] = NoRow
  <2>1. file'.row = [file.row EXCEPT ![e] = NoRow]
    BY <1>3 DEF WithRow
  <2> QED BY <2>1, <1>1, <1>5 DEF IInv
<1> QED BY <1>8, <1>9 DEF IInv, Shape, Apart, Owned

(* From f to g only exam e changes: the leaves K cover it now. *)
Moved(f, g, e, K, r, M) ==
  /\ Shape(g) /\ g.leave = f.leave /\ Stands(g, K, e, r, M)
  /\ \A x \in Exams \ {e} : /\ g.row[x] = f.row[x]
                            /\ \A l \in Leaves : g.backup[l][x] = f.backup[l][x]

LEMMA ReconciledStands ==
  ASSUME NEW f, Shape(f), NEW e \in Exams, NEW C \in SUBSET Leaves, NEW K \in SUBSET Leaves,
         NEW r \in Results \cup {NoRow}, NEW M, Stands(f, C, e, r, M),
         f.row[e] = NoRow => \A l \in Leaves : f.backup[l][e] # NoRow => l \in K,
         NEW g \in Reconciled(f, e, K)
  PROVE  Moved(f, g, e, K, r, M)
<1> DEFINE held == BackupsOf(f, e)
           none == NoBackups
           holders == {l \in Leaves : held[l] # NoRow}
           put(result, backups) == Put(f, e, result, backups)
<1>1. /\ held \in [Leaves -> Results \cup {NoRow}] /\ \A l \in Leaves : held[l] = f.backup[l][e]
      /\ none \in [Leaves -> Results \cup {NoRow}] /\ \A l \in Leaves : none[l] = NoRow
  BY DEF Shape, BackupsOf, NoBackups
<1>2. /\ f.row[e] \in Results \cup {Excused, NoRow}
      /\ Excused \notin Results \cup {NoRow} /\ NoRow \notin Results
  BY ScopeFacts DEF Shape
<1>3. /\ \A l, k \in Leaves : held[l] # NoRow /\ held[k] # NoRow => l = k
      /\ \A l \in Leaves : held[l] # NoRow => l \in C /\ held[l] = r
      /\ C # {} => f.row[e] = Excused \/ (e \in M /\ f.row[e] = NoRow)
      /\ C = {} => f.row[e] = r
      /\ C # {} /\ r # NoRow => \E l \in C : held[l] # NoRow
      /\ f.row[e] = NoRow => \A l \in Leaves : held[l] # NoRow => l \in K
  BY <1>1 DEF Stands, OneHolder
<1> DEFINE Fits(result, backups) ==
             /\ result \in Results \cup {Excused, NoRow}
             /\ backups \in [Leaves -> Results \cup {NoRow}]
             /\ \A l, k \in Leaves : backups[l] # NoRow /\ backups[k] # NoRow => l = k
             /\ \A l \in Leaves : backups[l] # NoRow => l \in K /\ backups[l] = r
             /\ K # {} => result = Excused
             /\ K = {} => result = r
             /\ K # {} /\ r # NoRow => \E l \in K : backups[l] # NoRow
<1>4. ASSUME NEW result, NEW backups, Fits(result, backups), g = put(result, backups)
      PROVE  Moved(f, g, e, K, r, M)
  <2>1. /\ g.leave = f.leave /\ g.row = [f.row EXCEPT ![e] = result]
        /\ g.backup = [l \in Leaves |-> [f.backup[l] EXCEPT ![e] = backups[l]]]
    BY <1>4 DEF Put
  <2>2. \A l \in Leaves : f.backup[l] \in [Exams -> Results \cup {NoRow}]
    BY DEF Shape
  <2>3. f.row \in [Exams -> Results \cup {Excused, NoRow}]
    BY DEF Shape
  <2>4. g.row \in [Exams -> Results \cup {Excused, NoRow}]
        /\ \A x \in Exams : g.row[x] = IF x = e THEN result ELSE f.row[x]
    BY <2>1, <2>3, <1>4
  <2>5. \A l \in Leaves : g.backup[l] = [f.backup[l] EXCEPT ![e] = backups[l]]
    BY <2>1
  <2>6. ASSUME NEW l \in Leaves PROVE g.backup[l] \in [Exams -> Results \cup {NoRow}]
    <3>1. backups[l] \in Results \cup {NoRow}
      BY <1>4
    <3> QED BY <3>1, <2>2, <2>5
  <2>7. g.backup \in [Leaves -> [Exams -> Results \cup {NoRow}]]
    BY <2>1, <2>5, <2>6
  <2>8. \A l \in Leaves, x \in Exams : g.backup[l][x] = IF x = e THEN backups[l] ELSE f.backup[l][x]
    BY <2>2, <2>5
  <2>9. Shape(g)
    BY <2>1, <2>4, <2>7 DEF Shape
  <2>10. Stands(g, K, e, r, M)
    BY <1>4, <2>4, <2>8 DEF Stands, OneHolder
  <2> QED BY <2>1, <2>4, <2>8, <2>9, <2>10 DEF Moved
<1>5. CASE f.row[e] = Excused /\ K = {}
  <2>1. g \in {put(result, none) : result \in IF holders = {} THEN {NoRow} ELSE {held[h] : h \in holders}}
    BY <1>5 DEF Reconciled
  <2>2. C # {}
    BY <1>2, <1>3, <1>5
  <2> HIDE DEF held, none, put
  <2>3. CASE holders = {}
    <3>1. r = NoRow
      BY <2>2, <2>3, <1>3
    <3>2. Fits(NoRow, none)
      BY <3>1, <1>1, <1>5
    <3>3. g = put(NoRow, none)
      BY <2>1, <2>3
    <3> QED BY <3>2, <3>3, <1>4
  <2>4. CASE holders # {}
    <3>1. PICK h \in holders : g = put(held[h], none)
      BY <2>1, <2>4
    <3>2. held[h] = r
      BY <1>3
    <3>3. Fits(held[h], none)
      BY <3>2, <1>1, <1>5
    <3> QED BY <3>1, <3>3, <1>4
  <2> QED BY <2>3, <2>4
<1>6. CASE f.row[e] = Excused /\ K # {} /\ holders # {} /\ holders \cap K = {}
  <2>1. PICK l \in K, h \in holders : g = put(Excused, [none EXCEPT ![l] = held[h]])
    BY <1>6, <1>2 DEF Reconciled
  <2>2. held[h] = r /\ r # NoRow /\ l \in Leaves
    BY <1>3
  <2> HIDE DEF held, none, put
  <2> DEFINE backups == [none EXCEPT ![l] = held[h]]
  <2>3. backups \in [Leaves -> Results \cup {NoRow}]
        /\ \A k \in Leaves : backups[k] = IF k = l THEN r ELSE NoRow
    BY <2>2, <1>1
  <2>4. g = put(Excused, backups)
    BY <2>1
  <2> HIDE DEF backups
  <2>5. Fits(Excused, backups)
    BY <2>2, <2>3, <1>6
  <2> QED BY <2>4, <2>5, <1>4
<1>7. CASE f.row[e] = NoRow /\ K # {}
  <2>1. g = put(Excused, held)
    BY <1>7, <1>2 DEF Reconciled
  <2>2. C \subseteq Leaves
    OBVIOUS
  <2> HIDE DEF held, none, put
  <2>3. Fits(Excused, held)
    BY <2>2, <1>1, <1>3, <1>7
  <2> QED BY <2>1, <2>3, <1>4
<1>8. CASE f.row[e] \in Results /\ K # {}
  <2>1. PICK l \in K : g = put(Excused, [held EXCEPT ![l] = IF @ = NoRow THEN f.row[e] ELSE @])
    BY <1>8, <1>2 DEF Reconciled
  <2>2. C = {} /\ r = f.row[e] /\ l \in Leaves
    BY <1>2, <1>3, <1>8
  <2>3. \A k \in Leaves : held[k] = NoRow
    BY <2>2, <1>3
  <2> HIDE DEF held, none, put
  <2> DEFINE backups == [held EXCEPT ![l] = IF @ = NoRow THEN f.row[e] ELSE @]
  <2>4. backups \in [Leaves -> Results \cup {NoRow}]
        /\ \A k \in Leaves : backups[k] = IF k = l THEN r ELSE NoRow
    BY <2>2, <2>3, <1>1, <1>8
  <2>5. g = put(Excused, backups)
    BY <2>1
  <2> HIDE DEF backups
  <2>6. Fits(Excused, backups)
    BY <2>2, <2>4, <1>2, <1>8
  <2> QED BY <2>5, <2>6, <1>4
<1>9. CASE /\ ~(f.row[e] = Excused /\ K = {})
           /\ ~(f.row[e] = Excused /\ K # {} /\ holders # {} /\ holders \cap K = {})
           /\ K = {} \/ f.row[e] = Excused
  <2>1. g = f
    BY <1>9, <1>2 DEF Reconciled
  <2> HIDE DEF held, none, put
  <2>2. CASE K = {}
    <3>1. \A l \in Leaves : held[l] = NoRow
      <4>1. CASE f.row[e] = NoRow
        BY <4>1, <2>2, <1>3
      <4>2. CASE f.row[e] # NoRow
        BY <4>2, <2>2, <1>3, <1>9
      <4> QED BY <4>1, <4>2
    <3>2. f.row[e] = r
      <4>1. CASE C = {}
        BY <4>1, <1>3
      <4>2. CASE C # {}
        BY <4>2, <3>1, <2>2, <1>3, <1>9
      <4> QED BY <4>1, <4>2
    <3> QED BY <3>1, <3>2, <2>1, <2>2, <1>1 DEF Stands, OneHolder, Moved
  <2>3. CASE K # {}
    <3>1. f.row[e] = Excused /\ C # {} /\ (holders = {} \/ holders \cap K # {})
      BY <2>3, <1>2, <1>3, <1>9
    <3>2. \A l \in Leaves : held[l] # NoRow => l \in K
      BY <3>1, <1>3
    <3>3. r # NoRow => \E l \in K : held[l] # NoRow
      BY <3>1, <3>2, <1>3
    <3>4. Stands(f, K, e, r, M)
      BY <3>1, <3>2, <3>3, <2>3, <1>1, <1>3 DEF Stands, OneHolder
    <3> QED BY <3>4, <2>1 DEF Moved
  <2> QED BY <2>2, <2>3
<1> QED BY <1>2, <1>5, <1>6, <1>7, <1>8, <1>9

(* Whatever the file was, a move writes one exam, and only a leave that      *)
(* covers it is given a backup.                                             *)
LEMMA ReconciledFrame ==
  ASSUME NEW f, Shape(f), NEW e \in Exams, NEW K \in SUBSET Leaves, NEW g \in Reconciled(f, e, K)
  PROVE  /\ Shape(g) /\ g.leave = f.leave
         /\ \A x \in Exams \ {e} : /\ g.row[x] = f.row[x]
                                   /\ \A l \in Leaves : g.backup[l][x] = f.backup[l][x]
         /\ \A l \in Leaves : g.backup[l][e] # NoRow => f.backup[l][e] # NoRow \/ l \in K
<1> DEFINE held == BackupsOf(f, e)
           holders == {l \in Leaves : held[l] # NoRow}
<1>1. /\ held \in [Leaves -> Results \cup {NoRow}] /\ \A l \in Leaves : held[l] = f.backup[l][e]
      /\ NoBackups \in [Leaves -> Results \cup {NoRow}] /\ \A l \in Leaves : NoBackups[l] = NoRow
  BY DEF Shape, BackupsOf, NoBackups
<1>2. /\ f.row[e] \in Results \cup {Excused, NoRow}
      /\ Excused \notin Results \cup {NoRow} /\ NoRow \notin Results
  BY ScopeFacts DEF Shape
<1>3. \/ g = f
      \/ \E result \in Results \cup {NoRow} : g = Put(f, e, result, NoBackups)
      \/ \E l \in K, h \in holders : g = Put(f, e, Excused, [NoBackups EXCEPT ![l] = held[h]])
      \/ g = Put(f, e, Excused, held)
      \/ \E l \in K : f.row[e] \in Results
           /\ g = Put(f, e, Excused, [held EXCEPT ![l] = IF @ = NoRow THEN f.row[e] ELSE @])
  <2>1. CASE f.row[e] = Excused /\ K = {}
    <3>1. g \in {Put(f, e, result, NoBackups) :
                  result \in IF holders = {} THEN {NoRow} ELSE {held[h] : h \in holders}}
      BY <2>1 DEF Reconciled
    <3> HIDE DEF held
    <3>2. \A h \in holders : held[h] \in Results \cup {NoRow}
      BY <1>1
    <3>3. \E result \in Results \cup {NoRow} : g = Put(f, e, result, NoBackups)
      BY <3>1, <3>2
    <3> QED BY <3>3
  <2>2. CASE f.row[e] = Excused /\ K # {} /\ holders # {} /\ holders \cap K = {}
    <3>1. PICK l \in K, h \in holders : g = Put(f, e, Excused, [NoBackups EXCEPT ![l] = held[h]])
      BY <2>2, <1>2 DEF Reconciled
    <3> HIDE DEF held
    <3> QED BY <3>1
  <2>3. CASE f.row[e] = NoRow /\ K # {}
    BY <2>3, <1>2 DEF Reconciled
  <2>4. CASE f.row[e] \in Results /\ K # {}
    <3>1. PICK l \in K :
            g = Put(f, e, Excused, [held EXCEPT ![l] = IF @ = NoRow THEN f.row[e] ELSE @])
      BY <2>4, <1>2 DEF Reconciled
    <3> HIDE DEF held
    <3> QED BY <3>1, <2>4
  <2>5. CASE /\ ~(f.row[e] = Excused /\ K = {})
             /\ ~(f.row[e] = Excused /\ K # {} /\ holders # {} /\ holders \cap K = {})
             /\ K = {} \/ f.row[e] = Excused
    BY <2>5, <1>2 DEF Reconciled
  <2> QED BY <2>1, <2>2, <2>3, <2>4, <2>5, <1>2
<1> DEFINE Fits(backups) ==
             /\ backups \in [Leaves -> Results \cup {NoRow}]
             /\ \A l \in Leaves : backups[l] # NoRow => f.backup[l][e] # NoRow \/ l \in K
<1>4. ASSUME NEW result \in Results \cup {Excused, NoRow}, NEW backups, Fits(backups),
             g = Put(f, e, result, backups)
      PROVE  /\ Shape(g) /\ g.leave = f.leave
             /\ \A x \in Exams \ {e} : /\ g.row[x] = f.row[x]
                                       /\ \A l \in Leaves : g.backup[l][x] = f.backup[l][x]
             /\ \A l \in Leaves : g.backup[l][e] # NoRow => f.backup[l][e] # NoRow \/ l \in K
  <2>1. /\ g.leave = f.leave /\ g.row = [f.row EXCEPT ![e] = result]
        /\ g.backup = [l \in Leaves |-> [f.backup[l] EXCEPT ![e] = backups[l]]]
    BY <1>4 DEF Put
  <2>2. \A l \in Leaves : f.backup[l] \in [Exams -> Results \cup {NoRow}]
    BY DEF Shape
  <2>3. g.row \in [Exams -> Results \cup {Excused, NoRow}]
        /\ \A x \in Exams : g.row[x] = IF x = e THEN result ELSE f.row[x]
    BY <2>1 DEF Shape
  <2>4. \A l \in Leaves : g.backup[l] = [f.backup[l] EXCEPT ![e] = backups[l]]
    BY <2>1
  <2>5. ASSUME NEW l \in Leaves PROVE g.backup[l] \in [Exams -> Results \cup {NoRow}]
    <3>1. backups[l] \in Results \cup {NoRow}
      BY <1>4
    <3> QED BY <3>1, <2>2, <2>4
  <2>6. g.backup \in [Leaves -> [Exams -> Results \cup {NoRow}]]
    BY <2>1, <2>4, <2>5
  <2>7. \A l \in Leaves, x \in Exams : g.backup[l][x] = IF x = e THEN backups[l] ELSE f.backup[l][x]
    BY <2>2, <2>4
  <2>8. Shape(g)
    BY <2>1, <2>3, <2>6 DEF Shape
  <2> QED BY <1>4, <2>1, <2>3, <2>7, <2>8
<1> HIDE DEF held
<1>5. CASE g = f
  BY <1>5
<1>6. CASE \E result \in Results \cup {NoRow} : g = Put(f, e, result, NoBackups)
  BY <1>1, <1>4, <1>6
<1>7. CASE \E l \in K, h \in holders : g = Put(f, e, Excused, [NoBackups EXCEPT ![l] = held[h]])
  <2>1. PICK l \in K, h \in holders : g = Put(f, e, Excused, [NoBackups EXCEPT ![l] = held[h]])
    BY <1>7
  <2> DEFINE backups == [NoBackups EXCEPT ![l] = held[h]]
  <2>2. /\ backups \in [Leaves -> Results \cup {NoRow}]
        /\ \A k \in Leaves : k # l => backups[k] = NoRow
    BY <1>1
  <2> HIDE DEF backups
  <2> QED BY <2>1, <2>2, <1>4 DEF backups
<1>8. CASE g = Put(f, e, Excused, held)
  BY <1>1, <1>4, <1>8
<1>9. CASE \E l \in K : f.row[e] \in Results
             /\ g = Put(f, e, Excused, [held EXCEPT ![l] = IF @ = NoRow THEN f.row[e] ELSE @])
  <2>1. PICK l \in K : f.row[e] \in Results
          /\ g = Put(f, e, Excused, [held EXCEPT ![l] = IF @ = NoRow THEN f.row[e] ELSE @])
    BY <1>9
  <2> DEFINE backups == [held EXCEPT ![l] = IF @ = NoRow THEN f.row[e] ELSE @]
  <2>2. /\ backups \in [Leaves -> Results \cup {NoRow}]
        /\ \A k \in Leaves : k # l => backups[k] = held[k]
    BY <2>1, <1>1
  <2>3. Fits(backups)
    BY <2>2, <1>1
  <2> HIDE DEF backups, Fits
  <2> QED BY <2>1, <2>3, <1>4 DEF backups
<1> QED BY <1>3, <1>5, <1>6, <1>7, <1>8, <1>9

LEMMA MoveExamHolds ==
  ASSUME IInv, NEW e \in Exams, NEW d \in Days, MoveExam(e, d)
  PROVE  IInv'
<1> DEFINE K == CoveringOn(e, d)
<1>1. /\ file' \in Reconciled(file, e, K) /\ real' = real
      /\ day' = [day EXCEPT ![e] = d] /\ StillRemoved
      /\ mislaid' = IF LeftBehind(e, d) THEN mislaid \cup {e} ELSE mislaid
  BY DEF MoveExam
<1>2. day' \in [Exams -> Days] /\ \A x \in Exams : day'[x] = IF x = e THEN d ELSE day[x]
  BY <1>1 DEF IInv
<1>3. /\ Shape(file) /\ Apart(file) /\ Owned(file) /\ real[e] \in Results \cup {NoRow}
      /\ Covering(file, e) \subseteq Leaves
  BY CoveringInLeaves DEF IInv
<1>4. K \subseteq Leaves /\ \A l \in K : file.leave[l] # NoLeave
  BY DEF CoveringOn, CoversOn
<1>5. file'.leave = file.leave /\ Shape(file')
      /\ \A x \in Exams \ {e} : /\ file'.row[x] = file.row[x]
                                /\ \A l \in Leaves : file'.backup[l][x] = file.backup[l][x]
  <2> HIDE DEF K
  <2> QED BY <1>1, <1>3, <1>4, ReconciledFrame
<1>6. Owned(file')
  <2>1. \A l \in Leaves : file'.backup[l][e] # NoRow => file.backup[l][e] # NoRow \/ l \in K
    <3> HIDE DEF K
    <3> QED BY <1>1, <1>3, <1>4, ReconciledFrame
  <2>2. ASSUME NEW l \in Leaves, NEW x \in Exams, file'.leave[l] = NoLeave
        PROVE  file'.backup[l][x] = NoRow
    <3>1. file.backup[l][x] = NoRow /\ l \notin K
      BY <2>2, <1>3, <1>4, <1>5 DEF Owned
    <3> QED BY <3>1, <2>1, <1>5
  <2> QED BY <2>2 DEF Owned
<1>7. ASSUME e \notin mislaid' PROVE Stands(file', K, e, real[e], removed)
  <2> DEFINE C == Covering(file, e)
             r == real[e]
  <2>1. e \notin mislaid /\ ~LeftBehind(e, d)
    BY <1>1, <1>7
  <2>2. Stands(file, C, e, r, removed)
    BY <2>1 DEF IInv
  <2>3. file.row[e] = NoRow => \A l \in Leaves : file.backup[l][e] # NoRow => l \in K
    <3>1. C = {} => \A l \in Leaves : file.backup[l][e] = NoRow
      BY <2>2 DEF Stands
    <3>2. C # {} /\ file.row[e] = NoRow => e \in removed
      BY <2>2, ScopeFacts DEF Stands
    <3> QED BY <3>1, <3>2, <2>1 DEF LeftBehind
  <2>4. /\ Shape(file) /\ C \in SUBSET Leaves /\ r \in Results \cup {NoRow}
        /\ K \in SUBSET Leaves /\ file' \in Reconciled(file, e, K)
    BY <1>1, <1>3, <1>4
  <2> HIDE DEF C, r, K
  <2>5. ASSUME NEW g \in Reconciled(file, e, K)
        PROVE  Moved(file, g, e, K, r, removed)
    BY <2>2, <2>3, <2>4, ReconciledStands
  <2> QED BY <2>4, <2>5 DEF r, Moved
<1>8. ASSUME NEW x \in Exams
      PROVE  Covering(file, x)' = IF x = e THEN K ELSE Covering(file, x)
  BY <1>2, <1>5 DEF Covering, CoveringOn
<1>9. ASSUME NEW x \in Exams \ mislaid' PROVE Stands(file', Covering(file, x)', x, real'[x], removed)
  <2> HIDE DEF K
  <2>1. CASE x = e
    BY <2>1, <1>1, <1>7, <1>8
  <2>2. CASE x # e
    <3>1. Stands(file, Covering(file, x), x, real[x], removed)
      BY <1>1, <2>2 DEF IInv
    <3>2. /\ file'.row[x] = file.row[x] /\ real'[x] = real[x]
          /\ \A l \in Leaves : file'.backup[l][x] = file.backup[l][x]
      BY <2>2, <1>1, <1>5
    <3>3. Covering(file, x)' = Covering(file, x) /\ Covering(file, x) \subseteq Leaves
      BY <2>2, <1>8, CoveringInLeaves
    <3> DEFINE C == Covering(file, x)
    <3> HIDE DEF C
    <3>4. Stands(file', C, x, real'[x], removed)
      BY <3>1, <3>2, <3>3 DEF Stands, OneHolder, C
    <3> QED BY <3>3, <3>4 DEF C
  <2> QED BY <2>1, <2>2
<1>10. Apart(file')
  BY <1>3, <1>5 DEF Apart
<1>11. mislaid' \subseteq Exams /\ real' \in [Exams -> Results \cup {NoRow}]
  BY <1>1 DEF IInv
<1> QED BY <1>1, <1>2, <1>5, <1>6, <1>9, <1>10, <1>11, FileHolds

-----------------------------------------------------------------------------
LEMMA StepHolds ==
  ASSUME ~Crossing, IInv, [Next]_vars
  PROVE  IInv'
<1>1. ASSUME NEW id \in Leaves, NEW scope \in Scope, Create(id, scope) \/ Edit(id, scope)
      PROVE  IInv'
  BY <1>1, CreateHolds, EditHolds
<1>2. ASSUME NEW id \in Leaves, Cancel(id) PROVE IInv'
  BY <1>2, CancelHolds
<1>3. ASSUME NEW e \in Exams, NEW v \in Scores, EnterScore(e, v) PROVE IInv'
  BY <1>3, EnterScoreHolds
<1>4. ASSUME NEW e \in Exams,
             EnterAbsence(e) \/ MarkMissing(e) \/ WithdrawAbsence(e) \/ EnsureMarker(e)
      PROVE  IInv'
  BY <1>4, RowsHold
<1>7. ASSUME NEW e \in Exams, DeleteGrade(e) PROVE IInv'
  BY <1>7, DeleteGradeHolds
<1>5. ASSUME NEW e \in Exams, NEW d \in Days, MoveExam(e, d) PROVE IInv'
  BY <1>5, MoveExamHolds
<1>6. CASE UNCHANGED vars
  BY <1>6 DEF vars, IInv, Shape, Apart, Owned, Stands, OneHolder, Covering
<1> QED BY <1>1, <1>2, <1>3, <1>4, <1>5, <1>6, <1>7 DEF Next

LEMMA InvariantGives == IInv => TypeOK /\ ExcusedWhileCovered /\ OriginalRestored
<1> SUFFICES ASSUME IInv PROVE TypeOK /\ ExcusedWhileCovered /\ OriginalRestored
  OBVIOUS
<1>1. \A l \in Leaves, e \in Exams : file.backup[l][e] # NoRow => file.leave[l] # NoLeave
  BY DEF IInv, Owned
<1>2. TypeOK
  BY <1>1 DEF IInv, Shape, TypeOK
<1>3. ExcusedWhileCovered /\ OriginalRestored
  BY DEF IInv, Stands, ExcusedWhileCovered, OriginalRestored
<1> QED BY <1>2, <1>3

LEMMA Invariant == ASSUME ~Crossing PROVE Spec => []IInv
<1>1. IInv /\ [Next]_vars => IInv'
  BY StepHolds
<1> QED BY InitHolds, <1>1, PTL DEF Spec

(* Every operation on leaves, results and exam days writes well-typed rows, *)
(* and no backup outlives its leave, for any exams, days and leaves.        *)
THEOREM TypeCorrect == ASSUME ~Crossing PROVE Spec => []TypeOK
BY Invariant, InvariantGives, PTL

(* While a leave covers an exam the student's row there is the marker, or   *)
(* none if the marker was deleted by hand; at every exam that was not moved  *)
(* in that state.                                                           *)
THEOREM CoveredIsExcused == ASSUME ~Crossing PROVE Spec => []ExcusedWhileCovered
BY Invariant, InvariantGives, PTL

(* When the last leave over an exam is gone, in whatever order the leaves   *)
(* came, were edited and went, and also if its marker was deleted by hand,   *)
(* the result recorded there is back; at every exam that was not moved       *)
(* while its marker was away.                                               *)
THEOREM LastLeaveRestores == ASSUME ~Crossing PROVE Spec => []OriginalRestored
BY Invariant, InvariantGives, PTL
===============================================================================
