------------------------ MODULE StudentLifecycleProofs ------------------------
(***************************************************************************)
(* What StudentLifecycle promises, for any number of students, chapters    *)
(* and administrators and any limits.                                      *)
(***************************************************************************)
EXTENDS StudentLifecycle, TLAPS

(* A status and its dismissal reason agree, and only the active hold       *)
(* opportunities.                                                          *)
Sound(row) ==
  /\ row.status = "active" => row.reason = NoReason
  /\ row.status = "dismissed" => row.reason \in Reasons /\ row.balance = 0
  /\ row.status = "archived" => row.balance = 0

Typed ==
  /\ rows \in [Students -> Row]
  /\ signed \in [Students -> [Chapters -> Nat]]
  /\ notes \in [Students -> Nat]
  /\ active \in Chapters \cup {NoChapter}
  /\ saved \in [Chapters -> [Students -> Nat \cup {NoBalance}]]

DeskOK ==
  /\ desk = [a \in Admins |-> desk[a]]
  /\ \A a \in Admins : desk[a] = Idle \/
       /\ desk[a].stage \in {"open", "running"}
       /\ desk[a].op \in Operations
       /\ desk[a].on \in IF desk[a].op \in ChapterOps THEN Chapters ELSE Students
       /\ desk[a].attempt \in 0..MaxAttempts
       /\ desk[a].stage = "open" => desk[a].attempt < MaxAttempts

RowsSound == \A s \in Students : Sound(rows[s])

(* What is remembered of an archived student is what the row still tells.  *)
HeldTold ==
  /\ held = [s \in Students |-> held[s]]
  /\ \A s \in Students : rows[s].status = "archived" =>
       /\ held[s].reason = rows[s].reason
       /\ held[s].status = StatusBefore(rows[s])

Inv == Typed /\ DeskOK /\ RowsSound /\ HeldTold /\ PledgeLimit

-----------------------------------------------------------------------------
(* A replay leaves a sound row of the same student, archived only if it    *)
(* was, and then unchanged.                                                *)
LEMMA ReplaySound ==
  ASSUME NEW row \in Row, Sound(row), NEW chapter \in Chapters \cup {NoChapter},
         NEW r \in Replays(row, chapter)
  PROVE  /\ r \in Row
         /\ Sound(r)
         /\ r.status = "archived" => r = row
<1> DEFINE limit == LimitOf(chapter)
           back(n) == Become(row, "active", NoReason, n, limit)
           out(why) == Become(row, "dismissed", why, 0, limit)
<1>1. limit \in Nat
  BY Assumption DEF LimitOf, Assumption
<1>2. \/ r = row
      \/ \E n \in 0..limit : r = back(n)
      \/ \E why \in Reasons : r = out(why)
  BY DEF Replays, Reasons, Row
<1>3. ASSUME NEW n \in 0..limit, r = back(n)
      PROVE  r \in Row /\ Sound(r) /\ r.status = "active"
  BY <1>1, <1>3 DEF Become, Row, Sound, NoReason, Reasons
<1>4. ASSUME NEW why \in Reasons, r = out(why)
      PROVE  r \in Row /\ Sound(r) /\ r.status = "dismissed"
  BY <1>1, <1>4 DEF Become, Row, Sound, NoReason, Reasons
<1> HIDE DEF back, out
<1>5. QED
  BY <1>2, <1>3, <1>4

(* Only a row an archived student had leaves the archive unchanged.        *)
LEMMA ReplayLeaves ==
  ASSUME NEW row \in Row, row.status # "archived", NEW chapter,
         NEW r \in Replays(row, chapter)
  PROVE  r.status # "archived"
  BY DEF Replays, Become, Row

(* The transaction of a student's operation commits over the file as it    *)
(* is.                                                                     *)
LEMMA CommitsOverFile ==
  ASSUME Inv, NEW a \in Admins, NEW op \in Operations \ ChapterOps, Commit(a, op)
  PROVE  LET s == desk[a].on IN
         /\ s \in Students
         /\ desk[a].op = op
         /\ desk[a].read.rows[s] = rows[s]
         /\ desk[a].read.signed[s] = signed[s]
         /\ desk[a].read.active = active
<1>1. desk[a].on \in Students /\ desk[a].op = op
  BY DEF Inv, DeskOK, Commit, Running, Idle
<1>2. desk[a].read = Facts(op, desk[a].on)
  BY <1>1 DEF Commit, Serialized
<1>3. QED
  BY <1>1, <1>2 DEF Facts, Restrict

(* A chapter's operation commits over the whole course as it is.           *)
LEMMA CommitsOverCourse ==
  ASSUME Inv, NEW a \in Admins, NEW op \in ChapterOps, Commit(a, op)
  PROVE  /\ desk[a].on \in Chapters
         /\ desk[a].read.rows = rows
         /\ desk[a].read.active = active
         /\ desk[a].read.saved = saved
<1>1. desk[a].on \in Chapters /\ desk[a].op = op
  BY DEF Inv, DeskOK, Commit, Running, Idle, Operations
<1>2. desk[a].read = Facts(op, desk[a].on)
  BY <1>1 DEF Commit, Serialized
<1>3. rows = [s \in Students |-> rows[s]]
  BY DEF Inv, Typed
<1>4. QED
  BY <1>1, <1>2, <1>3 DEF Facts, Restrict

(* A request that ends leaves the pages well formed.                       *)
LEMMA DeskEnds ==
  ASSUME Inv, NEW a \in Admins, desk' = [desk EXCEPT ![a] = Idle]
  PROVE  DeskOK'
  BY DEF Inv, DeskOK

(* One student's row is written, and what is remembered of that student    *)
(* fits it.                                                                *)
LEMMA RowWritten ==
  ASSUME Inv, NEW s \in Students, NEW row \in Row, Sound(row),
         rows' = [rows EXCEPT ![s] = row],
         \/ held' = held
         \/ \E h : held' = [held EXCEPT ![s] = h],
         row.status = "archived" => /\ held'[s].reason = row.reason
                                    /\ held'[s].status = StatusBefore(row)
  PROVE  rows' \in [Students -> Row] /\ RowsSound' /\ HeldTold'
<1>1. rows' \in [Students -> Row] /\ rows'[s] = row
  BY DEF Inv, Typed
<1>2. \A t \in Students \ {s} : rows'[t] = rows[t] /\ held'[t] = held[t]
  BY DEF Inv, Typed, HeldTold
<1>3. held' = [t \in Students |-> held'[t]]
  BY DEF Inv, HeldTold
<1>4. RowsSound'
  BY <1>1, <1>2 DEF Inv, RowsSound
<1>5. HeldTold'
  BY <1>1, <1>2, <1>3 DEF Inv, HeldTold, StatusBefore
<1>6. QED
  BY <1>1, <1>4, <1>5

(* The row a student's operation commits keeps the invariant, if the row   *)
(* is sound and the ledger stays within the limit.                         *)
LEMMA RowCommitted ==
  ASSUME Inv, NEW a \in Admins, desk' = [desk EXCEPT ![a] = Idle],
         NEW s \in Students, NEW row \in Row, Sound(row),
         Writes(s, row),
         signed' = signed,
         \/ held' = held
         \/ \E h : held' = [held EXCEPT ![s] = h],
         row.status = "archived" => /\ held'[s].reason = row.reason
                                    /\ held'[s].status = StatusBefore(row)
  PROVE  Inv'
<1>1. rows' \in [Students -> Row] /\ RowsSound' /\ HeldTold'
  BY RowWritten DEF Writes
<1>2. Typed'
  BY <1>1 DEF Inv, Typed, Writes
<1>3. PledgeLimit'
  BY DEF Inv, PledgeLimit
<1>4. QED
  BY <1>1, <1>2, <1>3, DeskEnds DEF Inv

(* A row with the fields of a status is a sound row.                       *)
LEMMA BecomeSound ==
  ASSUME NEW row \in Row, NEW base \in Nat
  PROVE  /\ \A n \in Nat : LET r == Become(row, "active", NoReason, n, base) IN
                             r \in Row /\ Sound(r) /\ r.status = "active"
         /\ \A why \in Reasons : LET r == Become(row, "dismissed", why, 0, base) IN
                             r \in Row /\ Sound(r) /\ r.status = "dismissed"
         /\ LET r == Become(row, "archived", row.reason, 0, base) IN
                             r \in Row /\ Sound(r) /\ r.reason = row.reason
  BY DEF Become, Row, Sound, NoReason, Reasons

(* A sound row put away tells the status it had.                           *)
LEMMA ShelvedTells ==
  ASSUME NEW row \in Row, Sound(row), row.status # "archived"
  PROVE  /\ Shelved(row) \in Row /\ Sound(Shelved(row))
         /\ Shelved(row).reason = row.reason
         /\ StatusBefore(Shelved(row)) = row.status
  BY DEF Shelved, Become, Row, Sound, StatusBefore, NoReason, Reasons

(* What leaves the archive is a sound row.                                 *)
LEMMA RestoredSound ==
  ASSUME NEW row \in Row, NEW limit \in Nat,
         NEW status, status = "dismissed" => row.reason \in Reasons
  PROVE  /\ Restored(row, status, limit) \in Row
         /\ Sound(Restored(row, status, limit))
         /\ Restored(row, status, limit).status # "archived"
  BY BecomeSound DEF Restored

LEMMA LimitIsNat == ASSUME NEW c \in Chapters \cup {NoChapter} PROVE LimitOf(c) \in Nat
  BY Assumption DEF LimitOf, Assumption

-----------------------------------------------------------------------------
(* The commits of a student's operations, one lemma each where the row     *)
(* comes from a replay or stays in the archive.                            *)
LEMMA DismissKeeps == ASSUME Inv, NEW a \in Admins, Dismiss(a) PROVE Inv'
<1> DEFINE s == desk[a].on
           row == Become(rows[s], "dismissed", "hand", 0, rows[s].base)
<1>1. s \in Students /\ desk[a].read.rows[s] = rows[s]
  BY CommitsOverFile DEF Dismiss, Operations, RowOps, ChapterOps
<1>2. rows[s] \in Row /\ rows[s].base \in Nat
  BY <1>1 DEF Inv, Typed, Row
<1>3. row \in Row /\ Sound(row) /\ row.status = "dismissed"
  BY <1>2, BecomeSound DEF Reasons
<1>4. Writes(s, row) /\ desk' = [desk EXCEPT ![a] = Idle]
  BY <1>1 DEF Dismiss, Commit
<1> HIDE DEF s, row
<1>5. QED
  BY <1>1, <1>3, <1>4, RowCommitted DEF Dismiss

LEMMA ManualKeeps == ASSUME Inv, NEW a \in Admins, Manual(a) PROVE Inv'
<1> DEFINE s == desk[a].on
           limit == LimitOf(active)
<1>1. s \in Students /\ desk[a].read.rows[s] = rows[s] /\ desk[a].read.active = active
  BY CommitsOverFile DEF Manual, Operations, RowOps, ChapterOps
<1>2. rows[s] \in Row /\ limit \in Nat
  BY <1>1, LimitIsNat DEF Inv, Typed
<1>3. PICK amount \in 1..limit : Writes(s, Returned(rows[s], amount, limit))
  BY <1>1 DEF Manual
<1> DEFINE row == Returned(rows[s], amount, limit)
<1>4. row \in Row /\ Sound(row) /\ row.status = "active"
  <2>1. amount \in Nat
    BY <1>2
  <2>2. QED
    BY <1>2, <2>1, BecomeSound DEF Returned
<1>5. desk' = [desk EXCEPT ![a] = Idle]
  BY DEF Manual, Commit
<1>6. Writes(s, row)
  BY <1>3
<1> HIDE DEF s, limit, row
<1>7. QED
  BY <1>1, <1>4, <1>5, <1>6, RowCommitted DEF Manual

LEMMA ShelvesKeep ==
  ASSUME Inv, NEW a \in Admins, Archive(a) \/ Withdraw(a) PROVE Inv'
<1> DEFINE s == desk[a].on
           told == [status |-> rows[s].status, reason |-> rows[s].reason]
           row == Shelved(rows[s])
<1>1. s \in Students /\ desk[a].read.rows[s] = rows[s]
  BY CommitsOverFile DEF Archive, Withdraw, Operations, FreeOps, ChapterOps, RowOps
<1>2. rows[s] \in Row /\ Sound(rows[s])
  BY <1>1 DEF Inv, Typed, RowsSound
<1>3. rows[s].status # "archived"
  <2>1. desk[a].op \in {"archive", "withdraw"} /\ Permitted(a)
    BY DEF Archive, Withdraw, Commit
  <2>2. QED
    BY <1>1, <2>1 DEF Permitted
<1>4. row \in Row /\ Sound(row) /\ row.reason = rows[s].reason
      /\ StatusBefore(row) = rows[s].status
  BY <1>2, <1>3, ShelvedTells
<1>5. /\ desk' = [desk EXCEPT ![a] = Idle]
      /\ signed' = signed
      /\ held' = [held EXCEPT ![s] = told]
  BY <1>1 DEF Archive, Withdraw, Commit
<1>6. held'[s] = told
  BY <1>1, <1>5 DEF Inv, HeldTold
<1>7. \/ Writes(s, row)
      \/ Writes(s, [row EXCEPT !.word = TRUE])
  BY <1>1 DEF Archive, Withdraw
<1> HIDE DEF row
<1>8. /\ [row EXCEPT !.word = TRUE] \in Row
      /\ Sound([row EXCEPT !.word = TRUE])
      /\ [row EXCEPT !.word = TRUE].reason = row.reason
  BY <1>4 DEF Row, Sound
<1>9. StatusBefore([row EXCEPT !.word = TRUE]) = StatusBefore(row)
  BY <1>8 DEF StatusBefore
<1>10. CASE Writes(s, row)
  <2>1. held'[s].reason = row.reason /\ held'[s].status = StatusBefore(row)
    BY <1>4, <1>6
  <2> HIDE DEF told
  <2>2. QED
    BY <1>1, <1>4, <1>5, <1>10, <2>1, RowCommitted
<1>11. CASE Writes(s, [row EXCEPT !.word = TRUE])
  <2> DEFINE worded == [row EXCEPT !.word = TRUE]
  <2>1. worded \in Row /\ Sound(worded) /\ worded.reason = told.reason
        /\ StatusBefore(worded) = told.status
    BY <1>4, <1>8, <1>9
  <2>2. Writes(s, worded)
    BY <1>11
  <2> HIDE DEF worded
  <2>3. QED
    BY <1>1, <1>5, <1>6, <2>1, <2>2, RowCommitted
<1>12. QED
  BY <1>7, <1>10, <1>11

LEMMA RestoreKeeps == ASSUME Inv, NEW a \in Admins, Restore(a) PROVE Inv'
<1> DEFINE s == desk[a].on
           back == Restored(rows[s], "active", LimitOf(active))
<1>1. s \in Students /\ desk[a].read.rows[s] = rows[s] /\ desk[a].read.active = active
  BY CommitsOverFile DEF Restore, Operations, RowOps, ChapterOps
<1>2. rows[s] \in Row /\ LimitOf(active) \in Nat /\ active \in Chapters \cup {NoChapter}
  BY <1>1, LimitIsNat DEF Inv, Typed
<1>3. back \in Row /\ Sound(back) /\ back.status # "archived"
  BY <1>2, RestoredSound
<1>4. PICK row \in Replays(back, active) : Writes(s, row)
  BY <1>1 DEF Restore
<1> HIDE DEF back
<1>5. row \in Row /\ Sound(row) /\ row.status # "archived"
  BY <1>2, <1>3, ReplaySound, ReplayLeaves
<1>6. desk' = [desk EXCEPT ![a] = Idle] /\ signed' = signed
      /\ held' = [held EXCEPT ![s] = Nothing]
  BY DEF Restore, Commit
<1> HIDE DEF s
<1>7. QED
  BY <1>1, <1>4, <1>5, <1>6, RowCommitted

(* The status inferred for a withdrawn student is that of the dismissed    *)
(* only with a reason, so the row that leaves the archive is sound.        *)
LEMMA UnwithdrawKeeps == ASSUME Inv, NEW a \in Admins, Unwithdraw(a) PROVE Inv'
<1> DEFINE s == desk[a].on
           back == Restored(rows[s], StatusBefore(rows[s]), LimitOf(active))
           plain == [back EXCEPT !.word = FALSE]
<1>1. s \in Students /\ desk[a].read.rows[s] = rows[s] /\ desk[a].read.active = active
  BY CommitsOverFile DEF Unwithdraw, Operations, FreeOps, RowOps, ChapterOps
<1>2. rows[s] \in Row /\ LimitOf(active) \in Nat /\ active \in Chapters \cup {NoChapter}
  BY <1>1, LimitIsNat DEF Inv, Typed
<1>3. StatusBefore(rows[s]) = "dismissed" => rows[s].reason \in Reasons
  BY <1>2 DEF StatusBefore, Row, NoReason, Reasons
<1>4. back \in Row /\ Sound(back) /\ back.status # "archived"
  BY <1>2, <1>3, RestoredSound
<1>5. PICK row \in Replays(plain, active) : Writes(s, row)
  BY <1>1 DEF Unwithdraw
<1> HIDE DEF back
<1>6. plain \in Row /\ Sound(plain) /\ plain.status # "archived"
  BY <1>4 DEF Row, Sound
<1> HIDE DEF plain
<1>7. row \in Row /\ Sound(row) /\ row.status # "archived"
  BY <1>2, <1>6, ReplaySound, ReplayLeaves
<1>8. desk' = [desk EXCEPT ![a] = Idle] /\ signed' = signed
      /\ held' = [held EXCEPT ![s] = Nothing]
  BY DEF Unwithdraw, Commit
<1> HIDE DEF s
<1>9. QED
  BY <1>1, <1>5, <1>7, <1>8, RowCommitted

(* A grade may leave an archived row only as it is.                        *)
LEMMA GradeKeeps == ASSUME Inv, NEW a \in Admins, Grade(a) PROVE Inv'
<1> DEFINE s == desk[a].on
<1>1. s \in Students /\ desk[a].read.rows[s] = rows[s] /\ desk[a].read.active = active
  BY CommitsOverFile DEF Grade, Operations, FreeOps, RowOps, ChapterOps
<1>2. rows[s] \in Row /\ Sound(rows[s]) /\ active \in Chapters \cup {NoChapter}
  BY <1>1 DEF Inv, Typed, RowsSound
<1>3. PICK row \in Replays(rows[s], active) : Writes(s, row)
  BY <1>1 DEF Grade
<1>4. row \in Row /\ Sound(row) /\ (row.status = "archived" => row = rows[s])
  BY <1>2, ReplaySound
<1>5. row.status = "archived" => held[s].reason = row.reason
                                 /\ held[s].status = StatusBefore(row)
  BY <1>1, <1>4 DEF Inv, HeldTold
<1>6. desk' = [desk EXCEPT ![a] = Idle] /\ signed' = signed /\ held' = held
  BY DEF Grade, Commit
<1> HIDE DEF s
<1>7. QED
  BY <1>1, <1>3, <1>4, <1>5, <1>6, RowCommitted

(* A pledge commits with fewer than the limit in the ledger it read, and   *)
(* that ledger is the one it adds to.                                      *)
LEMMA PledgeKeeps == ASSUME Inv, NEW a \in Admins, Pledge(a) PROVE Inv'
<1> DEFINE s == desk[a].on
           row == Become(rows[s], "active", NoReason, Grant, rows[s].base)
<1>1. /\ s \in Students /\ desk[a].op = "pledge"
      /\ desk[a].read.rows[s] = rows[s]
      /\ desk[a].read.signed[s] = signed[s]
      /\ desk[a].read.active = active
  BY CommitsOverFile DEF Pledge, Operations, RowOps, ChapterOps
<1>2. rows[s] \in Row /\ rows[s].base \in Nat /\ Grant \in Nat
  BY <1>1, Assumption DEF Inv, Typed, Row, Assumption
<1>3. row \in Row /\ Sound(row) /\ row.status = "active"
  BY <1>2, BecomeSound
<1>4. PledgesLeft(desk[a].read, s) /\ LimitOf(active) >= Grant
  BY <1>1 DEF Pledge, Commit, Permitted
<1>5. active \in Chapters /\ signed[s][active] < PledgeMax
  <2>1. active # NoChapter
    BY <1>4, Assumption DEF LimitOf, Assumption
  <2>2. QED
    BY <1>1, <1>4, <2>1 DEF PledgesLeft, Inv, Typed
<1>6. /\ Writes(s, row) /\ desk' = [desk EXCEPT ![a] = Idle] /\ held' = held
      /\ signed' = [signed EXCEPT ![s][active] = @ + 1]
  BY <1>1 DEF Pledge, Commit
<1> HIDE DEF s, row
<1>7. rows' \in [Students -> Row] /\ RowsSound' /\ HeldTold'
  BY <1>1, <1>3, <1>6, RowWritten DEF Writes
<1>8. signed' \in [Students -> [Chapters -> Nat]]
  BY <1>1, <1>5, <1>6 DEF Inv, Typed
<1>9. PledgeLimit'
  BY <1>1, <1>5, <1>6, Assumption DEF Inv, Typed, PledgeLimit, Assumption
<1>10. Typed'
  BY <1>6, <1>7, <1>8 DEF Inv, Typed, Writes
<1>11. QED
  BY <1>6, <1>7, <1>9, <1>10, DeskEnds DEF Inv

LEMMA ReenrolKeeps == ASSUME Inv, NEW a \in Admins, Reenrol(a) PROVE Inv'
<1> DEFINE s == desk[a].on
           limit == LimitOf(active)
           row == Returned(rows[s], limit, limit)
<1>1. s \in Students /\ desk[a].read.rows[s] = rows[s] /\ desk[a].read.active = active
  BY CommitsOverFile DEF Reenrol, Operations, RowOps, ChapterOps
<1>2. rows[s] \in Row /\ limit \in Nat
  BY <1>1, LimitIsNat DEF Inv, Typed
<1>3. row \in Row /\ Sound(row) /\ row.status = "active"
  BY <1>2, BecomeSound DEF Returned
<1>4. /\ desk' = [desk EXCEPT ![a] = Idle]
      /\ rows' = [rows EXCEPT ![s] = row]
      /\ signed' = [signed EXCEPT ![s] = [c \in Chapters |-> 0]]
      /\ notes' = [notes EXCEPT ![s] = 0]
      /\ UNCHANGED <<active, saved, held>>
  BY <1>1 DEF Reenrol, Commit
<1> HIDE DEF s, limit, row
<1>5. rows' \in [Students -> Row] /\ RowsSound' /\ HeldTold'
  BY <1>1, <1>3, <1>4, RowWritten
<1>6. Typed'
  BY <1>1, <1>4, <1>5 DEF Inv, Typed
<1>7. PledgeLimit'
  BY <1>1, <1>4, Assumption DEF Inv, Typed, PledgeLimit, Assumption
<1>8. QED
  BY <1>4, <1>5, <1>6, <1>7, DeskEnds DEF Inv

(* A chapter's opening and closing and the transition give a sound row of  *)
(* the same status, and none to the archived.                              *)
LEMMA ChapterRows ==
  ASSUME NEW row \in Row, Sound(row), NEW kept \in Nat \cup {NoBalance}, NEW limit \in Nat
  PROVE  /\ \A r \in {Opened(row, kept, limit), Closed(row), Renewed(row, limit)} :
              /\ r \in Row /\ Sound(r)
              /\ r.status = row.status
              /\ row.status = "archived" => r = row
  BY DEF Opened, Closed, Renewed, Become, Row, Sound

LEMMA KeptType ==
  ASSUME Inv, NEW c \in Chapters \cup {NoChapter}, NEW read,
         read.rows = rows, read.saved = saved
  PROVE  Kept(c, read) \in [Chapters -> [Students -> Nat \cup {NoBalance}]]
<1>1. \A s \in Students : rows[s].balance \in Nat
  BY DEF Inv, Typed, Row
<1>2. [s \in Students |-> IF read.rows[s].status = "archived" THEN NoBalance
                          ELSE read.rows[s].balance] \in [Students -> Nat \cup {NoBalance}]
  BY <1>1
<1>3. QED
  BY <1>2 DEF Kept, Inv, Typed

(* Sound rows for every student, the archived untouched: all a chapter's   *)
(* commit has to leave.                                                    *)
LEMMA CourseCommitted ==
  ASSUME Inv, NEW a \in Admins, desk' = [desk EXCEPT ![a] = Idle],
         rows' = [s \in Students |-> rows'[s]],
         \A s \in Students : /\ rows'[s] \in Row /\ Sound(rows'[s])
                             /\ rows'[s].status = "archived" => rows'[s] = rows[s],
         notes' \in [Students -> Nat], active' \in Chapters \cup {NoChapter},
         saved' \in [Chapters -> [Students -> Nat \cup {NoBalance}]],
         UNCHANGED <<signed, held>>
  PROVE  Inv'
<1>1. rows' \in [Students -> Row] /\ RowsSound'
  BY DEF RowsSound
<1>2. HeldTold'
  BY DEF Inv, HeldTold
<1>3. Typed' /\ PledgeLimit'
  BY <1>1 DEF Inv, Typed, PledgeLimit
<1>4. QED
  BY <1>1, <1>2, <1>3, DeskEnds DEF Inv

LEMMA DeactivateKeeps == ASSUME Inv, NEW a \in Admins, Deactivate(a) PROVE Inv'
<1>1. desk[a].on \in Chapters /\ desk[a].read.rows = rows /\ desk[a].read.saved = saved
  BY CommitsOverCourse DEF Deactivate, ChapterOps
<1>2. rows' = [s \in Students |-> Closed(rows[s])]
  BY <1>1 DEF Deactivate
<1>3. \A s \in Students : /\ rows'[s] \in Row /\ Sound(rows'[s])
                          /\ rows'[s].status = "archived" => rows'[s] = rows[s]
  <2> TAKE s \in Students
  <2>1. rows[s] \in Row /\ Sound(rows[s])
    BY DEF Inv, Typed, RowsSound
  <2>2. rows'[s] = Closed(rows[s])
    BY <1>2
  <2>3. QED
    BY <2>1, <2>2, ChapterRows
<1>4. saved' \in [Chapters -> [Students -> Nat \cup {NoBalance}]]
  BY <1>1, KeptType DEF Deactivate
<1>5. /\ desk' = [desk EXCEPT ![a] = Idle] /\ active' = NoChapter
      /\ UNCHANGED <<signed, notes, held>>
  BY DEF Deactivate, Commit
<1>6. QED
  BY <1>2, <1>3, <1>4, <1>5, CourseCommitted DEF Inv, Typed

LEMMA ActivateKeeps == ASSUME Inv, NEW a \in Admins, Activate(a) PROVE Inv'
<1> DEFINE c == desk[a].on
           opened == [s \in Students |-> Opened(rows[s], saved[c][s], Limits[c])]
<1>1. /\ c \in Chapters /\ desk[a].read.rows = rows
      /\ desk[a].read.saved = saved /\ desk[a].read.active = active
  BY CommitsOverCourse DEF Activate, ChapterOps
<1>2. /\ desk' = [desk EXCEPT ![a] = Idle] /\ active' = c /\ UNCHANGED <<signed, held>>
      /\ saved' = IF active = c THEN saved ELSE Kept(active, desk[a].read)
      /\ rows' \in IF active # c THEN {opened}
                   ELSE {r \in [Students -> UNION {Replays(opened[s], c) : s \in Students}] :
                           \A s \in Students : IF opened[s].status = "active"
                                               THEN r[s] \in Replays(opened[s], c)
                                               ELSE r[s] = opened[s]}
      /\ notes' = [s \in Students |-> notes[s] +
                    (IF active # c /\ opened[s].status = "active" THEN 1 ELSE 0)]
  BY <1>1 DEF Activate, Commit
<1>3. \A s \in Students : /\ opened[s] \in Row /\ Sound(opened[s])
                          /\ opened[s].status = "archived" => opened[s] = rows[s]
  <2> TAKE s \in Students
  <2>1. rows[s] \in Row /\ Sound(rows[s]) /\ saved[c][s] \in Nat \cup {NoBalance}
    BY <1>1 DEF Inv, Typed, RowsSound
  <2>2. Limits[c] \in Nat
    BY <1>1, Assumption DEF Assumption
  <2>3. opened[s] = Opened(rows[s], saved[c][s], Limits[c])
    OBVIOUS
  <2>4. QED
    BY <2>1, <2>2, <2>3, ChapterRows
<1>4. opened = [s \in Students |-> opened[s]]
  OBVIOUS
<1> HIDE DEF opened, c
<1>5. /\ rows' = [s \in Students |-> rows'[s]]
      /\ \A s \in Students : rows'[s] = opened[s] \/
           (opened[s].status = "active" /\ rows'[s] \in Replays(opened[s], c))
  BY <1>2, <1>4
<1>6. \A s \in Students : /\ rows'[s] \in Row /\ Sound(rows'[s])
                          /\ rows'[s].status = "archived" => rows'[s] = rows[s]
  <2> TAKE s \in Students
  <2>1. CASE rows'[s] = opened[s]
    BY <1>3, <2>1
  <2>2. CASE opened[s].status = "active" /\ rows'[s] \in Replays(opened[s], c)
    BY <1>1, <1>3, <2>2, ReplaySound, ReplayLeaves
  <2>3. QED
    BY <1>5, <2>1, <2>2
<1>7. notes' \in [Students -> Nat]
  <2>1. notes \in [Students -> Nat]
    BY DEF Inv, Typed
  <2>2. QED
    BY <1>2, <2>1
<1>8. active \in Chapters \cup {NoChapter}
      /\ saved \in [Chapters -> [Students -> Nat \cup {NoBalance}]]
  BY DEF Inv, Typed
<1>9. saved' \in [Chapters -> [Students -> Nat \cup {NoBalance}]]
  BY <1>1, <1>2, <1>8, KeptType
<1>10. QED
  BY <1>1, <1>2, <1>5, <1>6, <1>7, <1>9, CourseCommitted

LEMMA TransitionKeeps == ASSUME Inv, NEW a \in Admins, Transition(a) PROVE Inv'
<1> DEFINE c == desk[a].on
           kept == [s \in Students |-> rows[s].balance]
<1>1. /\ c \in Chapters /\ desk[a].read.rows = rows
      /\ desk[a].read.saved = saved /\ desk[a].read.active = active
  BY CommitsOverCourse DEF Transition, ChapterOps
<1>2. /\ desk' = [desk EXCEPT ![a] = Idle] /\ active' = c /\ UNCHANGED <<signed, held>>
      /\ saved' = IF active \in {NoChapter, c} THEN saved ELSE [saved EXCEPT ![active] = kept]
      /\ rows' = [s \in Students |-> Renewed(rows[s], Limits[c])]
      /\ notes' = [s \in Students |-> notes[s] + (IF rows[s].status = "archived" THEN 0 ELSE 1)]
  BY <1>1 DEF Transition, Commit
<1>3. Limits[c] \in Nat
  BY <1>1, Assumption DEF Assumption
<1>4. \A s \in Students : rows[s] \in Row /\ Sound(rows[s]) /\ rows[s].balance \in Nat
  BY DEF Inv, Typed, RowsSound, Row
<1> HIDE DEF c
<1>5. \A s \in Students : /\ rows'[s] \in Row /\ Sound(rows'[s])
                          /\ rows'[s].status = "archived" => rows'[s] = rows[s]
  <2> TAKE s \in Students
  <2>1. rows'[s] = Renewed(rows[s], Limits[c])
    BY <1>2
  <2>2. QED
    BY <1>3, <1>4, <2>1, ChapterRows
<1>6. kept \in [Students -> Nat]
  BY <1>4
<1> HIDE DEF kept
<1>7. saved' \in [Chapters -> [Students -> Nat \cup {NoBalance}]]
  <2>1. saved \in [Chapters -> [Students -> Nat \cup {NoBalance}]]
    BY DEF Inv, Typed
  <2>2. kept \in [Students -> Nat \cup {NoBalance}]
    BY <1>6
  <2>3. QED
    BY <1>2, <2>1, <2>2
<1>8. notes' \in [Students -> Nat]
  <2>1. notes \in [Students -> Nat]
    BY DEF Inv, Typed
  <2>2. QED
    BY <1>2, <2>1
<1>9. rows' = [s \in Students |-> rows'[s]]
  BY <1>2
<1>10. QED
  BY <1>1, <1>2, <1>5, <1>7, <1>8, <1>9, CourseCommitted

-----------------------------------------------------------------------------
(* A page's dialog and its request's start, retry and refusal.             *)
LEMMA PagesKeep ==
  ASSUME Inv, NEW a \in Admins,
         \/ \E op \in Operations, on \in Students \cup Chapters : Open(a, op, on)
         \/ Begin(a) \/ Conflict(a) \/ Refuse(a)
  PROVE  Inv'
<1>1. UNCHANGED <<rows, signed, notes, active, saved, held>>
  BY DEF Open, Begin, Conflict, Refuse, file
<1>2. Typed' /\ RowsSound' /\ HeldTold' /\ PledgeLimit'
  BY <1>1 DEF Inv, Typed, RowsSound, HeldTold, PledgeLimit
<1>3. DeskOK'
  <2>1. ASSUME NEW op \in Operations, NEW on \in Students \cup Chapters, Open(a, op, on)
        PROVE  DeskOK'
    <3>1. 0 \in 0..MaxAttempts /\ 0 < MaxAttempts
      BY Assumption DEF Assumption
    <3>2. on \in IF op \in ChapterOps THEN Chapters ELSE Students
      BY <2>1 DEF Open
    <3>3. QED
      BY <2>1, <3>1, <3>2 DEF Open, Inv, DeskOK
  <2>2. ASSUME Begin(a) PROVE DeskOK'
    <3>1. /\ desk[a].stage = "open" /\ desk[a].op \in Operations
          /\ desk[a].on \in IF desk[a].op \in ChapterOps THEN Chapters ELSE Students
          /\ desk[a].attempt + 1 \in 0..MaxAttempts
      BY <2>2, Assumption DEF Begin, Inv, DeskOK, Idle, Assumption
    <3>2. QED
      BY <2>2, <3>1 DEF Begin, Inv, DeskOK
  <2>3. ASSUME Conflict(a) PROVE DeskOK'
    <3>1. CASE desk[a].attempt = MaxAttempts
      BY <2>3, <3>1, DeskEnds DEF Conflict
    <3>2. CASE desk[a].attempt # MaxAttempts
      <4>1. /\ desk[a].op \in Operations
            /\ desk[a].on \in IF desk[a].op \in ChapterOps THEN Chapters ELSE Students
            /\ desk[a].attempt \in 0..MaxAttempts /\ desk[a].attempt < MaxAttempts
        BY <2>3, <3>2, Assumption DEF Conflict, Running, Inv, DeskOK, Idle, Assumption
      <4>2. QED
        BY <2>3, <3>2, <4>1 DEF Conflict, Inv, DeskOK
    <3>3. QED
      BY <3>1, <3>2
  <2>4. ASSUME Refuse(a) PROVE DeskOK'
    BY <2>4, DeskEnds DEF Refuse
  <2>5. QED
    BY <2>1, <2>2, <2>3, <2>4
<1>4. QED
  BY <1>2, <1>3 DEF Inv

LEMMA InitInv == Init => Inv
<1> SUFFICES ASSUME Init PROVE Inv
  OBVIOUS
<1>1. PICK chapter \in Chapters :
        /\ active = chapter
        /\ rows \in [Students ->
             {[status |-> "active", reason |-> NoReason, word |-> FALSE,
               balance |-> Limits[chapter], base |-> Limits[chapter]],
              [status |-> "dismissed", reason |-> "hand", word |-> FALSE,
               balance |-> 0, base |-> Limits[chapter]]}]
        /\ signed \in [Students -> {n \in [Chapters -> 0..PledgeMax] :
                         \A c \in Chapters : n[c] > 0 => c = chapter /\ Limits[c] >= Grant}]
        /\ notes = [s \in Students |-> 0]
        /\ saved = [c \in Chapters |-> [s \in Students |-> NoBalance]]
        /\ desk = [a \in Admins |-> Idle]
        /\ held = [s \in Students |-> Nothing]
  BY DEF Init
<1>2. Limits[chapter] \in Nat /\ PledgeMax \in Nat
  BY Assumption DEF Assumption
<1>3. \A s \in Students : rows[s] \in Row /\ rows[s].status # "archived" /\ Sound(rows[s])
  <2> TAKE s \in Students
  <2> DEFINE r == rows[s]
  <2>1. \/ r = [status |-> "active", reason |-> NoReason, word |-> FALSE,
               balance |-> Limits[chapter], base |-> Limits[chapter]]
        \/ r = [status |-> "dismissed", reason |-> "hand", word |-> FALSE,
               balance |-> 0, base |-> Limits[chapter]]
    BY <1>1
  <2> HIDE DEF r
  <2>2. r \in Row
    <3>1. r \in [status : {"active", "dismissed"}, reason : {"hand", NoReason}, balance : Nat,
                 base : Nat, word : BOOLEAN]
      <4> DEFINE n == Limits[chapter]
      <4>1. n \in Nat
        BY <1>2
      <4> HIDE DEF n
      <4>2. CASE r = [status |-> "active", reason |-> NoReason, word |-> FALSE,
                      balance |-> n, base |-> n]
        BY <4>1, <4>2
      <4>3. CASE r = [status |-> "dismissed", reason |-> "hand", word |-> FALSE,
                      balance |-> 0, base |-> n]
        BY <4>1, <4>3
      <4>4. QED
        BY <2>1, <4>2, <4>3 DEF n
    <3>2. QED
      BY <3>1 DEF Row, Reasons
  <2>3. r.status # "archived" /\ Sound(r)
    BY <2>1 DEF Sound, Reasons
  <2>4. QED
    BY <2>2, <2>3 DEF r
<1>4. rows \in [Students -> Row]
  BY <1>1, <1>3
<1>5. signed \in [Students -> [Chapters -> 0..PledgeMax]]
  BY <1>1
<1>6. Typed
  BY <1>1, <1>4, <1>5 DEF Typed
<1>7. DeskOK
  BY <1>1 DEF DeskOK
<1>8. PledgeLimit
  BY <1>2, <1>5 DEF PledgeLimit
<1>9. QED
  BY <1>1, <1>3, <1>6, <1>7, <1>8 DEF Inv, RowsSound, HeldTold

LEMMA NextInv == Inv /\ [Next]_vars => Inv'
<1> SUFFICES ASSUME Inv, [Next]_vars PROVE Inv'
  OBVIOUS
<1>1. ASSUME Next PROVE Inv'
  <2>1. PICK a \in Admins :
          \/ \E op \in Operations, on \in Students \cup Chapters : Open(a, op, on)
          \/ Begin(a) \/ Conflict(a) \/ Refuse(a)
          \/ Dismiss(a) \/ Pledge(a) \/ Manual(a) \/ Restore(a) \/ Archive(a)
          \/ Withdraw(a) \/ Unwithdraw(a) \/ Reenrol(a) \/ Grade(a)
          \/ Activate(a) \/ Deactivate(a) \/ Transition(a)
    BY <1>1 DEF Next
  <2>2. QED
    BY <2>1, PagesKeep, DismissKeeps, PledgeKeeps, ManualKeeps, RestoreKeeps, ShelvesKeep,
       UnwithdrawKeeps, ReenrolKeeps, GradeKeeps, ActivateKeeps, DeactivateKeeps,
       TransitionKeeps
<1>2. ASSUME UNCHANGED vars PROVE Inv'
  BY <1>2 DEF vars, Inv, Typed, DeskOK, RowsSound, HeldTold, PledgeLimit
<1>3. QED
  BY <1>1, <1>2

(* Every reachable state has sound rows, and a withdrawn student's row     *)
(* tells what they were: the invariant the properties follow from.         *)
THEOREM LifecycleInvariant == Spec => []Inv
  BY InitInv, NextInv, PTL DEF Spec

(* The transition's marker is there or not.                                *)
LEMMA MarkerInvariant == Spec => [](moved \in BOOLEAN)
<1>1. Init => moved \in BOOLEAN
  BY DEF Init
<1>2. moved \in BOOLEAN /\ [Next]_vars => (moved \in BOOLEAN)'
  <2> SUFFICES ASSUME moved \in BOOLEAN, [Next]_vars PROVE moved' \in BOOLEAN
    OBVIOUS
  <2>1. CASE UNCHANGED vars
    BY <2>1 DEF vars
  <2>2. ASSUME NEW a \in Admins,
               \/ \E op \in Operations, on \in Students \cup Chapters : Open(a, op, on)
               \/ Begin(a) \/ Conflict(a) \/ Refuse(a)
        PROVE  moved' = moved
    BY <2>2 DEF Open, Begin, Conflict, Refuse, file
  <2>3. ASSUME NEW a \in Admins,
               \/ Dismiss(a) \/ Pledge(a) \/ Manual(a) \/ Restore(a) \/ Archive(a)
               \/ Withdraw(a) \/ Unwithdraw(a) \/ Reenrol(a) \/ Grade(a)
               \/ Activate(a) \/ Deactivate(a) \/ Transition(a)
        PROVE  moved' \in BOOLEAN
    <3>1. PICK op : Commit(a, op)
      BY <2>3 DEF Dismiss, Pledge, Manual, Restore, Archive, Withdraw, Unwithdraw, Reenrol,
         Grade, Activate, Deactivate, Transition
    <3>2. QED
      BY <3>1 DEF Commit
  <2>4. QED
    BY <2>1, <2>2, <2>3 DEF Next
<1>3. QED
  BY <1>1, <1>2, PTL DEF Spec

(* The types, and that a dismissed or archived student has no balance.     *)
THEOREM TypeCorrect == Spec => []TypeOK
<1>1. ASSUME Inv, moved \in BOOLEAN PROVE TypeOK
  <2>1. ASSUME NEW a \in Admins, desk[a] # Idle
        PROVE  /\ desk[a].stage \in {"open", "running"}
               /\ desk[a].op \in Operations
               /\ desk[a].on \in Students \cup Chapters
               /\ desk[a].attempt \in 0..MaxAttempts
    BY <1>1, <2>1 DEF Inv, DeskOK
  <2>2. QED
    BY <1>1, <2>1 DEF Inv, Typed, RowsSound, Sound, TypeOK
<1>2. QED
  BY <1>1, LifecycleInvariant, MarkerInvariant, PTL

(* No student signs more than PledgeMax pledges in a chapter, however many *)
(* administrators return the same student at once.                         *)
THEOREM AtMostTwoPledges == Spec => []PledgeLimit
<1>1. Inv => PledgeLimit
  BY DEF Inv
<1>2. QED
  BY <1>1, LifecycleInvariant, PTL

-----------------------------------------------------------------------------
(* The count of commits is a number, so a commit changes it.               *)
LEMMA CountedInvariant == Spec => [](commits \in Nat)
<1>1. Init => commits \in Nat
  BY DEF Init
<1>2. commits \in Nat /\ [Next]_vars => (commits \in Nat)'
  <2> SUFFICES ASSUME commits \in Nat, [Next]_vars PROVE commits' \in Nat
    OBVIOUS
  <2>1. CASE UNCHANGED vars
    BY <2>1 DEF vars
  <2>2. ASSUME NEW a \in Admins,
               \/ \E op \in Operations, on \in Students \cup Chapters : Open(a, op, on)
               \/ Begin(a) \/ Conflict(a) \/ Refuse(a)
        PROVE  commits' = commits
    BY <2>2 DEF Open, Begin, Conflict, Refuse
  <2>3. ASSUME NEW a \in Admins,
               \/ Dismiss(a) \/ Pledge(a) \/ Manual(a) \/ Restore(a) \/ Archive(a)
               \/ Withdraw(a) \/ Unwithdraw(a) \/ Reenrol(a) \/ Grade(a)
               \/ Activate(a) \/ Deactivate(a) \/ Transition(a)
        PROVE  commits' = commits + 1
    <3>1. PICK op : Commit(a, op)
      BY <2>3 DEF Dismiss, Pledge, Manual, Restore, Archive, Withdraw, Unwithdraw, Reenrol,
         Grade, Activate, Deactivate, Transition
    <3>2. QED
      BY <3>1 DEF Commit
  <2>4. QED
    BY <2>1, <2>2, <2>3 DEF Next
<1>3. QED
  BY <1>1, <1>2, PTL DEF Spec

(* A commit of page a is the commit of an operation by page a.             *)
LEMMA CommitIsOperation ==
  ASSUME Inv, Next, NEW a \in Admins, Commits(a)
  PROVE  \/ Dismiss(a) \/ Pledge(a) \/ Manual(a) \/ Restore(a) \/ Archive(a)
         \/ Withdraw(a) \/ Unwithdraw(a) \/ Reenrol(a) \/ Grade(a)
         \/ Activate(a) \/ Deactivate(a) \/ Transition(a)
<1>1. PICK b \in Admins :
          \/ \E op \in Operations, on \in Students \cup Chapters : Open(b, op, on)
          \/ Begin(b) \/ Conflict(b) \/ Refuse(b)
          \/ Dismiss(b) \/ Pledge(b) \/ Manual(b) \/ Restore(b) \/ Archive(b)
          \/ Withdraw(b) \/ Unwithdraw(b) \/ Reenrol(b) \/ Grade(b)
          \/ Activate(b) \/ Deactivate(b) \/ Transition(b)
  BY DEF Next
<1>2. commits' # commits
  BY DEF Commits
<1>3. /\ \A op \in Operations, on \in Students \cup Chapters : ~Open(b, op, on)
      /\ ~Begin(b) /\ ~Conflict(b) /\ ~Refuse(b)
  BY <1>2 DEF Open, Begin, Conflict, Refuse
<1>4. desk' = [desk EXCEPT ![b] = Idle]
  BY <1>1, <1>3 DEF Dismiss, Pledge, Manual, Restore, Archive, Withdraw, Unwithdraw, Reenrol,
     Grade, Activate, Deactivate, Transition, Commit
<1>5. a = b
  <2>1. desk'[a] # desk[a]
    BY DEF Commits, Idle
  <2>2. QED
    BY <1>4, <2>1 DEF Inv, DeskOK
<1>6. QED
  BY <1>1, <1>3, <1>5

(* Whatever a request commits, it commits over what its dialog showed,     *)
(* after any number of conflicts and fresh reads.                          *)
THEOREM OnlyWhatWasShown == Spec => SeenStateOnly
<1>1. ASSUME Inv, Next, NEW a \in Admins, Commits(a)
      PROVE  desk[a].seen = Shown(desk[a].op, desk[a].on)
  <2>1. Permitted(a) /\ Serialized(a)
    BY <1>1, CommitIsOperation DEF Dismiss, Pledge, Manual, Restore, Archive, Withdraw,
       Unwithdraw, Reenrol, Grade, Activate, Deactivate, Transition, Commit
  <2>2. desk[a].seen = desk[a].read.shown
    BY <2>1 DEF Permitted, AsShown
  <2>3. desk[a].read.shown = Shown(desk[a].op, desk[a].on)
    BY <2>1 DEF Serialized, Facts
  <2>4. QED
    BY <2>2, <2>3
<1>2. Inv /\ [Next]_vars =>
        [\A a \in Admins : Commits(a) => desk[a].seen = Shown(desk[a].op, desk[a].on)]_vars
  BY <1>1
<1>3. QED
  BY <1>2, LifecycleInvariant, PTL DEF Spec, SeenStateOnly

(* A step of page a over another student, or over an unarchived one,       *)
(* leaves an archived student's row and pledges.                           *)
LEMMA ArchivedStays ==
  ASSUME Inv, NEW a \in Admins, NEW s \in Students, rows[s].status = "archived",
         \/ Dismiss(a) \/ Pledge(a) \/ Manual(a) \/ Restore(a) \/ Archive(a)
         \/ Withdraw(a) \/ Unwithdraw(a) \/ Reenrol(a) \/ Grade(a)
         \/ Activate(a) \/ Deactivate(a) \/ Transition(a),
         ~(desk[a].on = s /\ desk[a].op = IF rows[s].word THEN "unwithdraw" ELSE "restore")
  PROVE  rows'[s] = rows[s] /\ signed'[s] = signed[s]
<1>1. CASE \/ Dismiss(a) \/ Pledge(a) \/ Manual(a) \/ Archive(a) \/ Withdraw(a) \/ Reenrol(a)
  <2>1. PICK op \in {"dismiss", "pledge", "manual", "archive", "withdraw", "reenrol"} :
          Commit(a, op)
    BY <1>1 DEF Dismiss, Pledge, Manual, Archive, Withdraw, Reenrol
  <2>2. desk[a].on \in Students /\ desk[a].read.rows[desk[a].on] = rows[desk[a].on]
        /\ desk[a].op = op
    BY <2>1, CommitsOverFile DEF Operations, RowOps, FreeOps, ChapterOps
  <2>3. rows[desk[a].on].status # "archived"
    <3>1. Permitted(a)
      BY <2>1 DEF Commit
    <3>2. QED
      BY <2>2, <3>1 DEF Permitted
  <2>4. QED
    BY <1>1, <2>2, <2>3 DEF Dismiss, Pledge, Manual, Archive, Withdraw, Reenrol, Writes,
       Inv, Typed
<1>2. CASE Restore(a)
  <2>1. /\ desk[a].on \in Students /\ desk[a].read.rows[desk[a].on] = rows[desk[a].on]
        /\ desk[a].op = "restore"
    BY <1>2, CommitsOverFile DEF Restore, Operations, RowOps, ChapterOps
  <2>2. ~rows[desk[a].on].word
    BY <1>2, <2>1 DEF Restore, Commit, Permitted
  <2>3. desk[a].on # s
    BY <2>1, <2>2
  <2>4. QED
    BY <1>2, <2>3 DEF Restore, Writes, Inv, Typed
<1>3. CASE Unwithdraw(a)
  <2>1. /\ desk[a].on \in Students /\ desk[a].read.rows[desk[a].on] = rows[desk[a].on]
        /\ desk[a].op = "unwithdraw"
    BY <1>3, CommitsOverFile DEF Unwithdraw, Operations, FreeOps, RowOps, ChapterOps
  <2>2. rows[desk[a].on].word
    BY <1>3, <2>1 DEF Unwithdraw, Commit, Permitted
  <2>3. desk[a].on # s
    BY <2>1, <2>2
  <2>4. QED
    BY <1>3, <2>3 DEF Unwithdraw, Writes, Inv, Typed
<1>4. CASE Grade(a)
  <2>1. desk[a].on \in Students /\ desk[a].read.rows[desk[a].on] = rows[desk[a].on]
    BY <1>4, CommitsOverFile DEF Grade, Operations, FreeOps, RowOps, ChapterOps
  <2>2. PICK row \in Replays(rows[desk[a].on], desk[a].read.active) : Writes(desk[a].on, row)
    BY <1>4, <2>1 DEF Grade
  <2>3. desk[a].on = s => row = rows[s]
    BY <2>2 DEF Replays
  <2>4. QED
    BY <1>4, <2>1, <2>2, <2>3 DEF Grade, Writes, Inv, Typed
<1>5. CASE Deactivate(a)
  <2>1. desk[a].read.rows = rows
    BY <1>5, CommitsOverCourse DEF Deactivate, ChapterOps
  <2>2. QED
    BY <1>5, <2>1 DEF Deactivate, Closed
<1>6. CASE Activate(a)
  <2>1. desk[a].read.rows = rows
    BY <1>6, CommitsOverCourse DEF Activate, ChapterOps
  <2> DEFINE c == desk[a].on
             opened == [t \in Students |-> Opened(rows[t], desk[a].read.saved[c][t], Limits[c])]
  <2>2. opened[s] = rows[s] /\ opened[s].status # "active"
    BY DEF Opened
  <2>3. rows' = opened \/ rows'[s] = opened[s]
    BY <1>6, <2>1, <2>2 DEF Activate
  <2>4. QED
    BY <1>6, <2>2, <2>3 DEF Activate
<1>7. CASE Transition(a)
  <2>1. desk[a].read.rows = rows
    BY <1>7, CommitsOverCourse DEF Transition, ChapterOps
  <2>2. QED
    BY <1>7, <2>1 DEF Transition, Renewed
<1>8. QED
  BY <1>1, <1>2, <1>3, <1>4, <1>5, <1>6, <1>7

(* An archived student's row and pledges change only by the operation that *)
(* brings the student back: a restoration, or, with the word in the name,  *)
(* the cancelled withdrawal.                                               *)
THEOREM ArchiveIsLeftByReturn == Spec => ArchivedUntouched
<1>1. ASSUME Inv, commits \in Nat, Next, NEW s \in Students, rows[s].status = "archived",
             <<rows[s], signed[s]>>' # <<rows[s], signed[s]>>
      PROVE  \E a \in Admins : /\ Commits(a) /\ desk[a].on = s
                               /\ desk[a].op = IF rows[s].word THEN "unwithdraw" ELSE "restore"
  <2>1. PICK a \in Admins :
          \/ \E op \in Operations, on \in Students \cup Chapters : Open(a, op, on)
          \/ Begin(a) \/ Conflict(a) \/ Refuse(a)
          \/ Dismiss(a) \/ Pledge(a) \/ Manual(a) \/ Restore(a) \/ Archive(a)
          \/ Withdraw(a) \/ Unwithdraw(a) \/ Reenrol(a) \/ Grade(a)
          \/ Activate(a) \/ Deactivate(a) \/ Transition(a)
    BY <1>1 DEF Next
  <2>2. /\ \A op \in Operations, on \in Students \cup Chapters : ~Open(a, op, on)
        /\ ~Begin(a) /\ ~Conflict(a) /\ ~Refuse(a)
    BY <1>1 DEF Open, Begin, Conflict, Refuse, file
  <2>3. desk[a].on = s /\ desk[a].op = IF rows[s].word THEN "unwithdraw" ELSE "restore"
    BY <1>1, <2>1, <2>2, ArchivedStays
  <2>4. desk[a].stage = "running" /\ desk' = [desk EXCEPT ![a] = Idle] /\ commits' = commits + 1
    BY <2>1, <2>2 DEF Dismiss, Pledge, Manual, Restore, Archive, Withdraw, Unwithdraw, Reenrol,
       Grade, Activate, Deactivate, Transition, Commit, Running
  <2>5. Commits(a)
    BY <1>1, <2>4 DEF Commits, Inv, DeskOK
  <2>6. QED
    BY <2>3, <2>5
<1>2. Inv /\ commits \in Nat /\ [Next]_vars =>
        [\A s \in Students : rows[s].status = "archived"
             /\ <<rows[s], signed[s]>>' # <<rows[s], signed[s]>> =>
           \E a \in Admins : /\ Commits(a) /\ desk[a].on = s
                             /\ desk[a].op = IF rows[s].word THEN "unwithdraw"
                                             ELSE "restore"]_vars
  BY <1>1
<1>3. QED
  BY <1>2, LifecycleInvariant, CountedInvariant, PTL DEF Spec, ArchivedUntouched

(* A cancelled withdrawal starts from the status and the reason the        *)
(* student had when archived, though the code remembers neither.           *)
THEOREM WithdrawalIsReversed == Spec => WithdrawalReversed
<1> DEFINE Undone(s) ==
      LET before == [rows[s] EXCEPT !.reason = held[s].reason]
      IN rows'[s] \in Replays([Restored(before, held[s].status, LimitOf(active))
                                 EXCEPT !.word = FALSE], active)
<1>1. ASSUME Inv, Next, NEW s \in Students, NEW a \in Admins, Commits(a), desk[a].on = s,
             desk[a].op = "unwithdraw"
      PROVE  Undone(s)
  <2>1. Unwithdraw(a)
    BY <1>1, CommitIsOperation DEF Dismiss, Pledge, Manual, Restore, Archive, Withdraw,
       Reenrol, Grade, Activate, Deactivate, Transition, Commit
  <2>2. desk[a].read.rows[s] = rows[s] /\ desk[a].read.active = active
    BY <1>1, <2>1, CommitsOverFile DEF Unwithdraw, Operations, FreeOps, RowOps, ChapterOps
  <2>3. rows[s].status = "archived"
    BY <1>1, <2>1, <2>2 DEF Unwithdraw, Commit, Permitted
  <2>4. held[s].reason = rows[s].reason /\ held[s].status = StatusBefore(rows[s])
    BY <1>1, <2>3 DEF Inv, HeldTold
  <2>5. [rows[s] EXCEPT !.reason = held[s].reason] = rows[s]
    BY <1>1, <2>4 DEF Inv, Typed, Row
  <2>6. PICK after \in Replays([Restored(rows[s], StatusBefore(rows[s]), LimitOf(active))
                                  EXCEPT !.word = FALSE], active) : Writes(s, after)
    BY <1>1, <2>1, <2>2 DEF Unwithdraw
  <2>7. rows'[s] = after
    BY <1>1, <2>6 DEF Writes, Inv, Typed
  <2>8. QED
    BY <2>4, <2>5, <2>6, <2>7
<1>2. Inv /\ [Next]_vars =>
        [\A s \in Students, a \in Admins :
           Commits(a) /\ desk[a].on = s /\ desk[a].op = "unwithdraw" => Undone(s)]_vars
  BY <1>1
<1>3. QED
  BY <1>2, LifecycleInvariant, PTL DEF Spec, WithdrawalReversed

(* The transition is carried out once: a page that previewed it earlier    *)
(* read no marker, and neither may what it commits over.                   *)
THEOREM TransitionIsNotRepeated == Spec => TransitionOnce
<1>1. ASSUME Inv, Next, moved, NEW a \in Admins, Commits(a), desk[a].op = "transition"
      PROVE  FALSE
  <2>1. Permitted(a) /\ Serialized(a)
    BY <1>1, CommitIsOperation DEF Dismiss, Pledge, Manual, Restore, Archive, Withdraw,
       Unwithdraw, Reenrol, Grade, Activate, Deactivate, Transition, Commit
  <2>2. ~desk[a].read.shown.moved
    BY <1>1, <2>1 DEF Permitted
  <2>3. desk[a].read.shown = Shown("transition", desk[a].on)
    BY <1>1, <2>1 DEF Serialized, Facts
  <2>4. Shown("transition", desk[a].on).moved = moved
    BY DEF Shown, RowOps
  <2>5. QED
    BY <1>1, <2>2, <2>3, <2>4
<1>2. Inv /\ [Next]_vars =>
        [moved => ~\E a \in Admins : Commits(a) /\ desk[a].op = "transition"]_vars
  BY <1>1
<1>3. QED
  BY <1>2, LifecycleInvariant, PTL DEF Spec, TransitionOnce
=============================================================================
