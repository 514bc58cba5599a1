--------------------------- MODULE StudentLifecycle ---------------------------
(***************************************************************************)
(* The states of the students of one course: dismissal, the returns by     *)
(* pledge and with chosen opportunities, archiving, withdrawal and their   *)
(* reversals, a new enrolment, a change of grades, the opening and closing *)
(* of the course's chapter, and the one transition to the second chapter.  *)
(*                                                                         *)
(* Each is one request.  A dialog is opened over what the page shows, the  *)
(* request starts a serializable transaction that reads what it needs, and *)
(* the transaction commits or is refused.  PostgreSQL aborts it when what  *)
(* it read has changed: it is then run again, with the request's arguments *)
(* and a fresh read, a bounded number of times.  (An abort without such a  *)
(* reason is left out: what follows it may follow without it.)             *)
(***************************************************************************)
EXTENDS Naturals, Functions

CONSTANTS
  Students, Chapters,
  Second,        \* the chapter of the transition, its limit TARGET_OPPORTUNITIES
  NoChapter,     \* the course has no active chapter
  NoBalance,     \* a chapter kept no balance of a student
  Limits,        \* the opportunities each chapter grants
  PledgeMax,     \* PLEDGE_LIMIT_PER_CHAPTER
  Grant,         \* REACTIVATION_OPPORTUNITY_GRANT
  Admins,        \* the administrators' pages
  Offered,       \* the operations the pages offer
  MaxAttempts,   \* withSerializableTransaction's maxAttempts
  MaxCommits     \* bound: the requests that change something

RowOps == {"dismiss", "restore", "pledge", "manual", "reenrol"}
FreeOps == {"withdraw", "unwithdraw", "grade"}
ChapterOps == {"activate", "deactivate", "transition"}
Operations == RowOps \cup FreeOps \cup ChapterOps \cup {"archive"}

ASSUME Assumption ==
  /\ NoChapter \notin Chapters /\ Second \in Chapters
  /\ Chapters \cap Students = {}
  /\ Limits \in [Chapters -> Nat]
  /\ PledgeMax \in Nat /\ MaxCommits \in Nat
  /\ Grant \in Nat \ {0}
  /\ MaxAttempts \in Nat \ {0}
  /\ Offered \subseteq Operations

VARIABLES
  rows,      \* the Student rows
  signed,    \* the pledge rows of each student's ledger, per chapter
  notes,     \* how many rows each student's file has
  active,    \* the course's active chapter
  saved,     \* the balances CourseChapter.archive keeps of a closed chapter
  moved,     \* the transition's marker in the audit log
  desk,      \* each page's dialog and the request it sent
  held,      \* history: an archived student's status and reason of before
  commits    \* history: the requests that changed something

vars == <<rows, signed, notes, active, saved, moved, desk, held, commits>>
file == <<rows, signed, notes, active, saved, moved>>

NoReason == "none"
Reasons == {"hand", "rule"}
Row == [status : {"active", "dismissed", "archived"}, reason : Reasons \cup {NoReason},
        balance : Nat, base : Nat, word : BOOLEAN]
Idle == [stage |-> "idle"]
Nothing == [status |-> "none", reason |-> NoReason]

TypeOK ==
  /\ rows \in [Students -> Row]
  /\ signed \in [Students -> [Chapters -> Nat]]
  /\ notes \in [Students -> Nat]
  /\ active \in Chapters \cup {NoChapter}
  /\ saved \in [Chapters -> [Students -> Nat \cup {NoBalance}]] /\ moved \in BOOLEAN
  /\ \A a \in Admins : desk[a] = Idle \/
       /\ desk[a].stage \in {"open", "running"}
       /\ desk[a].op \in Operations
       /\ desk[a].on \in Students \cup Chapters
       /\ desk[a].attempt \in 0..MaxAttempts
  /\ \A s \in Students : rows[s].status \in {"dismissed", "archived"} => rows[s].balance = 0

-----------------------------------------------------------------------------
(* The row of the same student with these fields. *)
Become(row, status, reason, balance, base) ==
  [status |-> status, reason |-> reason, balance |-> balance, base |-> base,
   word |-> row.word]

(* Faulty variants of operators below. *)
ReadCommitted(a) == TRUE
TokenOfFirstAttempt(a) == desk[a].attempt > 1 \/ desk[a].seen = desk[a].read.shown
OpenedForAll(row, kept, limit) == Become(row, row.status, row.reason, limit, limit)
ReasonStays(row, amount, limit) == Become(row, "active", row.reason, amount, limit)
BalanceKept(row) == Become(row, "archived", row.reason, row.balance, row.base)
-----------------------------------------------------------------------------
(* getActiveChapterForCourse: the database allows one active chapter. *)
LimitOf(chapter) == IF chapter = NoChapter THEN 0 ELSE Limits[chapter]

(* What a replay of the student's file may leave of a row: an archived     *)
(* student is skipped, and without a chapter nothing is replayed.  An      *)
(* active student keeps a balance or is dismissed by a rule; a dismissed   *)
(* one stays dismissed, by a rule perhaps, except that a bonus undoes a    *)
(* rule's dismissal.                                                       *)
Replays(row, chapter) ==
  LET limit == LimitOf(chapter)
      returned == {Become(row, "active", NoReason, n, limit) : n \in 0..limit}
      dismissed(why) == Become(row, "dismissed", why, 0, limit)
  IN CASE row.status = "archived" \/ chapter = NoChapter -> {row}
       [] row.status = "active" -> returned \cup {dismissed("rule")}
       [] row.status = "dismissed" /\ row.reason = "hand" ->
            {dismissed("hand"), dismissed("rule")}
       [] OTHER -> {dismissed("rule")} \cup {r \in returned : r.balance > 0}

(* A chapter's opening: an active student gets the balance the chapter     *)
(* kept, at most its limit, or the limit; a dismissed one gets the limit   *)
(* to count against; an archived one is left alone.                        *)
Opened(row, kept, limit) ==
  CASE row.status = "archived" -> row
    [] row.status = "dismissed" -> [row EXCEPT !.base = limit]
    [] OTHER -> Become(row, row.status, row.reason,
                       IF kept = NoBalance \/ kept > limit THEN limit ELSE kept, limit)

Closed(row) ==
  IF row.status = "archived" THEN row ELSE Become(row, row.status, row.reason, 0, 0)

(* The transition starts every active student anew; the others stay. *)
Renewed(row, limit) ==
  IF row.status = "active" THEN Become(row, row.status, row.reason, limit, limit) ELSE row

(* statusBeforeWithdrawal *)
StatusBefore(row) == IF row.reason = NoReason THEN "active" ELSE "dismissed"

(* restoreArchivedStudentInTransaction, before the replay. *)
Restored(row, status, limit) ==
  IF status = "dismissed"
  THEN Become(row, "dismissed", row.reason, 0, limit)
  ELSE Become(row, "active", NoReason, limit, limit)

(* The row as «أرشفة» and «انسحاب» leave it: the reason stays. *)
Shelved(row) == Become(row, "archived", row.reason, 0, 0)

-----------------------------------------------------------------------------
(* What the page's token fingerprints of what it shows: the Student row, or *)
(* with it the size of the student's file, or the chapter and the balances *)
(* of its students, or the whole course.  Withdrawal, its reversal and a   *)
(* grade carry none.                                                       *)
Shown(op, on) ==
  CASE op \in RowOps -> rows[on]
    [] op = "archive" -> <<rows[on], signed[on], notes[on]>>
    [] op = "transition" ->
         [moved |-> moved, active |-> active, saved |-> saved,
          rows |-> [s \in Students |-> [rows[s] EXCEPT !.word = FALSE]]]
    [] op \in {"activate", "deactivate"} ->
         <<active, saved[on],
           [s \in Students |-> <<rows[s].status, rows[s].balance, rows[s].base>>]>>
    [] OTHER -> <<>>

(* What the transaction of an operation reads. *)
Facts(op, on) ==
  LET S == IF op \in ChapterOps THEN Students ELSE {on}
  IN [shown |-> Shown(op, on), rows |-> Restrict(rows, S), signed |-> Restrict(signed, S),
      active |-> active, saved |-> IF op \in ChapterOps THEN saved ELSE <<>>]

(* A page shows a student or a chapter and its user opens a dialog. *)
Open(a, op, on) ==
  /\ desk[a] = Idle /\ commits < MaxCommits
  /\ op \in Offered
  /\ IF op \in ChapterOps THEN on \in Chapters ELSE on \in Students
  /\ op = "transition" => on = Second
  /\ desk' = [desk EXCEPT ![a] = [stage |-> "open", op |-> op, on |-> on, attempt |-> 0,
                                  seen |-> Shown(op, on)]]
  /\ UNCHANGED <<file, held, commits>>

(* The request's transaction takes its snapshot. *)
Begin(a) ==
  /\ desk[a].stage = "open" /\ commits < MaxCommits
  /\ desk' = [desk EXCEPT ![a] = [stage |-> "running", op |-> desk[a].op, on |-> desk[a].on,
                                  attempt |-> desk[a].attempt + 1, seen |-> desk[a].seen,
                                  read |-> Facts(desk[a].op, desk[a].on)]]
  /\ UNCHANGED <<file, held, commits>>

(* A request that is being served, within the bound. *)
Running(a) == desk[a].stage = "running" /\ commits < MaxCommits

(* A commit at SERIALIZABLE: nothing that was read has changed. *)
Serialized(a) == desk[a].read = Facts(desk[a].op, desk[a].on)

(* A serialization failure: the operation is run again, or given up. *)
Conflict(a) ==
  /\ Running(a)
  /\ ~Serialized(a)
  /\ desk' = [desk EXCEPT ![a] =
       IF desk[a].attempt = MaxAttempts THEN Idle
       ELSE [stage |-> "open", op |-> desk[a].op, on |-> desk[a].on,
             attempt |-> desk[a].attempt, seen |-> desk[a].seen]]
  /\ UNCHANGED <<file, held, commits>>

(* assertExpectedStudentSnapshot and the preview tokens. *)
AsShown(a) == desk[a].seen = desk[a].read.shown

(* assertPledgeLimitNotReached *)
PledgesLeft(read, s) == read.active # NoChapter => read.signed[s][read.active] < PledgeMax

(* The refusals of each operation, over what it read. *)
Permitted(a) ==
  LET op == desk[a].op   read == desk[a].read   on == desk[a].on
      limit == LimitOf(read.active)
      is(status) == read.rows[on].status = status
  IN /\ AsShown(a)
     /\ CASE op = "dismiss" -> is("active")
          [] op = "restore" -> is("archived") /\ ~read.rows[on].word /\ limit > 0
          [] op = "pledge" -> is("dismissed") /\ PledgesLeft(read, on) /\ limit >= Grant
          [] op = "manual" -> is("dismissed") /\ PledgesLeft(read, on) /\ limit > 0
          [] op = "archive" -> ~is("archived")
          [] op = "withdraw" -> ~is("archived")
          [] op = "unwithdraw" -> is("archived") /\ read.rows[on].word /\ limit > 0
          [] op = "reenrol" -> ~is("archived") /\ limit > 0
          [] op = "deactivate" -> read.active = on
          [] op = "transition" -> ~read.shown.moved
          [] OTHER -> TRUE

(* An answer that changes nothing. *)
Refuse(a) ==
  /\ Running(a)
  /\ ~Permitted(a)
  /\ desk' = [desk EXCEPT ![a] = Idle]
  /\ UNCHANGED <<file, held, commits>>

(* What every commit has in common; the transition's leaves its marker. *)
Commit(a, op) ==
  /\ Running(a) /\ desk[a].op = op
  /\ Serialized(a)
  /\ Permitted(a)
  /\ commits' = commits + 1 /\ moved' = (moved \/ op = "transition")
  /\ desk' = [desk EXCEPT ![a] = Idle]

(* The commit writes the student's row and one more row of the file. *)
Writes(s, row) ==
  /\ rows' = [rows EXCEPT ![s] = row]
  /\ notes' = [notes EXCEPT ![s] = @ + 1]
  /\ UNCHANGED <<active, saved>>

Dismiss(a) ==
  LET s == desk[a].on   row == desk[a].read.rows[s] IN
  /\ Commit(a, "dismiss")
  /\ Writes(s, Become(row, "dismissed", "hand", 0, row.base))
  /\ UNCHANGED <<signed, held>>

(* «التعهد»: two opportunities, and a ledger row that counts. *)
Pledge(a) ==
  LET s == desk[a].on   row == desk[a].read.rows[s] IN
  /\ Commit(a, "pledge")
  /\ Writes(s, Become(row, "active", NoReason, Grant, row.base))
  /\ signed' = [signed EXCEPT ![s][desk[a].read.active] = @ + 1]
  /\ UNCHANGED held

(* restoreDismissedStudentManually: a return with chosen opportunities. *)
Returned(row, amount, limit) ==
  Become(row, "active", NoReason, amount, limit)

Manual(a) ==
  LET s == desk[a].on   limit == LimitOf(desk[a].read.active) IN
  /\ Commit(a, "manual")
  /\ \E amount \in 1..limit : Writes(s, Returned(desk[a].read.rows[s], amount, limit))
  /\ UNCHANGED <<signed, held>>

Archive(a) ==
  LET s == desk[a].on   row == desk[a].read.rows[s] IN
  /\ Commit(a, "archive")
  /\ Writes(s, Shelved(row))
  /\ held' = [held EXCEPT ![s] = [status |-> row.status, reason |-> row.reason]]
  /\ UNCHANGED signed

(* «انسحاب»: the word joins the name, once, and the student is archived. *)
Withdraw(a) ==
  LET s == desk[a].on   row == desk[a].read.rows[s] IN
  /\ Commit(a, "withdraw")
  /\ Writes(s, [Shelved(row) EXCEPT !.word = TRUE])
  /\ held' = [held EXCEPT ![s] = [status |-> row.status, reason |-> row.reason]]
  /\ UNCHANGED signed

(* «استعادة من الأرشيف» *)
Restore(a) ==
  LET s == desk[a].on   chapter == desk[a].read.active IN
  /\ Commit(a, "restore")
  /\ \E row \in Replays(Restored(desk[a].read.rows[s], "active", LimitOf(chapter)), chapter) :
       Writes(s, row)
  /\ held' = [held EXCEPT ![s] = Nothing]
  /\ UNCHANGED signed

(* «الغاء الانسحاب» *)
Unwithdraw(a) ==
  LET s == desk[a].on   chapter == desk[a].read.active   row == desk[a].read.rows[s] IN
  /\ Commit(a, "unwithdraw")
  /\ \E after \in Replays([Restored(row, StatusBefore(row), LimitOf(chapter))
                             EXCEPT !.word = FALSE], chapter) :
       Writes(s, after)
  /\ held' = [held EXCEPT ![s] = Nothing]
  /\ UNCHANGED signed

(* PUT with the policy "reset": a new file, the old one archived apart. *)
Reenrol(a) ==
  LET s == desk[a].on   limit == LimitOf(desk[a].read.active) IN
  /\ Commit(a, "reenrol")
  /\ rows' = [rows EXCEPT ![s] = Returned(desk[a].read.rows[s], limit, limit)]
  /\ signed' = [signed EXCEPT ![s] = [c \in Chapters |-> 0]]
  /\ notes' = [notes EXCEPT ![s] = 0]
  /\ UNCHANGED <<active, saved, held>>

(* A grade is entered, corrected or deleted, and the file is replayed. *)
Grade(a) ==
  LET s == desk[a].on IN
  /\ Commit(a, "grade")
  /\ \E row \in Replays(desk[a].read.rows[s], desk[a].read.active) : Writes(s, row)
  /\ UNCHANGED <<signed, held>>

(* The balances kept of the chapter that closes. *)
Kept(chapter, read) ==
  IF chapter = NoChapter THEN read.saved
  ELSE [read.saved EXCEPT ![chapter] =
         [s \in Students |-> IF read.rows[s].status = "archived" THEN NoBalance
                             ELSE read.rows[s].balance]]

(* A chapter that was not active settles every result of the past, so the  *)
(* replay leaves the balances as they were just set.                       *)
Activate(a) ==
  LET c == desk[a].on   read == desk[a].read
      opened == [s \in Students |-> Opened(read.rows[s], read.saved[c][s], Limits[c])]
  IN /\ Commit(a, "activate")
     /\ active' = c
     /\ saved' = IF read.active = c THEN read.saved ELSE Kept(read.active, read)
     /\ rows' \in IF read.active # c THEN {opened}
                  ELSE {r \in [Students -> UNION {Replays(opened[s], c) : s \in Students}] :
                          \A s \in Students : IF opened[s].status = "active"
                                              THEN r[s] \in Replays(opened[s], c)
                                              ELSE r[s] = opened[s]}
     /\ notes' = [s \in Students |-> notes[s] +
                    (IF read.active # c /\ opened[s].status = "active" THEN 1 ELSE 0)]
     /\ UNCHANGED <<signed, held>>

Deactivate(a) ==
  LET read == desk[a].read IN
  /\ Commit(a, "deactivate")
  /\ active' = NoChapter
  /\ saved' = Kept(desk[a].on, read)
  /\ rows' = [s \in Students |-> Closed(read.rows[s])]
  /\ UNCHANGED <<signed, notes, held>>

(* The second-chapter transition.  The chapter it closes keeps a balance of *)
(* every student, the archived included.                                   *)
Transition(a) ==
  LET c == desk[a].on   read == desk[a].read IN
  /\ Commit(a, "transition")
  /\ active' = c
  /\ saved' = IF read.active \in {NoChapter, c} THEN read.saved
              ELSE [read.saved EXCEPT ![read.active] = [s \in Students |-> read.rows[s].balance]]
  /\ rows' = [s \in Students |-> Renewed(read.rows[s], Limits[c])]
  /\ notes' = [s \in Students |-> notes[s] + (IF read.rows[s].status = "archived" THEN 0 ELSE 1)]
  /\ UNCHANGED <<signed, held>>

-----------------------------------------------------------------------------
(* A course whose chapter is open, its students active or dismissed, with   *)
(* the pledges they signed in it.                                          *)
Init ==
  \E chapter \in Chapters :
    /\ active = chapter
    /\ rows \in [Students ->
         {[status |-> "active", reason |-> NoReason, word |-> FALSE,
           balance |-> Limits[chapter], base |-> Limits[chapter]],
          [status |-> "dismissed", reason |-> "hand", word |-> FALSE,
           balance |-> 0, base |-> Limits[chapter]]}]
    /\ signed \in [Students -> {n \in [Chapters -> 0..PledgeMax] :
                     \A c \in Chapters : n[c] > 0 => c = chapter /\ Limits[c] >= Grant}]
    /\ notes = [s \in Students |-> 0]
    /\ saved = [c \in Chapters |-> [s \in Students |-> NoBalance]] /\ moved = FALSE
    /\ desk = [a \in Admins |-> Idle]
    /\ held = [s \in Students |-> Nothing]
    /\ commits = 0

Next ==
  \E a \in Admins :
    \/ \E op \in Operations, on \in Students \cup Chapters : Open(a, op, on)
    \/ Begin(a) \/ Conflict(a) \/ Refuse(a)
    \/ Dismiss(a) \/ Pledge(a) \/ Manual(a) \/ Restore(a) \/ Archive(a)
    \/ Withdraw(a) \/ Unwithdraw(a) \/ Reenrol(a) \/ Grade(a)
    \/ Activate(a) \/ Deactivate(a) \/ Transition(a)

Spec == Init /\ [][Next]_vars

-----------------------------------------------------------------------------
(***************************************************************************)
(* Properties                                                              *)
(***************************************************************************)
(* pledge-limit.ts promises that a student pledges at most twice in one    *)
(* chapter, and pledge-limit-server.ts that two returns at once cannot     *)
(* both pass: however the requests, their retries and the other operations *)
(* of the administrators interleave, no chapter counts a third pledge.     *)
PledgeLimit == \A s \in Students, c \in Chapters : signed[s][c] <= PledgeMax

(* The request of page a commits in this step. *)
Commits(a) == desk[a].stage = "running" /\ desk'[a] = Idle /\ commits' # commits

(* A dismissal, a return, a restoration, an archiving or a chapter's       *)
(* opening and closing is carried out on the very state its dialog showed, *)
(* though the transaction may be run several times, each time over what    *)
(* other administrators have written since.                                *)
SeenStateOnly ==
  [][\A a \in Admins : Commits(a) => desk[a].seen = Shown(desk[a].op, desk[a].on)]_vars

(* "An archived student holds no opportunities; nothing may change them    *)
(* until an explicit restore" (students/route.ts): whatever is corrected   *)
(* or opened meanwhile, and whatever was in flight when the student was    *)
(* archived, the row leaves the archive as it went in, and only by a       *)
(* restoration or a cancelled withdrawal.                                  *)
ArchivedUntouched ==
  [][\A s \in Students : rows[s].status = "archived" /\ <<rows[s], signed[s]>>' # <<rows[s], signed[s]>> =>
       \E a \in Admins : /\ Commits(a) /\ desk[a].on = s
                         /\ desk[a].op = IF rows[s].word THEN "unwithdraw" ELSE "restore"]_vars

(* The cancelled withdrawal is the exact reverse: the student leaves the   *)
(* archive in the state they were in, dismissed for the same reason or     *)
(* active, up to what the replay of the file then decides.  The code keeps *)
(* no such state: it infers it from the reason alone, which every          *)
(* dismissal must write and every return must clear.                       *)
WithdrawalReversed ==
  [][\A s \in Students, a \in Admins :
       Commits(a) /\ desk[a].on = s /\ desk[a].op = "unwithdraw" =>
         LET before == [rows[s] EXCEPT !.reason = held[s].reason]
         IN rows'[s] \in Replays([Restored(before, held[s].status, LimitOf(active))
                                    EXCEPT !.word = FALSE], active)]_vars

(* The transition is not repeated, so that no deduction and no state of the *)
(* second chapter is wiped out: not by a page that previewed it before      *)
(* another carried it out, nor by its second attempt.                       *)
TransitionOnce ==
  [][moved => ~\E a \in Admins : Commits(a) /\ desk[a].op = "transition"]_vars
=============================================================================
