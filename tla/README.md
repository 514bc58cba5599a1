# TeacherPro: verification project

TeacherPro is a Next.js application (TypeScript, Prisma, PostgreSQL) with which a
teaching centre records exam results, replays every student's academic state from
them (opportunities, dismissal, returns) and divides the follow-up calls among its
staff. The repository has no README at its top; its documents are
`src/docs/P1..P3_IMPLEMENTATION.md`, its tests the scripts `src/scripts/test-*`. This
directory holds TLA+ modules for the parts whose correctness depends on the order of
events, TLC runs for small instances, and TLAPS proofs for every instance.

## The system

| Component | State it keeps | Operations | What makes it hard | What makes it correct |
|---|---|---|---|---|
| Grade sheet and draft outbox (`grade-entry-offline-outbox.ts`, `grade-entry.tsx`, `outbox-session.ts`) | drafts in localStorage per account, running save and flush per tab, the row each sheet shows | stage, direct save, background flush, confirm, conflict, sign in and out | tabs share one store and one cookie; answers get lost after the write; a draft changes while its older revision is being sent | no draft dropped before the server has it; recorded under who typed it; only known rows overwritten; every draft settles |
| Grades endpoint and held grades (`api/grades/route.ts`, `academic-grade-writeback-server.ts`, `grade-smart-notes-server.ts`) | Grade row, GradeSmartNote, student status | POST with a baseline, DELETE, hold, settle | the status changes between the sheet's read and the save; requests are handled twice or late | compare-and-swap; nothing held for an active student |
| Call reservations (`call-reservations-server.ts`, `call-batch.ts`, `api/student-calls/**`) | CallWindow, CallReservation, StudentCall | beat, close, list and claim, take by hand, contact action, late repeat | READ COMMITTED transactions, two advisory locks, silent windows, requests overtaken by the page's closing | nobody is called by two people: a batch holds only uncalled students, an action lands on a free student or one's own |
| Academic replay engine (`academic-engine.ts`, `academic-event-order.ts`, `opportunity-balance.ts`, `bonus-opportunity.ts`) | none: a pure function of grades, opportunity log and chapter history | replay of one student's chapter | late results, same-day ties, two passes for the bonuses, settlements and returns | replaying twice gives the same state; late entry never changes a decision made with what was known; a dismissal needs a violation at zero |
| Opportunity actions and recalculation (`api/opportunities/*`, `academic-recalculate-server.ts`) | Student row, OpportunityLog, automatic records | add, deduct, reset, undo, bulk adjust, restore | automatic history is rewritten on each run while older history is kept | one undo per entry; the audit row records the balance that is saved; a dismissed student has no opportunities, an active one no held scores |
| Mutation outbox (`mutation-outbox.ts`, `mutation-replay-policy.ts`, `pending-mutation-lock.ts`, `api.ts`) | queued requests per account in localStorage, running call and flush per tab | call with retries, queue, flush under a web lock, drop, report | repeated deliveries, lost answers, requests handled late, tabs that write back what they read | a change is carried until it took effect or its user was told; what must not be repeated is not |
| Sync (`teacherpro-sync.ts`, `use-teacherpro-sync.ts`, `layout.tsx`, `api/sync/version`) | last seen version, the echoes expected, the section's data in each tab | poll, announce, echo filter, rebaseline, reload | a change that lands between two polls or during a reload; a foreign change taken for one's own | no change stays unseen, the baseline and the screen never go back |
| Serializable retry, login and API limits (`serializable-transaction.ts`, `login-rate-limit.ts`, `api-rate-limit.ts`) | counters | retry, register a failure, reset | counting under concurrency | the limit is never passed |
| Leaves (`api/student-leaves`, `student-leave-grade-override-server.ts`, `protected-grade-markers-server.ts`) | StudentLeave, excused markers, backups of the results they replaced | create, edit, cancel, a score or absence over a leave, a row deleted, an exam moved to another day or opened | leaves that cover the same exam end in any order, exams enter and go out of them, a marker is deleted by hand | a covered exam is excused; without a leave it has its own result again |
| Student lifecycle (`api/students`, `api/student-actions`, `student-archive-restore-server.ts`, `student-withdrawal-server.ts`, `manual-student-restoration-server.ts`, `pledge-limit-server.ts`) | status, reason, balance, pledge rows | dismiss, pledge, return, archive, restore, withdraw and its reversal, new enrolment | dialogs over a state that changed since, transactions run again, a state inferred from a reason | what is committed is what was shown; two pledges a chapter; the archive is left only by a return |
| Chapters and exams (`api/course-chapters/*`, `api/exams`, `scheduled-exam-activation-server.ts`) | the active chapter, the balances a closed one keeps, the transition's marker, exams and their days | activate, deactivate, second-chapter transition, exam edits, scheduled activation | the whole course changes at once, while its students are being acted on | one active chapter; archived students untouched; the transition once |
| Integrations (`correction-integration-server.ts`, `mirmaz-integration-server.ts`) | deliveries, holds | receive, apply, acknowledge | duplicates and reordering | one effect per delivery |
| Student codes, preview tokens | database sequence, hashes | issue, compare | - | uniqueness (the database's) |
| User interface, reports, bots, backup | view state | render, export | - | out of scope |

How they meet: the sheet and the mutation outbox call the endpoints over HTTP, so a
request can be lost, handled after its caller gave up, or handled twice. Every write
to grades, opportunities or leaves runs in a serializable transaction that also replays
the students it touched; the replay decides status and balance. A status that becomes
active settles held grades in the same transaction. The calls page runs short READ
COMMITTED transactions ordered by advisory locks instead. Tabs meet only through
localStorage, the session cookie and a web lock.

## Modules

| Module | Models | State and actions |
|---|---|---|
| `GradeServer` | the server side of one (student, exam) pair | `grade`, `held`, `student`, `clock`. `Post` is the handler of POST /api/grades in its order: owner check, held scores and the bonus return for a student who is not active, compare-and-swap, write with the replay. `DeleteGrade` and `ChangeStatus` are the other operations that touch the pair; `Become` is the settlement of a held grade on a return. |
| `GradeOutbox` (extends it) | the browser: tabs, accounts, drafts, network | `SaveStart`..`SaveAbandon` are the sheet's `saveGrade`, `FlushStart`..`FlushVerify` are `flushOwnedGradeSaves`/`flushOne` with one step per await, `ServerHandle`, `LoseAnswer` the network, `Reload`, `Login`, `Logout`, `SessionCheck` the account, `Other*` another device. |
| `CallReservations` | the three tables and the running requests of the calls page | `Beat`, `ClosePage`/`CloseWindow`, `Lapse`; `Take*`; `List*` is GET candidates with one step per transaction and per lock of `claimCallBatch`; `Save*` is POST /api/student-calls and its repeats. |
| `AcademicReplay` | `recalculateAcademicState` for one student and chapter, a pure function | `Opening`, `Pending`, `Neutral` read the stored rows and commands; `OwnTime`, `LedgerTime`, `Before` give the order of the ledger, a set of events of which `Last` takes the latest; `ReplayCommand` and `ReplayResult` are the bodies of `applyCommandsThrough` and of the grade loop over a record of the loop's variables; `Run` is the loop, a recursive function over the sets of events (the last event after the replay of the others), which TLC evaluates and TLAPS can reason about; `Saved` is what the function returns, with the history the server keeps. |
| `OpportunityLedger` (extends it) | one student's chapter: `rows` (Grade), `log` (the administrators' OpportunityLog rows), `student` (Student and the automatic rows), `held` (waiting GradeSmartNotes), `today` | `Enter` is POST /api/grades for an active student, for a correction and for a dismissed student (held, or a bonus return); `DeleteGrade`; `Command` is POST student-action (add, deduct, reset, undo); `Restore` is `restoreDismissedStudentManually`; each ends with `Recalculated`, which replays, settles held scores and replays again. |
| `CallDuty` | what the calls page promises, without tables, locks and requests: one duty per student | `holder`, `acting`; `CallReservations!Duty` is the refinement mapping: the holder is the live window that holds the student, those acting are the saves that have the student's lock. |
| `MutationOutbox` | the direct call and the queue of `flushOutbox`, for the tabs of one account | `call[t]` is `retryTransientMutation` under `apiPost`/`apiPut`/`apiDelete`; `queue` the stored items; `flush[t]` the loop of `flushOwnedOutbox`, one step per await; `orphans` the requests nobody waits for; `Reload` closes and opens a page; `executed` and `landed` are the server's. |
| `MutationDelivery` | what a user is promised of a change, without requests, queue or tabs | `asked`, `effects`, `carried`, `reported`; `MutationOutbox!Delivery` maps it. |
| `ClientSync` | one tab's view of the versions and of the section on screen | `base`, `polls` are `checkServerVersion`; `pending` the echoes of `teacherpro-sync.ts`; `timer`, `heard` the rebaseline and the announcements of sibling tabs; `refresh`, `loads`, `shown` the reload of the section. Versions are sets of changes, each with the scopes it moves and the scopes it announces. |
| `StudentLifecycle` | the students of a course, its chapters and the pages of its administrators | `rows`, `signed`, `notes`, `active`, `saved`, `moved` are the database's; `desk[a]` is a page's dialog and its request: `Open` (the dialog and its token), `Begin` (a transaction's snapshot), `Conflict` (run again or given up), `Refuse`, and one action per operation, which commits. |
| `StudentLeaves` | one student's leaves, results, markers and backups, and the exams' days | `Create`, `Edit`, `Cancel` are POST, PUT and DELETE; `EnterScore`, `EnterAbsence`, `MarkMissing`, `WithdrawAbsence`, `DeleteGrade` are the grades'; `MoveExam` and `EnsureMarker` are PUT of an exam (another day, opened or closed). `removed` and `mislaid` are history: the exams whose marker was deleted by hand, and those moved meanwhile. Each is one transaction, so one step; its parts (`RestoredGrades`, `Taken`, `Reconciled`, ...) take the file and return it changed, in the handler's order. |
| `MCGradeOutbox`, `MCCallReservations`, `MCOpportunityLedger`, `MCMutationOutbox`, `MCClientSync`, `MCStudentLifecycle`, `MCStudentLeaves` | instances for TLC: symmetry, the exams, the results and commands, the scopes, the chapters | |
| `GradeOutboxProofs`, `CallReservationsProofs`, `AcademicReplayProofs`, `OpportunityLedgerProofs`, `MutationOutboxProofs`, `ClientSyncProofs`, `StudentLifecycleProofs`, `StudentLeavesProofs` | theorems and proofs | |

How they compose: `GradeOutbox` and `OpportunityLedger` are compositions (the browser with
the server, the operations with the replay). `StudentLifecycle` uses of the replay only what
it may leave of a row (`Replays`), which `OpportunityLedger` details; `GradeServer` leaves
the same choice open. `CallDuty` and `MutationDelivery` are the abstract specifications that
`CallReservations` and `MutationOutbox` implement.

PROJECT.json gives, for every definition, the lines of the source it stands for.

### What the models abstract

* **Grades.** One (student, exam) pair: rows of other pairs do not take part in the
  protocol. A result is a member of `Scores` or `Marks`; the free text of a note is
  part of the value. What the replay decides about the student after a write is left
  open (`\E s \in {"active", "dismissed"}`), so every property holds whatever it
  decides. Left out: coercion by a leave, exam availability, the course and site checks,
  the pre-registration rules, the archived-note category, the audit log.
* **Outbox.** The stored list has one draft per account here; its limits (the number of
  drafts, twelve attempted snapshots) are not modelled. A result typed is one step with
  its staging and the start of its request, which the code does without an await between.
* **Calls.** The heartbeat timeout and the shorter away grace are one status, `live` or
  `silent`; `Lapse` happens at any time, which covers both. A window belongs to its
  page's account, so the check on another account's window is left out. A request fixes
  its time once and a hold keeps that time as `since` (the model keeps it for that only).
  The reads of `callHoldsSince` are one step with the touch before them, and a hold made
  inside a claim's transaction is visible as soon as it is made: until the commit nobody
  else can take that case, because of the row's key. A transaction that is retried is
  taken not to have run. The retries of one claim (4 in the code) are bounded by
  `MaxTries`. Left out: notes, PUT and DELETE of a call, the archived guard, the filters.
* **Mutation outbox.** A change is a request body: two equal bodies are one change, as
  the queue takes them (`Stored`). `Guarded` are the changes `mutationCanBeReplayed`
  refuses: deletions, creations, and whatever carries an expected state. The queue an
  earlier page left may hold anything (an older version queued guarded changes too) and
  may have landed. One account is signed in; a change of account in mid-flush, the list
  of failed changes, the delays' lengths and `enqueueMutation`, which nothing calls, are
  left out.
* **Sync.** One section is on screen; a change moves some scopes and announces at least
  these, as the client's list for an endpoint and the version query do. The first version
  read is the baseline. Left out: a change of section, the debounce and window lengths (a window may
  end at any time), the notices. The tab's own saves are not part of `ShownStays`: an
  answer read before a save's commit may be applied after the optimistic update.
* **Lifecycle.** The replay is a free choice among what it may leave of a row, wider than
  what it does. A transaction's reads are compared with the state at its commit, so only
  serialization failures with a cause occur. One without a cause adds no behaviour: it
  leaves the request as it was, with one attempt less. Withdrawal, its reversal and a grade carry no
  token, as in the code; the other dialogs always send theirs, which the server does not insist on. Left out: registration, name clashes and renames, the other fields
  of PUT, counting over several courses, the refusal of a course with two active chapters
  (the database allows one). The transition's target chapter exists and its limit is
  `Limits[Second]`; how its two courses are found, and the creation of chapter and links,
  are left out. It also keeps the balances of archived students, which `activate` does not.
* **Leaves.** One student, not archived, registered before the exams of one course. The
  review of a dismissal after a leave, the smart notes and the replay are left out. Markers
  are not written by hand and a score over a leave is always confirmed. A row of any kind may
  be deleted (`DeleteGrade`): DELETE of a grade looks at no leave and keeps the backups. A
  score or an absence deleted is a result the exam no longer has (`real`); a deleted marker
  deletes no result, so `real` stays, and the exam has no row until one is written or
  `ensureProtectedGradeMarkers` runs over it (when the exam opens, closes or moves).
  Moving an exam in that state does not look at its backups (the row comes first,
  `protected-grade-markers-server.ts:88`): if one is then held by a leave that no longer
  covers the exam, the exam is `mislaid` and both properties leave it out from there on, as
  described under "Met while modelling". The other callers of `ensureProtectedGradeMarkers`
  (registration, maintenance) do to one row what `EnsureMarker` does; a student's move to
  another course and the deletion of an exam are left out. `endLeavesCoveringExamForGrade`
  ends several leaves in the order the database returns them; `RowsAfter` allows every
  outcome of every order. With `Crossing = FALSE` no score is typed over a leave that
  another one crosses (`Alone`), which is what `LeavesCrossed` is about.
* **Ledger.** A result is one of pass, weak (failed above the discount mark), low
  (discounted), absent, cheat: the score's comparisons with the exam's marks are that
  choice. Low and absent take the same path and differ in wording only; a final's zero
  (priority 76) is folded into its dismissal grade (75). Exams have no opening time of their
  own, so a return covers the exams of earlier days and what it settled. All exams are open,
  of the student's course and chapter and after the day bonuses start; there are no leaves,
  grace periods, registration limits, no-discount exams, manual dismissals or pledge links,
  and every command is of ledger version 2. Of these exclusions one is kept,
  `academicEffectExcluded`, which a settled held score carries; `Neutral` is where the others
  would stand. A row has the flag exactly when it came from a processed note. A reset goes to
  the chapter's limit, as the route does it. A dismissal's automatic rows are kept as the
  set `dismissals`, the bonus rows as `bonuses`; amounts of automatic deductions are not.
  Time is `day * DayLength + commands so far`. Each operation is one step, since it runs in
  one serializable transaction; a result typed again with the same value is left out, because
  it only replays (`SavedIsReplay`). Left out: bulk adjustment, which loops over students
  with the same body, the pledge's route, PUT of grades, and an archived student.

## Runs

`CHECK_DEADLOCK FALSE` in every run but the two of the leaves: pages close, users stop, and
the bounds run out, so the systems may stop. The leaves have no bound in a guard, so there
deadlock is checked. The bounds are the `Max*` constants, used only in guards.

| Run | Question and instance | Properties |
|---|---|---|
| `OutboxOneTab` | One tab, one account, a score and a mark, edits over a running save and flush, a lost answer and another device; no symmetry, since it asks for liveness too. | `TypeOK`, `DraftKeptUntilAcknowledged`, `NothingHeldWhileActive`, `DraftSettles` |
| `OutboxAccounts` | Two tabs and two accounts in one browser, sign-ins and sign-outs with drafts waiting and requests running; no other device, whose part the second account plays. | `RecordedUnderTypist`, `OverwritesOnlyKnown` |
| `CallsBatches` | Two pages, two students of one exam, claims, takes by hand, lapses and an action. | `TypeOK`, `BatchIsUncalled`, `ActsOnlyOnFreeOrOwn`, `DutyKept`, `SilentNeverWakesHolding` |
| `CallsExams` | A case in two exams, windows that move and fall silent, an action lost and repeated late, an overseer, who may act on anyone, and what a silent window held. | `BatchIsUncalled`, `SilentHoldsReleased` |
| `LedgerReplay` | One exam on the first day and three on the second, one of them final; six results, entered, corrected and deleted at any time; one command and one undo. | `TypeOK`, `SavedIsReplay`, `PlaceIndependentOfEntry`, `HeldOnlyWhileDismissed`, `ManualLossStays`, `ReturnsAreEarned`, `SettledEditsChangeNothing`, `OldLossSpendsOldBalance`, `RecordedBalanceIsSaved` |
| `OutboxQueue` | Two tabs, a change that may be repeated and one that may not, a queue of two that an earlier page left, three faults (refusals, lost answers, lost sessions, reloads). | `TypeOK`, `DeliveryKept`, `OnlyCallsEnqueue`, `CarriedSettles` |
| `ClientSync` | A change of the tab, of another tab and of another device, two scopes on screen and one that is not, two reloads at once. | `TypeOK`, `BaselineAdvances`, `ShownStays`, `OthersShown`, `AnnouncedShown` |
| `StudentLifecycle` | Two administrators, one student, two chapters of two and one opportunities, every operation, two attempts of a transaction, three commits. | `TypeOK`, `PledgeLimit`, `SeenStateOnly`, `ArchivedUntouched`, `WithdrawalReversed`, `TransitionOnce` |
| `LeavesOverlap` | Two exams, two days, three leaves, a score and absences, rows and markers deleted. | `TypeOK`, `ExcusedWhileCovered`, `OriginalRestored` |
| `OutboxAnswer` (violation) | A new score is answered with an older held score's row. | `AnswerIsThisDraft` |
| `LedgerUndo` (violation) | No results, one opportunity: deduct, deduct, return, undo, undo of the undo. | `DismissalNeedsEmptyBalance` |
| `LeavesCrossed` (violation) | Two exams, an exam leave, a period over both, a score at the second. | `ExcusedWhileCovered` |

Why the bounds are enough. The outbox's cases need two revisions of a draft (a
confirmation of the first against the second), one lost answer, and one write of another
device between the read and the post; each run allows at least that, and two tabs or two
accounts where the question is about them. The calls need two windows and two cases (a
hold one keeps while the other moves), a batch of two, one action against one claim, and a
second list after the first. What larger instances would add is more of the same
interleavings, and the proofs below cover those for safety. The two runs of the calls are
two because one instance with two cases, two exams and all the faults does not end in time.

The ledger's cases need a pass on each side of another result of the day (a pair, a missing
exam between, a break that waits), a loss that finds the balance empty, a credit after an
earlier day's exam (a late loss), and an opening (reset or return) with results before it.
`LedgerReplay` has all of them with four exams: held scores becoming rows, bonus returns,
late losses a credit covers, settled bonuses and edits of settled results all occur in it.
The penalty 2 with a limit of 2 makes one loss empty the balance, so that a second one
dismisses. Not reached in it: weak and low results (low is the same path as absent), a
second bonus after the first (the limit is 1, so what is reached is the limit), and held
scores other than passes.

The queue needs two tabs (one takes the lock the other lost), two items (one behind another),
two attempts (a first failure and the last) and a change made while its earlier copy is
queued. Three faults are a lost answer, a reload in the middle of the repeat, and a refusal.
Sync needs one change of each origin, since a change is compared with the echo of another, and
two reloads under way (an older answer after a newer). The lifecycle needs two pages (one
commits between the other's snapshot and its commit, or between its dialog and its snapshot),
two attempts, and three commits: a pledge is at its limit after two, and a withdrawal is
reversed after two with a third in between; students start dismissed or active with any
pledges, which saves the commits that lead there. A second student of the same course meets
the first only in the chapter's operations, which act on each alike. The leaves need three of
them over one exam (the backup passes from one to the next), a period over two exams and an
exam moved between two leaves, or out of one, which two exams and two days allow; each exam's
row depends on another exam only through the leaves a score ends.

**Fairness.** `GradeOutbox!Fairness`: a call that is running goes on (a promise settles),
the retry timer of the layout flushes a pending draft again while its owner is signed in,
and a request whose caller still waits is handled. Nothing is assumed of the teacher, of
orphaned requests or of other devices. `CallReservations!Fairness`: an open page's beat
timer fires and a closing page's request arrives. Lists, takes and saves need not happen.
`MutationOutbox!Fairness`: a running call and a running flush go on (promises settle, the
server or the timeout ends a request), the retry delay of an item passes, and some tab starts
a flush again and again (going online, being looked at and loading the page each call
`flushOutbox`; no timer does, so a queue of a page that is left alone waits until one of these). Late requests need not be handled, and no tab needs to make changes.
`ClientSync!Fairness`: calls end, the rebaseline timer fires, the poll timer fires every twelve
seconds, announcements are delivered, a reload that is due starts and is answered or fails. The
one strong fairness says that of the polls under way again and again some are answered: a
network on which every poll fails shows nothing, and no property is about it.

Each property of a passing run has a mutant in PROJECT.json: a faulty form of one
definition (written beside it and marked `faulty`), under which the same run finds the
property violated.

## What is proved

TLAPS proves these for all values of the constants that satisfy the modules' named
assumptions (`ServerAssumption`, `OutboxAssumption`, `ReservationAssumption`: the
"absent" values are not real ones, the bounds are naturals, `ExamOf` is a function;
`ReplayAssumption`, `LedgerAssumption`: the exams are numbered from 1 in the order of their
days, limits, penalties and amounts are naturals, the entries are results of exams, and a
day has more moments than there are commands; `MutationOutbox!Assumption`: the tabs are a
finite set, the guarded changes are changes, the bounds are naturals).

* `TypeCorrect`: the outbox is well typed. The invariant is `TypeInv`: `TypeOK`, each
  stored draft and running call of the shape its state promises (`JobsReal`), because the
  type of a request sent from a call is only known from the call.
* `DraftsKept`: `DraftKeptUntilAcknowledged`. The invariant adds `NetInv` (a request that
  is awaited belongs to one call, in state `sent`, with the same owner, revision and
  value, so an answer is an answer to its own call), and `DraftInv` (a call or request
  with the revision of the latest draft carries its value; a call that read the row or
  got an accepting answer for that revision has it acknowledged; revisions only grow).
  Without those an answer could confirm a revision nobody stored.
* `TypistRecorded`: `RecordedUnderTypist`. The invariant `TypedInv` says that drafts,
  calls and requests of an account carry values it typed; the owner check closes the step
  from the request to the row, whatever the cookie became meanwhile.
* `NothingStaysHeld`: `NothingHeldWhileActive`, with the types: every operation that leaves
  the student active settles what was held in the same step.
* `NothingUnseenOverwritten`: `OverwritesOnlyKnown`. The compare-and-swap alone does not give
  it: a draft carries a baseline, and what must be known is that the draft's own account saw
  that version. The invariant `BaseInv` says that every baseline of a stored draft, a running
  call and a request on its way (also one handled late or twice) is a version the server
  has handed out, and, where it is the version of the present row, that this row was shown
  to that account, written by it, or holds a value it typed (`Fits`, `DraftFits`, `CallFits`).
  Versions are handed out once, so a row that goes and comes back is not taken for the old
  one (`RowMoves`, `HistoryGrows`, `Old`): a baseline that fits stays fit through whatever
  other devices do. Only then does `PostOverwrites` use the compare-and-swap itself.
* `CallsTypeCorrect`: the calls are well typed, and no hold outlives its window.
* `BatchesUncalled` and `ActionsOnFreeOrOwn`. The invariant is `SafeInv`: `LockInv` (a
  case is not being saved and claimed at once; a claim that checked a case under its lock
  and still has it finds it uncalled), `BatchIsUncalled`, and that a running save found
  its case free or its own and nobody can take it meanwhile. The locks are needed: the
  mutants that ignore them break both properties.
* `SilentWakesEmpty`: `SilentNeverWakesHolding`. Only a touch wakes a window, and a touch drops
  the window's old holds with its row (`TouchWakes`; that a released window has none is
  `TypeOK`'s foreign key). The property first compared the row before the silence with the row
  after it. That is false with one more take than its run allowed: the same student taken by
  hand again at once gives an equal row. It now names the taken student as the only one, and
  the run with takes by hand checks it.
* `HeldSettled`: `HeldOnlyWhileDismissed`, with `IInv` adding that a status is one of two
  (`Decided`), or the two halves would not meet. It does not open the replay: what
  is used of it is that `Saved` gives a dismissed student the balance 0, and that every
  operation ends with `Recalculated`, whose second replay comes after the settlement. The
  awkward case is that second replay: it may dismiss again, and then nothing is held
  and the balance is 0.

* `ReplayIsSound`: whatever is stored, the replay ends with `Sound`, a typed account whose
  balance and hold together stay within the limit. It takes an induction over the events.
  The facts about one event come first (`AddKeeps`, `DeductKeeps`, `CountPassKeeps`,
  `LoseKnowingKeeps`, ..., together `EventKeeps`): a credit clamps the hold at the gap, a
  deduction moves from balance to hold what it takes, and a bonus is given only below
  both, which is where the hold matters. Then the order: a finite set of events has a last
  one that is in it (`HasLast`, `LastIsIn`), so the recursion of `Run` is well founded and
  its function exists (`ReplayExists`, `RunReplays`); a smallest set of events whose replay
  is not sound would have a sound one with its last event put aside (`RunKeeps`). The
  induction is over numbers, by a least counterexample (`LeastNumber`). Last, the events
  of a stored ledger are finitely many triples of numbers (`EventsAreEvents`).
* `TypeCorrect` of the ledger: `TypeOK`, which is inductive as it stands once a replay of a
  typed ledger is known to leave a student (`ReplayIsStudent`, from `ReplayIsSound`).
* `ManualLoss`: `ManualLossStays`, from the two.
* `ReplayTwice`: a replay of what a replay saved saves the same. It reads its own earlier
  results (the stored dismissal, the history of settled rows), so this does not go by form. The
  invariant of the loop is `Explained`: a bonus or a dismissal of this replay is of a row
  with an effect, so of none whose history is retained, and only a student who is dismissed
  has dismissals. So the second replay begins as the first did, and a dismissal that stays
  was not lifted by what stays with it. The loop's inductions go through one lemma,
  `HistoryInduction`: a collection that has the empty history, and has every history whose
  past it has, has all of them.
* `ReplaySaved`: `SavedIsReplay`. The invariant is `ReplayInv` with the types: the saved
  student fits the rows (`Fits`: its bonuses and dismissals are of results that are
  entered, none by hand), and nothing is entered or held of a day to come. `ReplayTwice` is
  the step; what is left is the settlement, which writes rows after the replay and so
  replays again, and the commands.
* `PlaceIndependent`: `PlaceIndependentOfEntry`. Two contexts are `Alike` when they have the
  same events and read every result alike; such replays are equal event by event
  (`AlikeRuns`), and a moved entry of a result that takes no opportunity gives such a context
  (`EntryIsNotRead`).
* `BalanceRecorded`: `RecordedBalanceIsSaved`. A command is the last event of its replay,
  since nothing is stored ahead of the present moment (`DateInv`), and the events before it
  are replayed as they were without it, but for the places a bonus kept above zero (`Twin`,
  `OneMore`): an undo takes from those the deduction it undoes. What is left is one step of
  `ReplayCommand` against the amount the route computed from the saved balance.
* `SettledIsNotRead`: two ledgers that differ in settled results only replay alike. It is not
  by form: a break of the streak waits for the passes of earlier exams of its day that are
  replayed after it, and a settled pass may be one of them, so while the loop runs the two
  replays may carry different streaks. Each is compared with the replay of `Bare`, the ledger
  whose results without effect are no passes. The invariant of the pair is `Follow`: all but the streak is equal (`Apart`), and
  `Streaks` says that the bare replay has applied some breaks the other still defers
  (`Debts`). At a pass with an effect there are none left (`NoDebtAtPass`), because the ledger
  goes through the exams' days in order (`DayBounds`, `LedgerIsOrdered`), so what a streak
  decides is decided alike.
* `SettledEditsKept`: `SettledEditsChangeNothing`. What a command settled had been entered
  before it (`Dated`), so an operation that touches only settled rows enters nothing new and
  takes nothing out (`EditedNow`, `SettledBeforeNow`): it is an edit in the sense of
  `SettledIsNotRead`. The saved student is the replay of the present rows (`ReplayInv`), so the
  replay of the edited ones too, and with `IInv` there is nothing held to settle after it.
* `SavedIsEarned`: whatever a replay says a bonus saved from a dismissal, a bonus paid. The
  invariant (`EarnedFor`) is over the events replayed so far: the balance exceeds the balance
  without bonuses only once a bonus is earned, and each place in `saved` comes after one. That
  an earlier event is an earlier place is `LedgerIsPlaced`: on one day the ledger replays a
  pass before the losses and deductions of later exams. The bonus must also be one of the
  replay that is saved in the end, which settles the held scores and goes over a longer ledger.
  Until it earns a bonus itself that replay agrees with the first (`More`, `MoreRuns`), both
  again compared through `Bare`.
* `ReturnsEarned`: `ReturnsAreEarned`. Only what `saved` names lifts a stored dismissal. The
  held scores are recorded now, so what the reset or return settled is the same before and
  after they are written (`SettledBeforeNow`), and the bonus is none of it: a replay earns
  bonuses with results that have an effect only.
* `OldLossWaits`, `OldLossKept`: `OldLossSpendsOldBalance`. The replay with the old loss is
  compared, event by event, with the one without it (`OldLossRuns`). Before the old loss they
  are the same; from it to its credit (`Window`) the balance the engine remembers without it
  (`historicalKnownBalance`, here `known`) is not below the balance that decides in the other
  replay, and every result between the two that waits for a credit waits for that same one
  (`WaitsForSame`, `AwaitsSame`). So a loss before the credit that dismisses with the old
  result (`FallsWhere` finds it) would have dismissed without it, and the student was active.
  It takes that the result is the newest of the ledger (entered now, so no credit is newer),
  that the deductions by hand before the credit come before it, and `BonusesStay`. A
  student's stored balance, dismissal and bonuses are those of the replay (`ReplayInv`), and a
  result entered now is not one that a reset settled (`SettledBeforeNow`).

* `CallsImplementDuty`: `DutyKept`, the refinement of `CallDuty`. Initial states map to
  initial states, and each step maps to a step of `CallDuty` or a stutter; one step of the
  tables may be a step of many students (a list, a beat, a closing page), which is why
  `CallDuty!Next` is a conjunction over them. It rests on `SafeInv` with what `LockInv` says:
  nobody is given a student whose action is being saved, because both take the case's lock.
* `MutationOutboxProofs`: `TypeCorrect`, `QueueImplementsDelivery` (`DeliveryKept`) and
  `OnlyFailedCallsEnqueue` (`OnlyCallsEnqueue`), for any finite set of tabs. `Inv` adds
  `FlushOK` to the types: a tab that flushes is the only one, the items it read are still
  queued, the one on its way may be repeated, and an accepted one has landed. So a flush that
  writes an item back finds it under its key, which is where the web lock is needed (the
  mutant `LockUnheld` breaks it). `Counted` says that of a guarded change the effects, the
  late requests and the calls that wait are together no more than the user asked for; the sets
  of waiting calls are finite, and one step changes them by one tab (`WaitingChanges`). Every
  action has a lemma that it keeps `Inv`, maps to a step of `MutationDelivery` or a stutter,
  and enqueues only where a call ends (`Kept`).
* `ClientSyncProofs`: `SyncTyped`, `BaselineOnlyAdvances`, `ShownRemains` (`TypeOK`,
  `BaselineAdvances`, `ShownStays`). The invariant `SyncInv` adds `PollInv` (there is one poll
  at a time, and what it read is no older than the baseline) and `LoadInv` (one reload at most
  will be applied, and it read all that the screen shows of others), so the order of the
  answers does not matter.
* `StudentLifecycleProofs`: `TypeCorrect`, `AtMostTwoPledges`, `OnlyWhatWasShown`,
  `ArchiveIsLeftByReturn`, `WithdrawalIsReversed`, `TransitionIsNotRepeated`. The invariant
  `Inv` is `Typed`, `DeskOK` (a page's request has an operation, a student or a chapter as that
  operation needs, and an attempt left while it waits to run), `RowsSound` (a dismissed or archived student has no balance,
  a dismissed one has a reason, an active one none), `HeldTold` (what an archived student was
  can be told from the reason that was kept) and `PledgeLimit`. `RowsSound` is what makes
  `StatusBefore` right: an operation that dismissed without writing the reason, or returned
  without clearing it, would break it. The rest is `Serialized`: at its commit a
  transaction's reads are the present state, so what was permitted over them is permitted now.
* `StudentLeavesProofs`: `TypeCorrect`, `CoveredIsExcused`, `LastLeaveRestores`, each with
  `ASSUME ~Crossing` (no score over a leave that another one crosses), for any exams, days and
  number of leaves. `IInv` is `Shape`, `Apart` (no two leaves for one exam, no two periods that
  share a day, so at most two leaves cover an exam), `Owned` (no backup without its leave) and,
  at each exam that is not mislaid, `Stands`: at most one leave holds a backup, it covers the exam, it holds the result recorded there, and if there
  is a result one of the covering leaves holds it, with the marker there or deleted by hand. Without the single holder a backup passed
  on could meet an older one and be lost.

Only model-checked:

* liveness, which is beyond TLAPS here: `DraftSettles`, `SilentHoldsReleased`,
  `CarriedSettles`, `OthersShown`, `AnnouncedShown`;
* the three refutations.

## What the refutations say

* `OutboxAnswer`: for a student dismissed a second time, POST answers a new score with the
  row of the first held score and status 201; the outbox drops the draft.
* `LedgerUndo`: an undo's reason quotes the reason of the movement it undoes, with the
  marker of a deduction at zero. The undo of that undo is a deduction with the marker, which
  dismisses a student who has an opportunity left; `lib/opportunity-balance.ts:33-35` says
  only a penalty at zero does.
* `LeavesCrossed`: an exam leave covers one exam, a period covers it and a second exam, and a
  score is entered at the second. The period ends as a whole and its end deletes the first
  exam's marker, whose leave is still there
  (`student-leave-grade-override-server.ts:128`); `docs/student-leaves-20260910.md:7` says the
  marker remains.

Met while modelling, and not made runs of their own (some are deliberate):

* `layout.tsx:1048-1051`: a poll that only rebaselines drops the scopes another device moved,
  which `teacherpro-sync.ts:163-166` says are still delivered. A change of the same scope
  within the window of an own save's echo is taken for the echo. `OthersShown` excludes both
  (`Calm`), and a change heard while another section is on screen leaves that section stale.
* The mutation outbox keeps an order only among due items: one that is put off, or answered
  with a transient error, is passed by those behind it (`mutation-outbox.ts:260` says FIFO).
  Bodies that are equal are merged, so of A, then B, then A again queued in turn the last is
  lost. A transient failure's notice is suppressed for a minute after another one
  (`teacher-store.ts:878-905`).
* `currentMatchesAttempted` (`grade-entry-offline-outbox.ts:467`) compares values: another
  device's newer edit that equals something this device tried before is overwritten
  (`OverwritesOnlyKnown` calls such a row known).
* An excused marker deleted by hand leaves the backup behind it. If the exam's day is then
  moved out of the leave, the row of a recorded result does not come back, as
  `reconcileProtectedGradeMarkersForExamEdit` looks only at rows there are
  (`protected-grade-markers-server.ts:61-88`), though its header says that the original row
  "is restored from its backup". When that leave is edited or cancelled later, or a score
  elsewhere ends it, the backup is written over whatever was recorded since, in the last case
  even while another leave covers the exam. With `OriginalRestored` asked of every exam TLC
  finds the first as a score, a leave, a deletion and a move.
* GET candidates drops finished holds without naming the window, so also one that changed
  hands (`candidates/route.ts:812`), and a list handled after the page's closing brings the
  window back (line 780). A late request of an exam the page has left moves the window back
  (`call-reservations-server.ts:76`).
* A dismissal by hand that a rule would also give may have its reason replaced in a replay
  (`academic-engine.ts:1539-1543`); a cancelled withdrawal then still returns a dismissed
  student.
* An old result may still dismiss before the credit that covers it, by moving a bonus: exams
  1 to 7 of one day are nothing, pass, pass, absent, pass, pass, absent, with one opportunity,
  one bonus to earn and an addition the next day; that 1 was an absence is entered after that.
  The bonus of 6 is now earned at 3 and spent at 4, and 7 finds nothing left, though
  `academic-engine.ts:1319-1324` says no such dismissal is invented.
  `OldLossSpendsOldBalance` therefore asks that the bonuses before the dismissal stay
  (`BonusesStay`).
* All deductions by hand are one place in the set of those a bonus kept from dismissing
  (`"manual-deduction"`, `academic-engine.ts:942` and 1517): whom the first of two dismissed
  returns by a bonus earned between the two, if a correction of older results lets the
  replay find the first harmless. `EarnedBefore` therefore names any deduction of the ledger.

## Plan

Done: the outbox and the endpoint, the calls, the ledger, the mutation outbox, the sync, the
lifecycle with its chapters, the leaves, and the two abstract specifications. Left:

1. Scheduled activation and the creation and deletion of exams; registration and the move of a
   student to another course.
2. Of the ledger: two bonuses in a chapter and weak results; leaves and grace periods as
   further reasons of `Neutral`; the pledge; bulk adjustment.
3. Of the leaves: the review of a dismissal, grace periods, `Crossing` once the code restores
   what other leaves cover.
4. The integrations (one effect per delivery), the login limit, calls' notes and PUT.

## Not modelled

* Rendering, filters, statistics, exports, bots, backup and restore files, password hashing,
  tokens and schema migrations: no protocol of their own, or pure input and output. They are
  most of the repository's lines.
* Student codes: their uniqueness is a database sequence's. Login and API limits: a counter
  per address and window, one upsert per attempt, with no interplay with the rest.
* The integrations and the scheduled activation of exams, as the plan says.
* Hazards no property covers are in PROJECT.json with a note.
