----------------------------- MODULE GradeOutbox -----------------------------
(***************************************************************************)
(* The grades a teacher types, from the sheet to the database: the draft   *)
(* kept on the device (grade-entry-offline-outbox), the save the sheet     *)
(* sends at once (grade-entry saveGrade) and the background flush that     *)
(* sends it again, over the server of GradeServer.                         *)
(*                                                                         *)
(* One (student, exam) pair and one browser.  Its tabs share the stored    *)
(* drafts (localStorage) and the session cookie; each keeps in memory the  *)
(* account it believes is signed in, the row its sheet shows, and at most  *)
(* one running save and one running flush.  Other devices write through    *)
(* the same endpoint.                                                      *)
(***************************************************************************)
EXTENDS GradeServer, FiniteSets

CONSTANTS
  Tabs,       \* the open tabs of the browser
  NoTab,      \* the absence of a tab
  MaxEdits,   \* bound: drafts saved from the sheets
  MaxFaults,  \* bound: answers lost, reads failed, tabs reloaded
  MaxOthers,  \* bound: operations of other devices
  MaxLogins   \* bound: sign-ins and sign-outs

ASSUME OutboxAssumption ==
  /\ NoTab \notin Tabs
  /\ {MaxEdits, MaxFaults, MaxOthers, MaxLogins} \subseteq Nat

VARIABLES
  session,    \* the account of the session cookie, or Nobody
  owner,      \* owner[t]: getOutboxOwner() in tab t, or Nobody
  view,       \* view[t]: updatedAt of the row shown by the sheet, 0 if none
  item,       \* item[u]: the draft stored for the pair under account u
  job,        \* job[t][k]: the running save or flush of tab t
  net,        \* requests sent and not handled yet
  spent,      \* how much of each bound is used
  typed,      \* history: typed[u] is the set of values u has entered
  latest,     \* history: latest[u] is the last draft staged in the browser
  known       \* history: known[u] are the row versions shown to u

deviceVars == <<session, owner, view, item, job, net>>
history == <<typed, latest, known>>
vars == <<serverVars, deviceVars, spent, history>>

Kinds == {"save", "flush"}

(***************************************************************************)
(* A stored draft: rev is its revision, exp its baseline (0 is             *)
(* expectMissing), att its attempted snapshots.                            *)
(***************************************************************************)
NoItem == [state |-> "none", rev |-> 0, val |-> NoValue, exp |-> 0, att |-> {}]
Item == [state: {"none", "pending", "conflict", "rejected"}, rev: Nat,
         val: Values \cup {NoValue}, exp: Nat, att: SUBSET Values]

(***************************************************************************)
(* A running call: the snapshot it carries (own, rev, val, exp, att), the  *)
(* answer of its POST (reply) and the row it read or was given (row).      *)
(***************************************************************************)
Shown == [val: Values \cup {NoValue}, ver: Nat]
Absent == [val |-> NoValue, ver |-> 0]
Current == [val |-> grade.val, ver |-> grade.ver]

Idle == [pc |-> "idle", own |-> Nobody, rev |-> 0, val |-> NoValue, exp |-> 0,
         att |-> {}, reply |-> "none", row |-> Absent]
Replies == AnswerKinds \cup {"none", "lost"}
Job == [pc: {"idle", "lookup", "looked", "sent", "answered", "verify", "verified"},
        own: Users \cup {Nobody}, rev: Nat, val: Values \cup {NoValue}, exp: Nat,
        att: SUBSET Values, reply: Replies, row: Shown]

(* A request in flight; tab is NoTab once its caller stopped waiting. *)
Request == [own: Users, cookie: Users \cup {Nobody}, val: Values, exp: Nat,
            rev: Nat, tab: Tabs \cup {NoTab}, kind: Kinds]

Draft == [rev: Nat, val: Values \cup {NoValue}, acked: BOOLEAN]

Bounds == [edits |-> MaxEdits, faults |-> MaxFaults,
           others |-> MaxOthers, logins |-> MaxLogins]

TypeOK ==
  /\ ServerTypeOK
  /\ session \in Users \cup {Nobody}
  /\ owner \in [Tabs -> Users \cup {Nobody}]
  /\ view \in [Tabs -> Nat]
  /\ item \in [Users -> Item]
  /\ job \in [Tabs -> [Kinds -> Job]]
  /\ net \subseteq Request
  /\ spent \in [DOMAIN Bounds -> Nat]
  /\ typed \in [Users -> SUBSET Values]
  /\ latest \in [Users -> Draft]
  /\ known \in [Users -> SUBSET Nat]

Init ==
  /\ ServerInit
  /\ session \in Users
  /\ owner = [t \in Tabs |-> session]
  /\ view = [t \in Tabs |-> 0]
  /\ item = [u \in Users |-> NoItem]
  /\ job = [t \in Tabs |-> [k \in Kinds |-> Idle]]
  /\ net = {}
  /\ spent = [b \in DOMAIN Bounds |-> 0]
  /\ typed = [u \in Users |-> {}]
  /\ latest = [u \in Users |-> [rev |-> 0, val |-> NoValue, acked |-> TRUE]]
  /\ known = [u \in Users |-> {}]

-----------------------------------------------------------------------------
(* Helpers *)

Spend(b) == spent[b] < Bounds[b] /\ spent' = [spent EXCEPT ![b] = @ + 1]

Step(t, k, j) == job' = [job EXCEPT ![t][k] = j]
Finish(t, k) == Step(t, k, Idle)

Learn(u, v) == known' = [known EXCEPT ![u] = @ \cup {v}]

(* The read and the flush do nothing for a draft of another account. *)
Owns(t, j) == owner[t] = j.own

(* updateItem guarded by the revision, as in persistState and markAttempted. *)
Same(j) == item[j.own].state # "none" /\ item[j.own].rev = j.rev
Patch(j, new) == item' = IF Same(j) THEN [item EXCEPT ![j.own] = new] ELSE item

Send(t, k, j) ==
  net' = net \cup {[own |-> j.own, cookie |-> session, val |-> j.val, exp |-> j.exp,
                    rev |-> j.rev, tab |-> t, kind |-> k]}

(***************************************************************************)
(* confirmGradeEntryOfflineAttempt: ver is the confirmed row's, or 0 when  *)
(* the answer carried no row.                                              *)
(***************************************************************************)
ConfirmedAnyRevision(j, ver) == NoItem   \* faulty: the revision is not compared
ConfirmedUnguarded(j, ver) ==            \* faulty: a missing updatedAt is stored
  IF Same(j) THEN NoItem
  ELSE [item[j.own] EXCEPT !.exp = IF ver = 0 THEN NoValue ELSE ver, !.state = "pending"]

Confirmed(j, ver) ==
  LET i == item[j.own] IN
  IF Same(j) THEN NoItem
  ELSE [i EXCEPT !.exp = IF ver # 0 THEN ver ELSE @,
                 !.att = @ \ {j.val}, !.state = "pending"]
Confirm(t, j, ver) ==
  item' = IF Owns(t, j) /\ item[j.own].state # "none"
          THEN [item EXCEPT ![j.own] = Confirmed(j, ver)] ELSE item

(* markGradeEntryOfflineAttention *)
Attention(t, j, s) ==
  IF Owns(t, j) THEN Patch(j, [item[j.own] EXCEPT !.state = s])
  ELSE UNCHANGED item

Matches(row, val) == row.ver # 0 /\ row.val = val

-----------------------------------------------------------------------------
(* The save of the sheet *)

(***************************************************************************)
(* runSave up to its POST: stage the draft, mark it attempted, send it     *)
(* with the version the sheet shows.  A pending draft keeps its baseline   *)
(* and remembers its old value as attempted.                               *)
(***************************************************************************)
Staged(u, t, v, r) ==
  LET i == item[u]
      waiting == i.state = "pending" IN
  [state |-> "pending", rev |-> r, val |-> v,
   exp |-> IF waiting THEN i.exp ELSE view[t],
   att |-> (IF waiting THEN i.att \cup {i.val} ELSE {}) \cup {v}]

SaveStart(t, v) ==
  LET u == owner[t]
      r == spent.edits + 1
      j == [Idle EXCEPT !.pc = "sent", !.own = u, !.rev = r, !.val = v, !.exp = view[t]] IN
  /\ u # Nobody /\ job[t]["save"].pc = "idle"
  /\ Spend("edits")
  /\ item' = [item EXCEPT ![u] = Staged(u, t, v, r)]
  /\ Step(t, "save", j) /\ Send(t, "save", j)
  /\ typed' = [typed EXCEPT ![u] = @ \cup {v}]
  /\ latest' = [latest EXCEPT ![u] = [rev |-> r, val |-> v, acked |-> FALSE]]
  /\ Learn(u, view[t])
  /\ UNCHANGED <<serverVars, session, owner, view>>

(***************************************************************************)
(* The answer arrives.  Success confirms the attempt and shows the row; a  *)
(* failure re-reads the sheet first (reconcileFailedGradeSave).            *)
(***************************************************************************)
SaveReply(t) ==
  LET j == job[t]["save"] IN
  /\ j.pc = "answered"
  /\ IF j.reply \in {"ok", "held", "replayed"}
     THEN /\ Confirm(t, j, j.row.ver) /\ Finish(t, "save")
          /\ view' = IF j.row.ver # 0 THEN [view EXCEPT ![t] = j.row.ver] ELSE view
          /\ Learn(j.own, j.row.ver)
     ELSE Step(t, "save", [j EXCEPT !.pc = "verify"]) /\ UNCHANGED <<item, view, known>>
  /\ UNCHANGED <<serverVars, session, owner, net, spent, typed, latest>>

(***************************************************************************)
(* After the re-read: a row that matches the draft confirms it; a lost     *)
(* answer, an expired session or a device that is offline leaves it        *)
(* waiting; the rest needs the teacher.  A re-read that reaches the server *)
(* replaces what the sheet shows.                                          *)
(***************************************************************************)
SaveResolve(t, reached, online) ==
  LET j == job[t]["save"]
      saved == reached /\ Matches(Current, j.val) IN
  /\ j.pc = "verify" /\ (reached => online /\ session # Nobody)
  /\ IF ~reached /\ session # Nobody THEN Spend("faults") ELSE UNCHANGED spent
  /\ view' = IF reached THEN [view EXCEPT ![t] = grade.ver] ELSE view
  /\ IF saved THEN Confirm(t, j, grade.ver)
     ELSE IF j.reply \in {"lost", "unauthorised"} \/ ~online THEN UNCHANGED item
     ELSE Attention(t, j, IF j.reply = "conflict" THEN "conflict" ELSE "rejected")
  /\ latest' = IF saved /\ latest[j.own].val = j.val
               THEN [latest EXCEPT ![j.own].acked = TRUE] ELSE latest
  /\ Finish(t, "save")
  /\ UNCHANGED <<serverVars, session, owner, net, typed, known>>

(* Another exam was opened meanwhile: the answer is ignored. *)
SaveAbandon(t) ==
  /\ job[t]["save"].pc \in {"answered", "verify"}
  /\ Spend("faults") /\ Finish(t, "save")
  /\ UNCHANGED <<serverVars, session, owner, view, item, net, history>>

-----------------------------------------------------------------------------
(* The background flush *)

FlushFree == \A t \in Tabs : job[t]["flush"].pc = "idle"

(* flushOwnedGradeSaves takes the draft, under the cross-tab lock. *)
FlushStart(t) ==
  LET u == owner[t] IN
  /\ u # Nobody /\ FlushFree /\ item[u].state = "pending"
  /\ Step(t, "flush", [Idle EXCEPT !.pc = "lookup", !.own = u, !.rev = item[u].rev,
                       !.val = item[u].val, !.exp = item[u].exp, !.att = item[u].att])
  /\ UNCHANGED <<serverVars, session, owner, view, item, net, spent, history>>

(* fetchCurrentGrade, before the POST or after a refusal. *)
FlushRead(t) ==
  LET j == job[t]["flush"]
      next == IF j.pc = "lookup" THEN "looked" ELSE "verified" IN
  /\ j.pc \in {"lookup", "verify"} /\ session # Nobody
  /\ Step(t, "flush", [j EXCEPT !.pc = next, !.row = Current])
  /\ latest' = IF Matches(Current, latest[j.own].val)
               THEN [latest EXCEPT ![j.own].acked = TRUE] ELSE latest
  /\ UNCHANGED <<serverVars, session, owner, view, item, net, spent, typed, known>>

(* The read failed, or the draft's owner is no longer signed in here. *)
FlushGiveUp(t) ==
  LET j == job[t]["flush"] IN
  /\ \/ j.pc \in {"lookup", "verify"}
        /\ IF session = Nobody THEN UNCHANGED spent ELSE Spend("faults")
     \/ j.pc \in {"looked", "answered", "verified"} /\ ~Owns(t, j) /\ UNCHANGED spent
  /\ Finish(t, "flush")
  /\ UNCHANGED <<serverVars, session, owner, view, item, net, history>>

(***************************************************************************)
(* What flushOne does with the row it read.  The row already holds the     *)
(* draft: remove it.  The row holds an earlier attempt: move the baseline  *)
(* to it and send.  The row is the baseline: send.  Otherwise: a conflict. *)
(***************************************************************************)
FlushSynced(t, j) ==
  /\ Matches(j.row, j.val)
  /\ Patch(j, NoItem)
  /\ view' = [view EXCEPT ![t] = j.row.ver]
  /\ Learn(j.own, j.row.ver)
  /\ Finish(t, "flush") /\ UNCHANGED net

Attempted(j) == j.row.ver # 0 /\ j.row.val \in j.att

FlushAdvance(t, j) ==
  LET j2 == [j EXCEPT !.pc = "sent", !.exp = j.row.ver, !.att = @ \ {j.row.val}] IN
  /\ ~Matches(j.row, j.val) /\ Attempted(j)
  /\ UNCHANGED <<view, known>>
  /\ IF Same(j)
     THEN /\ Patch(j, [item[j.own] EXCEPT !.exp = j.row.ver, !.state = "pending",
                                          !.att = (j.att \ {j.row.val}) \cup {j.val}])
          /\ Step(t, "flush", j2) /\ Send(t, "flush", j2)
     ELSE Finish(t, "flush") /\ UNCHANGED <<item, net>>

FlushSend(t, j) ==
  LET j2 == [j EXCEPT !.pc = "sent"] IN
  /\ ~Matches(j.row, j.val) /\ ~Attempted(j) /\ j.row.ver = j.exp
  /\ Patch(j, [item[j.own] EXCEPT !.att = @ \cup {j.val}, !.state = "pending"])
  /\ Step(t, "flush", j2) /\ Send(t, "flush", j2)
  /\ UNCHANGED <<view, known>>

ConflictRetried(t, j) ==   \* faulty: the conflict is not recorded
  /\ ~Matches(j.row, j.val) /\ ~Attempted(j) /\ j.row.ver # j.exp
  /\ Finish(t, "flush") /\ UNCHANGED <<item, net, view, known>>

FlushConflict(t, j) ==
  /\ ~Matches(j.row, j.val) /\ ~Attempted(j) /\ j.row.ver # j.exp
  /\ Patch(j, [item[j.own] EXCEPT !.state = "conflict"])
  /\ Finish(t, "flush") /\ UNCHANGED <<net, view, known>>

FlushDecide(t) ==
  LET j == job[t]["flush"] IN
  /\ j.pc = "looked" /\ Owns(t, j)
  /\ FlushSynced(t, j) \/ FlushAdvance(t, j) \/ FlushSend(t, j) \/ FlushConflict(t, j)
  /\ UNCHANGED <<serverVars, session, owner, spent, typed, latest>>

(* The answer of the flush's POST: confirm, wait, look again, or stop. *)
FlushReply(t) ==
  LET j == job[t]["flush"] IN
  /\ j.pc = "answered" /\ Owns(t, j)
  /\ \/ /\ j.reply \in {"ok", "held", "replayed"}
        /\ Confirm(t, j, j.row.ver) /\ Finish(t, "flush")
        /\ view' = IF j.row.ver # 0 THEN [view EXCEPT ![t] = j.row.ver] ELSE view
        /\ Learn(j.own, j.row.ver)
     \/ /\ j.reply = "unauthorised" /\ Finish(t, "flush") /\ UNCHANGED <<item, view, known>>
     \/ /\ j.reply = "lost" /\ Finish(t, "flush")
        /\ Patch(j, [item[j.own] EXCEPT !.state = "pending"]) /\ UNCHANGED <<view, known>>
     \/ /\ j.reply = "conflict" /\ Step(t, "flush", [j EXCEPT !.pc = "verify"])
        /\ UNCHANGED <<item, view, known>>
     \/ /\ j.reply = "rejected" /\ Finish(t, "flush")
        /\ Patch(j, [item[j.own] EXCEPT !.state = "rejected"]) /\ UNCHANGED <<view, known>>
  /\ UNCHANGED <<serverVars, session, owner, net, spent, typed, latest>>

(* After a 409 the row may still be this draft, its first answer lost. *)
FlushVerify(t) ==
  LET j == job[t]["flush"] IN
  /\ j.pc = "verified" /\ Owns(t, j)
  /\ IF Matches(j.row, j.val)
     THEN /\ Confirm(t, j, j.row.ver) /\ Learn(j.own, j.row.ver)
          /\ view' = [view EXCEPT ![t] = j.row.ver]
     ELSE Patch(j, [item[j.own] EXCEPT !.state = "conflict"]) /\ UNCHANGED <<view, known>>
  /\ Finish(t, "flush")
  /\ UNCHANGED <<serverVars, session, owner, net, spent, typed, latest>>

-----------------------------------------------------------------------------
(* The network and the server *)

(* The answer reaches the call that waits for it; an orphan's is dropped. *)
Deliver(r, kind) ==
  LET row == IF kind \in {"ok", "replayed"}
             THEN [val |-> grade'.val, ver |-> grade'.ver] ELSE Absent IN
  job' = IF r.tab = NoTab THEN job
         ELSE [job EXCEPT ![r.tab][r.kind] =
                 [@ EXCEPT !.pc = "answered", !.reply = kind, !.row = row]]

Accepted == {"ok", "held", "replayed"}

ServerHandle(r) ==
  /\ r \in net /\ net' = net \ {r}
  /\ \E kind \in AnswerKinds :
       /\ Post(r, kind) /\ Deliver(r, kind)
       /\ latest' = IF kind \in Accepted /\ latest[r.own].rev = r.rev
                    THEN [latest EXCEPT ![r.own].acked = TRUE] ELSE latest
  /\ UNCHANGED <<session, owner, view, item, spent, typed, known>>

(***************************************************************************)
(* The connection drops: the caller is told nothing.  The request may have *)
(* been handled, be handled later (it stays in net), or never be.          *)
(***************************************************************************)
Orphaned(t, k) == {[r EXCEPT !.tab = NoTab] : r \in {q \in net : q.tab = t /\ q.kind = k}}
Detach(t, k) == {q \in net : ~(q.tab = t /\ q.kind = k)} \cup Orphaned(t, k)

LoseAnswer(t, k) ==
  /\ job[t][k].pc \in {"sent", "answered"} /\ job[t][k].reply # "lost"
  /\ Spend("faults") /\ net' = Detach(t, k)
  /\ Step(t, k, [job[t][k] EXCEPT !.pc = "answered", !.reply = "lost", !.row = Absent])
  /\ UNCHANGED <<serverVars, session, owner, view, item, history>>

-----------------------------------------------------------------------------
(* The tabs and the account *)

(* A reload ends the tab's calls and asks the server who is signed in. *)
Reload(t) ==
  /\ Spend("faults")
  /\ job' = [job EXCEPT ![t] = [k \in Kinds |-> Idle]]
  /\ net' = {IF r.tab = t THEN [r EXCEPT !.tab = NoTab] ELSE r : r \in net}
  /\ owner' = [owner EXCEPT ![t] = session]
  /\ view' = [view EXCEPT ![t] = grade.ver]
  /\ UNCHANGED <<serverVars, session, item, history>>

(* The sheet loads the current rows. *)
Refresh(t) ==
  /\ session # Nobody /\ view[t] # grade.ver
  /\ view' = [view EXCEPT ![t] = grade.ver]
  /\ UNCHANGED <<serverVars, session, owner, item, job, net, spent, history>>

Login(t, u) ==
  /\ owner[t] = Nobody /\ Spend("logins")
  /\ session' = u /\ owner' = [owner EXCEPT ![t] = u]
  /\ view' = [view EXCEPT ![t] = grade.ver]
  /\ UNCHANGED <<serverVars, item, job, net, history>>

(* The tab forgets its account at once; the call that ends the session may fail. *)
Logout(t) ==
  /\ owner[t] # Nobody /\ Spend("logins")
  /\ session' \in {Nobody, session} /\ owner' = [owner EXCEPT ![t] = Nobody]
  /\ UNCHANGED <<serverVars, view, item, job, net, history>>

(* restoreSession, on focus or after a 401. *)
SessionCheck(t) ==
  /\ owner[t] # session /\ owner' = [owner EXCEPT ![t] = session]
  /\ UNCHANGED <<serverVars, session, view, item, job, net, spent, history>>

-----------------------------------------------------------------------------
(* Other devices *)

(* Another sheet, freshly loaded, saves a value for the same pair. *)
OtherWrite(u, v) ==
  /\ Spend("others")
  /\ \E kind \in {"ok", "held", "replayed"} :
       Post([own |-> u, cookie |-> u, val |-> v, exp |-> grade.ver], kind)
  /\ typed' = [typed EXCEPT ![u] = @ \cup {v}]
  /\ UNCHANGED <<deviceVars, latest, known>>

OtherDelete ==
  /\ Spend("others")
  /\ \E s \in StudentStatus : DeleteGrade(s)
  /\ UNCHANGED <<deviceVars, history>>

OtherStatus(s) ==
  /\ Spend("others") /\ ChangeStatus(s)
  /\ UNCHANGED <<deviceVars, history>>

-----------------------------------------------------------------------------
Running(t) ==
  \/ SaveReply(t) \/ \E reached, online \in BOOLEAN : SaveResolve(t, reached, online)
  \/ FlushStart(t) \/ FlushRead(t) \/ FlushGiveUp(t)
  \/ FlushDecide(t) \/ FlushReply(t) \/ FlushVerify(t)

Account(t) ==
  \/ Reload(t) \/ Refresh(t) \/ Logout(t) \/ SessionCheck(t)
  \/ \E u \in Users : Login(t, u)

Next ==
  \/ \E t \in Tabs :
       \/ \E v \in Values : SaveStart(t, v)
       \/ Running(t) \/ SaveAbandon(t) \/ Account(t)
       \/ \E k \in Kinds : LoseAnswer(t, k)
  \/ \E r \in net : ServerHandle(r)
  \/ \E u \in Users, v \in Values : OtherWrite(u, v)
  \/ OtherDelete
  \/ \E s \in StudentStatus : OtherStatus(s)

Spec == Init /\ [][Next]_vars

(***************************************************************************)
(* Fairness: a running call goes on (its promises settle), a stored draft  *)
(* is flushed again by the retry timer while its owner is signed in, and   *)
(* the server answers a call that is still waiting.  Nothing is assumed of *)
(* an orphaned request, of the teacher, or of the other devices.           *)
(***************************************************************************)
Fairness ==
  \A t \in Tabs :
    /\ WF_vars(Running(t))
    /\ WF_vars(\E r \in net : r.tab = t /\ ServerHandle(r))

FairSpec == Spec /\ Fairness

-----------------------------------------------------------------------------
(***************************************************************************)
(* The last draft a teacher saved stays in the outbox, value and all,      *)
(* until the server has accepted that draft or was read holding its value: *)
(* the confirmation of an older revision never removes a newer one         *)
(* (confirmGradeEntryOfflineAttempt, persistState, flushOne).              *)
(***************************************************************************)
DraftKeptUntilAcknowledged ==
  \A u \in Users : ~latest[u].acked =>
    /\ item[u].state # "none"
    /\ item[u].rev = latest[u].rev /\ item[u].val = latest[u].val

(***************************************************************************)
(* Every stored result, official or held, was typed by the account it is   *)
(* recorded under, though drafts outlive sign-outs, tabs share one cookie  *)
(* and calls outlive the session they began in (ownerHeaders and the owner *)
(* check of getAuthPrincipal).                                             *)
(***************************************************************************)
RecordedUnderTypist ==
  /\ grade.by # Nobody => grade.val \in typed[grade.by]
  /\ held.by # Nobody => held.val \in typed[held.by]

(***************************************************************************)
(* A save from this browser replaces an existing row only if that version  *)
(* was shown to its account, was written by it, or holds a value it typed: *)
(* drafts replayed late never bury a value their author had not seen.  (The *)
(* last case is there because a row equal to a value that was tried is     *)
(* taken for the device's own earlier save, whoever wrote it.)             *)
(***************************************************************************)
OverwritesOnlyKnown ==
  [][net' # net /\ grade.ver # 0 /\ grade'.ver # grade.ver =>
       \/ grade.ver \in known[grade'.by]
       \/ grade.by = grade'.by
       \/ grade.val \in typed[grade'.by]]_vars

(***************************************************************************)
(* An answer that reports a stored row reports the value that was sent.    *)
(* It does not hold: a score typed for a student dismissed again is        *)
(* answered with the row an earlier held score became, as a success, and   *)
(* the outbox drops the new draft.                                         *)
(***************************************************************************)
AnswerIsThisDraft ==
  \A t \in Tabs, k \in Kinds :
    job[t][k].pc = "answered" /\ job[t][k].reply \in {"ok", "replayed"} =>
      job[t][k].row.val = job[t][k].val

(***************************************************************************)
(* No grade stays held for a student who is active: whichever operation    *)
(* brings the student back settles it in the same transaction.             *)
(***************************************************************************)
NothingHeldWhileActive == student = "active" => held.status # "PENDING"

(***************************************************************************)
(* A waiting draft does not wait for ever: the flush removes it or asks    *)
(* the teacher, whatever answers are lost on the way.                      *)
(***************************************************************************)
DraftSettles == \A u \in Users : item[u].state = "pending" ~> item[u].state # "pending"
=============================================================================
