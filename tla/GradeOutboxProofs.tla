-------------------------- MODULE GradeOutboxProofs --------------------------
(***************************************************************************)
(* Proofs about GradeOutbox, for any number of tabs, accounts and values:  *)
(* its types; that a draft leaves the outbox only once acknowledged; that  *)
(* results are recorded under the account that typed them; that no grade   *)
(* stays held for an active student; and that a draft sent late replaces   *)
(* nothing its author did not know.                                        *)
(***************************************************************************)
EXTENDS GradeOutbox, TLAPS

(* A running call belongs to an account and carries a value, and so does a draft. *)
Real(j) == j.pc # "idle" => j.own \in Users /\ j.val \in Values
JobsReal == \A t \in Tabs, k \in Kinds : Real(job[t][k])
Drafts == {i \in Item : i.state # "none" => i.val \in Values}
ItemsReal == item \in [Users -> Drafts]

TypeInv == TypeOK /\ JobsReal /\ ItemsReal

(* A request whose caller still waits is that caller's only one. *)
Awaited(r) ==
  /\ job[r.tab][r.kind].pc = "sent"
  /\ job[r.tab][r.kind].own = r.own /\ job[r.tab][r.kind].rev = r.rev
  /\ \A q \in net : q.tab = r.tab /\ q.kind = r.kind => q = r
NetInv == \A r \in net : r.tab \in Tabs => Awaited(r)

(* A call that is not running has the type of a call. *)
LEMMA IdleType == Idle \in Job
BY DEF Idle, Job, Replies, AnswerKinds, Shown, Absent

(* What assigning one call leaves of the types. *)
LEMMA StepType ==
  ASSUME TypeInv, NEW t \in Tabs, NEW k \in Kinds, NEW j \in Job,
         Real(j), Step(t, k, j)
  PROVE  job' \in [Tabs -> [Kinds -> Job]] /\ JobsReal'
BY DEF TypeInv, TypeOK, JobsReal, Real, Step

(* Ending a call keeps the calls well typed. *)
LEMMA FinishType ==
  ASSUME TypeInv, NEW t \in Tabs, NEW k \in Kinds, Finish(t, k)
  PROVE  job' \in [Tabs -> [Kinds -> Job]] /\ JobsReal'
<1>1. Idle \in Job /\ Real(Idle)
  BY IdleType DEF Idle, Real
<1> QED BY <1>1, StepType DEF Finish

(* The handler of POST /api/grades keeps the server's types, whatever it answers. *)
LEMMA PostType ==
  ASSUME ServerTypeOK, NEW req, NEW kind \in AnswerKinds,
         req.cookie \in Users \cup {Nobody}, req.val \in Values, Post(req, kind)
  PROVE  ServerTypeOK' 
<1>1. NoteWaits => held.val \in Scores \cup {NoValue}
  BY DEF ServerTypeOK, Note
<1>2. ASSUME NEW s \in StudentStatus, StoreGrade(req, s) PROVE ServerTypeOK'
  BY <1>2 DEF StoreGrade, Become, SettledRow, SettledNote, NoNote, ServerTypeOK, Row, Note, Values, StudentStatus
<1>3. ASSUME PostHeld(req, kind), req.val \in Scores PROVE ServerTypeOK'
  BY <1>3 DEF PostHeld, NoteAfter, Answer, serverVars, ServerTypeOK, Note, Row
<1>4. ASSUME NEW k, Answer(kind, k) PROVE ServerTypeOK'
  BY <1>4 DEF Answer, serverVars, ServerTypeOK
<1> QED BY <1>2, <1>3, <1>4 DEF Post, PostWrite, PostBonusReturn, StudentStatus

(* A delete and a change of status keep the server's types. *)
LEMMA OtherType ==
  ASSUME ServerTypeOK, NEW s \in StudentStatus, DeleteGrade(s) \/ ChangeStatus(s)
  PROVE  ServerTypeOK'
<1>1. CASE DeleteGrade(s)
  BY <1>1 DEF DeleteGrade, Become, SettledRow, SettledNote, NoteWaits, NoNote, Missing,
              ServerTypeOK, Row, Note, Values, StudentStatus
<1>2. CASE ChangeStatus(s)
  BY <1>2 DEF ChangeStatus, Become, SettledRow, SettledNote, NoteWaits, NoNote,
              ServerTypeOK, Row, Note, Values, StudentStatus
<1> QED BY <1>1, <1>2

(* The stored draft keeps its type through every update of the outbox. *)
LEMMA PatchType ==
  ASSUME TypeInv, NEW j \in Job, j.own \in Users, NEW new,
         Same(j) => new \in Drafts, Patch(j, new)
  PROVE  item' \in [Users -> Drafts]
BY DEF TypeInv, ItemsReal, Patch

(* Confirming an attempt, with or without a row, leaves well typed drafts. *)
LEMMA ConfirmType ==
  ASSUME TypeInv, NEW t \in Tabs, NEW j \in Job, j.own \in Users, NEW ver \in Nat,
         Confirm(t, j, ver)
  PROVE  item' \in [Users -> Drafts]
<1>1. NoItem \in Drafts
  BY DEF NoItem, Drafts, Item
<1>2. item[j.own] \in Drafts
  BY DEF TypeInv, ItemsReal
<1>3. item[j.own].state # "none" => Confirmed(j, ver) \in Drafts
  BY <1>1, <1>2 DEF Confirmed, Drafts, Item
<1> QED BY <1>3 DEF Confirm, TypeInv, ItemsReal

(* A sent request is well typed and names the call that waits for it. *)
LEMMA SendType ==
  ASSUME TypeInv, NEW t \in Tabs, NEW k \in Kinds, NEW j \in Job,
         j.own \in Users, j.val \in Values, Send(t, k, j)
  PROVE  net' \subseteq Request
BY DEF TypeInv, TypeOK, Send, Request, Job

(* Using up a bound keeps the counters well typed. *)
LEMMA SpendType ==
  ASSUME TypeInv, NEW b \in DOMAIN Bounds, Spend(b)
  PROVE  spent' \in [DOMAIN Bounds -> Nat]
BY DEF TypeInv, TypeOK, Spend

(* Marking a draft pending, in conflict or rejected keeps its type. *)
LEMMA StateChange ==
  ASSUME TypeInv, NEW j \in Job, j.own \in Users, NEW s \in {"pending", "conflict", "rejected"}
  PROVE  Same(j) => [item[j.own] EXCEPT !.state = s] \in Drafts
BY DEF TypeInv, ItemsReal, Same, Drafts, Item

(* What one running call may be taken to be. *)
LEMMA RunningType ==
  ASSUME TypeInv, NEW t \in Tabs, NEW k \in Kinds, job[t][k].pc # "idle"
  PROVE  job[t][k] \in Job /\ job[t][k].own \in Users /\ job[t][k].val \in Values
BY DEF TypeInv, TypeOK, JobsReal, Real

(* Staging and sending a save keeps the types. *)
LEMMA SaveStartType ==
  ASSUME TypeInv, NEW t \in Tabs, NEW v \in Values, SaveStart(t, v)
  PROVE  TypeInv'
<1> DEFINE u == owner[t]
           r == spent.edits + 1
           j == [Idle EXCEPT !.pc = "sent", !.own = u, !.rev = r, !.val = v, !.exp = view[t]]
<1>1. u \in Users /\ r \in Nat /\ view[t] \in Nat
  BY DEF SaveStart, TypeInv, TypeOK, Bounds
<1>2. j \in Job /\ j.own = u /\ j.val = v
  BY <1>1, IdleType DEF Job
<1>3. Staged(u, t, v, r) \in Drafts
  <2>1. item[u] \in Drafts
    BY <1>1 DEF TypeInv, ItemsReal
  <2> QED BY <1>1, <2>1 DEF Staged, Drafts, Item
<1>4. Step(t, "save", j) /\ Send(t, "save", j) /\ Spend("edits")
  BY DEF SaveStart
<1>5. job' \in [Tabs -> [Kinds -> Job]] /\ JobsReal' /\ net' \subseteq Request
  BY <1>1, <1>2, <1>4, StepType, SendType DEF Kinds, Real
<1>6. spent' \in [DOMAIN Bounds -> Nat]
  BY <1>4, SpendType DEF Bounds
<1>7. item' \in [Users -> Drafts]
  BY <1>1, <1>3 DEF SaveStart, TypeInv, ItemsReal
<1>8. latest' \in [Users -> Draft]
  BY <1>1 DEF SaveStart, TypeInv, TypeOK, Draft
<1>9. known' \in [Users -> SUBSET Nat] /\ typed' \in [Users -> SUBSET Values]
  BY <1>1 DEF SaveStart, Learn, TypeInv, TypeOK
<1> QED
  BY <1>5, <1>6, <1>7, <1>8, <1>9
  DEF SaveStart, TypeInv, TypeOK, ItemsReal, Drafts, ServerTypeOK, serverVars

(* The answer of a save keeps the types. *)
LEMMA SaveReplyType ==
  ASSUME TypeInv, NEW t \in Tabs, SaveReply(t)
  PROVE  TypeInv'
<1> DEFINE j == job[t]["save"]
<1>1. j \in Job /\ j.own \in Users /\ j.val \in Values
  BY RunningType DEF SaveReply, Kinds
<1>2. j.row.ver \in Nat
  BY <1>1 DEF Job, Shown
<1>3. CASE j.reply \in {"ok", "held", "replayed"}
  <2>1. item' \in [Users -> Drafts]
    BY <1>1, <1>2, <1>3, ConfirmType DEF SaveReply
  <2>2. job' \in [Tabs -> [Kinds -> Job]] /\ JobsReal'
    BY <1>3, FinishType DEF SaveReply, Kinds
  <2>3. view' \in [Tabs -> Nat] /\ known' \in [Users -> SUBSET Nat]
    <3>1. view \in [Tabs -> Nat] /\ known \in [Users -> SUBSET Nat]
      BY DEF TypeInv, TypeOK
    <3>2. Learn(j.own, j.row.ver)
          /\ view' = IF j.row.ver # 0 THEN [view EXCEPT ![t] = j.row.ver] ELSE view
      BY <1>3 DEF SaveReply
    <3> QED BY <1>1, <1>2, <3>1, <3>2 DEF Learn
  <2> QED BY <2>1, <2>2, <2>3 DEF SaveReply, TypeInv, TypeOK, ItemsReal, Drafts, ServerTypeOK, serverVars
<1>4. CASE j.reply \notin {"ok", "held", "replayed"}
  <2>1. [j EXCEPT !.pc = "verify"] \in Job /\ Real([j EXCEPT !.pc = "verify"])
    BY <1>1 DEF Job, Real
  <2>2. job' \in [Tabs -> [Kinds -> Job]] /\ JobsReal'
    BY <1>4, <2>1, StepType DEF SaveReply, Kinds
  <2> QED BY <1>4, <2>2 DEF SaveReply, TypeInv, TypeOK, ItemsReal, Drafts, ServerTypeOK, serverVars
<1> QED BY <1>3, <1>4

(* The re-read after a failed save keeps the types. *)
LEMMA SaveResolveType ==
  ASSUME TypeInv, NEW t \in Tabs, NEW reached \in BOOLEAN, NEW online \in BOOLEAN,
         SaveResolve(t, reached, online)
  PROVE  TypeInv'
<1> DEFINE j == job[t]["save"]
<1>1. j \in Job /\ j.own \in Users /\ j.val \in Values
  BY RunningType DEF SaveResolve, Kinds
<1>2. grade.ver \in Nat
  BY DEF TypeInv, TypeOK, ServerTypeOK, Row
<1>3. ASSUME NEW s \in {"conflict", "rejected"}, Attention(t, j, s)
      PROVE  item' \in [Users -> Drafts]
  <2>1. Same(j) => [item[j.own] EXCEPT !.state = s] \in Drafts
    BY <1>1, StateChange
  <2>2. CASE Owns(t, j)
    <3>1. Patch(j, [item[j.own] EXCEPT !.state = s])
      BY <1>3, <2>2 DEF Attention
    <3> QED BY <1>1, <2>1, <3>1, PatchType
  <2>3. CASE ~Owns(t, j)
    BY <1>3, <2>3 DEF Attention, TypeInv, ItemsReal
  <2> QED BY <2>2, <2>3
<1>4. item' \in [Users -> Drafts]
  BY <1>1, <1>2, <1>3, ConfirmType DEF SaveResolve, TypeInv, ItemsReal
<1>5. job' \in [Tabs -> [Kinds -> Job]] /\ JobsReal'
  BY FinishType DEF SaveResolve, Kinds
<1>6. spent' \in [DOMAIN Bounds -> Nat]
  BY SpendType DEF SaveResolve, TypeInv, TypeOK, Bounds
<1>7. view' \in [Tabs -> Nat] /\ latest' \in [Users -> Draft]
  BY <1>1, <1>2 DEF SaveResolve, TypeInv, TypeOK, Draft
<1> QED
  BY <1>4, <1>5, <1>6, <1>7 DEF SaveResolve, TypeInv, TypeOK, ItemsReal, Drafts, ServerTypeOK, serverVars

(* Taking a draft for the flush, reading and giving up keep the types. *)
LEMMA FlushBeginType ==
  ASSUME TypeInv, NEW t \in Tabs, FlushStart(t) \/ FlushRead(t) \/ FlushGiveUp(t)
  PROVE  TypeInv'
<1>1. CASE FlushStart(t)
  <2> DEFINE u == owner[t]
             j == [Idle EXCEPT !.pc = "lookup", !.own = u, !.rev = item[u].rev,
                   !.val = item[u].val, !.exp = item[u].exp, !.att = item[u].att]
  <2>1. u \in Users /\ item[u] \in Drafts /\ item[u].state = "pending"
    BY <1>1 DEF FlushStart, TypeInv, TypeOK, ItemsReal
  <2>2. j \in Job /\ Real(j)
    BY <2>1, IdleType DEF Drafts, Item, Job, Real
  <2>3. job' \in [Tabs -> [Kinds -> Job]] /\ JobsReal'
    BY <1>1, <2>2, StepType DEF FlushStart, Kinds
  <2> QED
    BY <1>1, <2>3 DEF FlushStart, TypeInv, TypeOK, ItemsReal, Drafts, ServerTypeOK, serverVars, history
<1>2. CASE FlushRead(t)
  <2> DEFINE j == job[t]["flush"]
             next == IF j.pc = "lookup" THEN "looked" ELSE "verified"
             j2 == [j EXCEPT !.pc = next, !.row = Current]
  <2>1. j \in Job /\ j.own \in Users /\ j.val \in Values
    BY <1>2, RunningType DEF FlushRead, Kinds
  <2>2. Current \in Shown
    BY DEF Current, Shown, TypeInv, TypeOK, ServerTypeOK, Row
  <2>3. j2 \in Job /\ Real(j2)
    BY <2>1, <2>2 DEF Job, Real
  <2>4. job' \in [Tabs -> [Kinds -> Job]] /\ JobsReal'
    BY <1>2, <2>3, StepType DEF FlushRead, Kinds
  <2>5. latest' \in [Users -> Draft]
    BY <1>2, <2>1 DEF FlushRead, TypeInv, TypeOK, Draft
  <2> QED
    BY <1>2, <2>4, <2>5 DEF FlushRead, TypeInv, TypeOK, ItemsReal, Drafts, ServerTypeOK, serverVars
<1>3. CASE FlushGiveUp(t)
  <2>1. job' \in [Tabs -> [Kinds -> Job]] /\ JobsReal'
    BY <1>3, FinishType DEF FlushGiveUp, Kinds
  <2>2. spent' \in [DOMAIN Bounds -> Nat]
    BY <1>3, SpendType DEF FlushGiveUp, TypeInv, TypeOK, Bounds
  <2> QED
    BY <1>3, <2>1, <2>2
    DEF FlushGiveUp, TypeInv, TypeOK, ItemsReal, Drafts, ServerTypeOK, serverVars, history
<1> QED BY <1>1, <1>2, <1>3

(* Whatever the flush decides about the row it read keeps the types. *)
LEMMA FlushDecideType ==
  ASSUME TypeInv, NEW t \in Tabs, FlushDecide(t)
  PROVE  TypeInv'
<1> DEFINE j == job[t]["flush"]
           i == item[j.own]
<1>1. j \in Job /\ j.own \in Users /\ j.val \in Values
  BY RunningType DEF FlushDecide, Kinds
<1>2. j.row.ver \in Nat /\ j.row.val \in Values \cup {NoValue} /\ j.att \subseteq Values
  BY <1>1 DEF Job, Shown
<1>3. i \in Drafts /\ NoItem \in Drafts
  BY <1>1 DEF TypeInv, ItemsReal, NoItem, Drafts, Item
<1>4. CASE FlushSynced(t, j)
  <2>1. item' \in [Users -> Drafts]
    BY <1>1, <1>3, <1>4, PatchType DEF FlushSynced
  <2>2. job' \in [Tabs -> [Kinds -> Job]] /\ JobsReal'
    BY <1>4, FinishType DEF FlushSynced, Kinds
  <2>3. view' \in [Tabs -> Nat] /\ known' \in [Users -> SUBSET Nat]
    BY <1>1, <1>2, <1>4 DEF FlushSynced, Learn, TypeInv, TypeOK
  <2> QED
    BY <1>4, <2>1, <2>2, <2>3
    DEF FlushDecide, FlushSynced, TypeInv, TypeOK, ItemsReal, Drafts, ServerTypeOK, serverVars
<1>5. CASE FlushAdvance(t, j)
  <2> DEFINE j2 == [j EXCEPT !.pc = "sent", !.exp = j.row.ver, !.att = @ \ {j.row.val}]
             i2 == [i EXCEPT !.exp = j.row.ver, !.state = "pending",
                             !.att = (j.att \ {j.row.val}) \cup {j.val}]
  <2>1. j2 \in Job /\ Real(j2) /\ j2.own \in Users /\ j2.val \in Values
    BY <1>1, <1>2 DEF Job, Real
  <2>2. Same(j) => i2 \in Drafts
    BY <1>1, <1>2, <1>3 DEF Same, Drafts, Item
  <2>3. CASE Same(j)
    <3>1. Patch(j, i2) /\ Step(t, "flush", j2) /\ Send(t, "flush", j2)
      BY <1>5, <2>3 DEF FlushAdvance
    <3>2. item' \in [Users -> Drafts]
      BY <1>1, <2>2, <3>1, PatchType
    <3>3. job' \in [Tabs -> [Kinds -> Job]] /\ JobsReal' /\ net' \subseteq Request
      BY <2>1, <3>1, StepType, SendType DEF Kinds
    <3> QED
      BY <1>5, <3>2, <3>3
      DEF FlushDecide, FlushAdvance, TypeInv, TypeOK, ItemsReal, Drafts, ServerTypeOK, serverVars
  <2>4. CASE ~Same(j)
    <3>1. job' \in [Tabs -> [Kinds -> Job]] /\ JobsReal'
      BY <1>5, <2>4, FinishType DEF FlushAdvance, Kinds
    <3> QED
      BY <1>5, <2>4, <3>1
      DEF FlushDecide, FlushAdvance, TypeInv, TypeOK, ItemsReal, Drafts, ServerTypeOK, serverVars
  <2> QED BY <2>3, <2>4
<1>6. CASE FlushSend(t, j)
  <2> DEFINE j2 == [j EXCEPT !.pc = "sent"]
             i2 == [i EXCEPT !.att = @ \cup {j.val}, !.state = "pending"]
  <2>1. j2 \in Job /\ Real(j2) /\ j2.own \in Users /\ j2.val \in Values
    BY <1>1 DEF Job, Real
  <2>2. Same(j) => i2 \in Drafts
    BY <1>1, <1>3 DEF Same, Drafts, Item
  <2>3. Patch(j, i2) /\ Step(t, "flush", j2) /\ Send(t, "flush", j2)
    BY <1>6 DEF FlushSend
  <2>4. item' \in [Users -> Drafts]
    BY <1>1, <2>2, <2>3, PatchType
  <2>5. job' \in [Tabs -> [Kinds -> Job]] /\ JobsReal' /\ net' \subseteq Request
    BY <2>1, <2>3, StepType, SendType DEF Kinds
  <2> QED
    BY <1>6, <2>4, <2>5
    DEF FlushDecide, FlushSend, TypeInv, TypeOK, ItemsReal, Drafts, ServerTypeOK, serverVars
<1>7. CASE FlushConflict(t, j)
  <2>1. Same(j) => [i EXCEPT !.state = "conflict"] \in Drafts
    BY <1>1, StateChange
  <2>2. item' \in [Users -> Drafts]
    BY <1>1, <1>7, <2>1, PatchType DEF FlushConflict
  <2>3. job' \in [Tabs -> [Kinds -> Job]] /\ JobsReal'
    BY <1>7, FinishType DEF FlushConflict, Kinds
  <2> QED
    BY <1>7, <2>2, <2>3
    DEF FlushDecide, FlushConflict, TypeInv, TypeOK, ItemsReal, Drafts, ServerTypeOK, serverVars
<1> QED BY <1>4, <1>5, <1>6, <1>7 DEF FlushDecide

(* The answer of the flush keeps the types. *)
LEMMA FlushReplyType ==
  ASSUME TypeInv, NEW t \in Tabs, FlushReply(t)
  PROVE  TypeInv'
<1> DEFINE j == job[t]["flush"]
<1>1. j \in Job /\ j.own \in Users /\ j.val \in Values /\ j.row.ver \in Nat
  BY RunningType DEF FlushReply, Kinds, Job, Shown
<1>2. Real([j EXCEPT !.pc = "verify"]) /\ [j EXCEPT !.pc = "verify"] \in Job
  BY <1>1 DEF Job, Real
<1>3. job' \in [Tabs -> [Kinds -> Job]] /\ JobsReal'
  BY <1>2, FinishType, StepType DEF FlushReply, Kinds
<1>4. item' \in [Users -> Drafts]
  <2>1. CASE j.reply \in {"ok", "held", "replayed"}
    BY <1>1, <2>1, ConfirmType DEF FlushReply
  <2>2. ASSUME NEW s \in {"pending", "rejected"}, Patch(j, [item[j.own] EXCEPT !.state = s])
        PROVE  item' \in [Users -> Drafts]
    BY <1>1, <2>2, StateChange, PatchType
  <2>3. CASE UNCHANGED item
    BY <2>3 DEF TypeInv, ItemsReal
  <2> QED BY <2>1, <2>2, <2>3 DEF FlushReply
<1>5. view' \in [Tabs -> Nat] /\ known' \in [Users -> SUBSET Nat]
  <2>1. view \in [Tabs -> Nat] /\ known \in [Users -> SUBSET Nat]
    BY DEF TypeInv, TypeOK
  <2>2. \/ Learn(j.own, j.row.ver)
           /\ view' = IF j.row.ver # 0 THEN [view EXCEPT ![t] = j.row.ver] ELSE view
        \/ UNCHANGED <<view, known>>
    BY DEF FlushReply
  <2> QED BY <1>1, <2>1, <2>2 DEF Learn
<1> QED
  BY <1>3, <1>4, <1>5 DEF FlushReply, TypeInv, TypeOK, ItemsReal, Drafts, ServerTypeOK, serverVars

(* The look after a conflict keeps the types. *)
LEMMA FlushVerifyType ==
  ASSUME TypeInv, NEW t \in Tabs, FlushVerify(t)
  PROVE  TypeInv'
<1> DEFINE j == job[t]["flush"]
<1>1. j \in Job /\ j.own \in Users /\ j.val \in Values /\ j.row.ver \in Nat
  BY RunningType DEF FlushVerify, Kinds, Job, Shown
<1>2. job' \in [Tabs -> [Kinds -> Job]] /\ JobsReal'
  BY FinishType DEF FlushVerify, Kinds
<1>3. item' \in [Users -> Drafts]
  <2>1. CASE Confirm(t, j, j.row.ver)
    BY <1>1, <2>1, ConfirmType
  <2>2. CASE Patch(j, [item[j.own] EXCEPT !.state = "conflict"])
    BY <1>1, <2>2, StateChange, PatchType
  <2> QED BY <2>1, <2>2 DEF FlushVerify
<1>4. view' \in [Tabs -> Nat] /\ known' \in [Users -> SUBSET Nat]
  <2>1. view \in [Tabs -> Nat] /\ known \in [Users -> SUBSET Nat]
    BY DEF TypeInv, TypeOK
  <2>2. \/ Learn(j.own, j.row.ver) /\ view' = [view EXCEPT ![t] = j.row.ver]
        \/ UNCHANGED <<view, known>>
    BY DEF FlushVerify
  <2> QED BY <1>1, <2>1, <2>2 DEF Learn
<1> QED
  BY <1>2, <1>3, <1>4 DEF FlushVerify, TypeInv, TypeOK, ItemsReal, Drafts, ServerTypeOK, serverVars

(* Handling a request and delivering its answer keep the types. *)
LEMMA ServerHandleType ==
  ASSUME TypeInv, NetInv, NEW r \in net, ServerHandle(r)
  PROVE  TypeInv'
<1>1. r \in Request
  BY DEF TypeInv, TypeOK
<1>2. PICK kind \in AnswerKinds :
        /\ Post(r, kind) /\ Deliver(r, kind)
        /\ latest' = IF kind \in Accepted /\ latest[r.own].rev = r.rev
                     THEN [latest EXCEPT ![r.own].acked = TRUE] ELSE latest
  BY DEF ServerHandle
<1>3. ServerTypeOK'
  BY <1>1, <1>2, PostType DEF Request, TypeInv, TypeOK
<1>4. job' \in [Tabs -> [Kinds -> Job]] /\ JobsReal'
  <2> DEFINE row == IF kind \in {"ok", "replayed"}
                    THEN [val |-> grade'.val, ver |-> grade'.ver] ELSE Absent
             j2 == [job[r.tab][r.kind] EXCEPT !.pc = "answered", !.reply = kind, !.row = row]
  <2>1. row \in Shown
    BY <1>3 DEF ServerTypeOK, Row, Shown, Absent
  <2>2. CASE r.tab = NoTab
    BY <1>2, <2>2 DEF Deliver, TypeInv, TypeOK, JobsReal, Real
  <2>3. CASE r.tab # NoTab
    <3>1. r.tab \in Tabs /\ r.kind \in Kinds
      BY <1>1, <2>3 DEF Request
    <3>2. job[r.tab][r.kind].pc = "sent"
      BY <3>1 DEF NetInv, Awaited
    <3>3. job[r.tab][r.kind] \in Job /\ job[r.tab][r.kind].own \in Users
          /\ job[r.tab][r.kind].val \in Values
      BY <3>1, <3>2, RunningType
    <3>5. j2 \in Job /\ Real(j2)
      BY <2>1, <3>3 DEF Job, Real, Replies
    <3>4. Step(r.tab, r.kind, j2)
      BY <1>2, <2>3 DEF Deliver, Step
    <3> QED BY <3>1, <3>5, <3>4, StepType
  <2> QED BY <2>2, <2>3
<1>5. latest' \in [Users -> Draft]
  BY <1>1, <1>2 DEF TypeInv, TypeOK, Draft, Request
<1> QED
  BY <1>3, <1>4, <1>5
  DEF ServerHandle, TypeInv, TypeOK, ItemsReal, Drafts

(* Losing an answer and reloading a tab keep the types. *)
LEMMA DetachType ==
  ASSUME TypeInv, NEW t \in Tabs, NEW k \in Kinds, LoseAnswer(t, k) \/ Reload(t)
  PROVE  TypeInv'
<1>1. CASE LoseAnswer(t, k)
  <2> DEFINE j2 == [job[t][k] EXCEPT !.pc = "answered", !.reply = "lost", !.row = Absent]
  <2>1. j2 \in Job /\ Real(j2)
    <3>1. job[t][k] \in Job /\ job[t][k].own \in Users /\ job[t][k].val \in Values
      BY <1>1, RunningType DEF LoseAnswer
    <3> QED BY <3>1 DEF Job, Real, Replies, Shown, Absent
  <2>2. job' \in [Tabs -> [Kinds -> Job]] /\ JobsReal'
    BY <1>1, <2>1, StepType DEF LoseAnswer
  <2>3. net' \subseteq Request
    <3>1. net \subseteq Request
      BY DEF TypeInv, TypeOK
    <3>2. ASSUME NEW q \in net PROVE [q EXCEPT !.tab = NoTab] \in Request
      BY <3>1 DEF Request
    <3> QED BY <1>1, <3>1, <3>2 DEF LoseAnswer, Detach, Orphaned
  <2>4. spent' \in [DOMAIN Bounds -> Nat]
    BY <1>1, SpendType DEF LoseAnswer, Bounds
  <2> QED
    BY <1>1, <2>2, <2>3, <2>4
    DEF LoseAnswer, TypeInv, TypeOK, ItemsReal, Drafts, ServerTypeOK, serverVars, history
<1>2. CASE Reload(t)
  <2>1. job' \in [Tabs -> [Kinds -> Job]] /\ JobsReal'
    BY <1>2, IdleType DEF Reload, TypeInv, TypeOK, JobsReal, Real, Idle
  <2>2. net' \subseteq Request
    <3>1. net \subseteq Request
      BY DEF TypeInv, TypeOK
    <3>2. ASSUME NEW q \in net PROVE [q EXCEPT !.tab = NoTab] \in Request
      BY <3>1 DEF Request
    <3> QED BY <1>2, <3>1, <3>2 DEF Reload
  <2>3. spent' \in [DOMAIN Bounds -> Nat]
    BY <1>2, SpendType DEF Reload, Bounds
  <2> QED
    BY <1>2, <2>1, <2>2, <2>3
    DEF Reload, TypeInv, TypeOK, ItemsReal, Drafts, ServerTypeOK, Row, serverVars, history
<1> QED BY <1>1, <1>2

(* Sign-in, sign-out, the session check and a refresh keep the types. *)
LEMMA AccountType ==
  ASSUME TypeInv, NEW t \in Tabs, NEW u \in Users,
         Refresh(t) \/ Logout(t) \/ SessionCheck(t) \/ Login(t, u)
  PROVE  TypeInv'
<1>1. Spend("logins") => spent' \in [DOMAIN Bounds -> Nat]
  BY SpendType DEF Bounds
<1> USE DEF TypeInv, TypeOK, JobsReal, Real, ItemsReal, Drafts, ServerTypeOK, serverVars, history
<1>2. CASE Refresh(t)
  BY <1>2 DEF Refresh, Row
<1>3. CASE Logout(t)
  BY <1>1, <1>3 DEF Logout
<1>4. CASE SessionCheck(t)
  BY <1>4 DEF SessionCheck
<1>5. CASE Login(t, u)
  BY <1>1, <1>5 DEF Login, Row
<1> QED BY <1>2, <1>3, <1>4, <1>5

(* The operations of other devices keep the types. *)
LEMMA OthersType ==
  ASSUME TypeInv, NEW u \in Users, NEW v \in Values, NEW s \in StudentStatus,
         OtherWrite(u, v) \/ OtherDelete \/ OtherStatus(s)
  PROVE  TypeInv'
<1>1. Spend("others") /\ UNCHANGED deviceVars /\ UNCHANGED <<latest, known>>
  BY DEF OtherWrite, OtherDelete, OtherStatus, history
<1>2. spent' \in [DOMAIN Bounds -> Nat]
  BY <1>1, SpendType DEF Bounds
<1>3. ServerTypeOK'
  <2>1. CASE OtherWrite(u, v)
    <3> DEFINE req == [own |-> u, cookie |-> u, val |-> v, exp |-> grade.ver]
    <3>1. PICK kind \in AnswerKinds : Post(req, kind)
      BY <2>1 DEF OtherWrite, AnswerKinds
    <3>2. ServerTypeOK
      BY DEF TypeInv, TypeOK
    <3>3. req.cookie \in Users \cup {Nobody} /\ req.val \in Values
      OBVIOUS
    <3> HIDE DEF req
    <3> QED BY <3>1, <3>2, <3>3, PostType
  <2> QED BY <2>1, OtherType DEF OtherDelete, OtherStatus, TypeInv, TypeOK
<1>4. typed' \in [Users -> SUBSET Values]
  BY DEF OtherWrite, OtherDelete, OtherStatus, history, TypeInv, TypeOK
<1> QED
  BY <1>1, <1>2, <1>3, <1>4
  DEF deviceVars, TypeInv, TypeOK, JobsReal, Real, ItemsReal, Drafts

(* Ignoring an answer keeps the types. *)
LEMMA AbandonType ==
  ASSUME TypeInv, NEW t \in Tabs, SaveAbandon(t)
  PROVE  TypeInv'
<1>1. job' \in [Tabs -> [Kinds -> Job]] /\ JobsReal'
  BY FinishType DEF SaveAbandon, Kinds
<1>2. spent' \in [DOMAIN Bounds -> Nat]
  BY SpendType DEF SaveAbandon, Bounds
<1> QED
  BY <1>1, <1>2 DEF SaveAbandon, TypeInv, TypeOK, ItemsReal, Drafts, ServerTypeOK, serverVars, history

-----------------------------------------------------------------------------
(***************************************************************************)
(* Requests and the calls that wait for them.                              *)
(***************************************************************************)
LEMMA NetStep ==
  ASSUME TypeInv, NetInv, NEW t \in Tabs, NEW k \in Kinds, NEW j,
         job[t][k].pc # "sent", Step(t, k, j), UNCHANGED net
  PROVE  NetInv'
BY DEF TypeInv, TypeOK, NetInv, Awaited, Step, Request

(* Sending from an idle or reading call leaves one request per waiting call. *)
LEMMA NetSend ==
  ASSUME TypeInv, NetInv, NEW t \in Tabs, NEW k \in Kinds, NEW j,
         job[t][k].pc # "sent", j.pc = "sent", Step(t, k, j), Send(t, k, j)
  PROVE  NetInv'
<1>1. \A r \in net : r \in Request /\ (r.tab \in Tabs => Awaited(r))
  BY DEF TypeInv, TypeOK, NetInv
<1>2. \A r \in net : ~(r.tab = t /\ r.kind = k)
  BY <1>1 DEF Awaited
<1>3. PICK n : /\ net' = net \cup {n} /\ n.tab = t /\ n.kind = k
               /\ n.own = j.own /\ n.rev = j.rev
  <2> DEFINE m == [own |-> j.own, cookie |-> session, val |-> j.val, exp |-> j.exp,
                   rev |-> j.rev, tab |-> t, kind |-> k]
  <2>1. /\ net' = net \cup {m} /\ m.tab = t /\ m.kind = k
        /\ m.own = j.own /\ m.rev = j.rev
    BY DEF Send
  <2> HIDE DEF m
  <2> QED BY <2>1
<1>4. Awaited(n)'
  BY <1>2, <1>3 DEF Awaited, Step, TypeInv, TypeOK
<1>5. ASSUME NEW r \in net, r.tab \in Tabs PROVE Awaited(r)'
  BY <1>1, <1>2, <1>3, <1>5 DEF Awaited, Step, TypeInv, TypeOK, Request
<1> QED BY <1>3, <1>4, <1>5 DEF NetInv

(* A handled request was its call's only one, so its answer finds the call. *)
LEMMA NetHandle ==
  ASSUME TypeInv, NetInv, NEW r \in net, ServerHandle(r)
  PROVE  NetInv'
<1>1. \A q \in net : q \in Request /\ (q.tab \in Tabs => Awaited(q))
  BY DEF TypeInv, TypeOK, NetInv
<1>2. net' = net \ {r}
  BY DEF ServerHandle
<1>3. ASSUME NEW q \in net, q # r, q.tab \in Tabs PROVE job'[q.tab][q.kind] = job[q.tab][q.kind]
  BY <1>1, <1>3 DEF ServerHandle, Deliver, Awaited, TypeInv, TypeOK, Request
<1> QED BY <1>1, <1>2, <1>3 DEF NetInv, Awaited

(* A dropped connection leaves no request waited for by the tab. *)
LEMMA NetDetach ==
  ASSUME TypeInv, NetInv, NEW t \in Tabs, NEW k \in Kinds, LoseAnswer(t, k) \/ Reload(t)
  PROVE  NetInv'
<1>1. \A q \in net : q \in Request /\ (q.tab \in Tabs => Awaited(q))
  BY DEF TypeInv, TypeOK, NetInv
<1>2. \A q \in net : [q EXCEPT !.tab = NoTab].tab \notin Tabs
  BY <1>1, OutboxAssumption DEF Request
<1>3. CASE LoseAnswer(t, k)
  <2>1. \A q \in net' : q.tab \in Tabs => q \in net /\ ~(q.tab = t /\ q.kind = k)
    BY <1>2, <1>3 DEF LoseAnswer, Detach, Orphaned
  <2>2. ASSUME NEW q \in net', q.tab \in Tabs
        PROVE  q \in net /\ job'[q.tab][q.kind] = job[q.tab][q.kind]
    BY <1>1, <1>3, <2>1, <2>2 DEF LoseAnswer, Step, TypeInv, TypeOK, Request
  <2> QED BY <1>1, <2>2 DEF NetInv, Awaited
<1>4. CASE Reload(t)
  <2>1. \A q \in net' : q.tab \in Tabs => q \in net /\ q.tab # t
    BY <1>2, <1>4 DEF Reload
  <2>2. ASSUME NEW q \in net', q.tab \in Tabs
        PROVE  q \in net /\ job'[q.tab][q.kind] = job[q.tab][q.kind]
    BY <1>1, <1>4, <2>1, <2>2 DEF Reload, TypeInv, TypeOK, Request
  <2> QED BY <1>1, <2>2 DEF NetInv, Awaited
<1> QED BY <1>3, <1>4

(* The steps of the calls keep every waited-for request matched to its call. *)
LEMMA NetRunning ==
  ASSUME TypeInv, NetInv, NEW t \in Tabs, Running(t) \/ SaveAbandon(t)
  PROVE  NetInv'
<1> USE DEF Finish, Kinds
<1>1. ASSUME NEW reached \in BOOLEAN, NEW online \in BOOLEAN, SaveResolve(t, reached, online)
      PROVE  NetInv'
  BY <1>1, NetStep DEF SaveResolve
<1>2. CASE SaveReply(t) \/ SaveAbandon(t)
  BY <1>2, NetStep DEF SaveReply, SaveAbandon
<1>3. CASE FlushStart(t)
  BY <1>3, NetStep DEF FlushStart, FlushFree
<1>4. CASE FlushRead(t)
  BY <1>4, NetStep DEF FlushRead
<1>5. CASE FlushGiveUp(t)
  BY <1>5, NetStep DEF FlushGiveUp
<1>6. CASE FlushReply(t)
  BY <1>6, NetStep DEF FlushReply
<1>7. CASE FlushVerify(t)
  BY <1>7, NetStep DEF FlushVerify
<1>8. CASE FlushDecide(t)
  <2> DEFINE j == job[t]["flush"]
  <2>1. job[t]["flush"].pc # "sent" /\ j \in Job
    BY <1>8 DEF FlushDecide, TypeInv, TypeOK
  <2>2. CASE FlushSynced(t, j)
    BY <2>1, <2>2, NetStep DEF FlushSynced
  <2>3. CASE FlushConflict(t, j)
    BY <2>1, <2>3, NetStep DEF FlushConflict
  <2>4. CASE FlushSend(t, j)
    <3>1. [j EXCEPT !.pc = "sent"].pc = "sent"
      BY <2>1 DEF Job
    <3> QED BY <2>1, <2>4, <3>1, NetSend DEF FlushSend
  <2>5. CASE FlushAdvance(t, j)
    <3> DEFINE j2 == [j EXCEPT !.pc = "sent", !.exp = j.row.ver, !.att = @ \ {j.row.val}]
    <3>1. j2.pc = "sent"
      BY <2>1 DEF Job
    <3>2. \/ Step(t, "flush", j2) /\ Send(t, "flush", j2)
          \/ Step(t, "flush", Idle) /\ UNCHANGED net
      BY <2>5 DEF FlushAdvance
    <3> HIDE DEF j2
    <3> QED BY <2>1, <3>1, <3>2, NetSend, NetStep
  <2> QED BY <1>8, <2>2, <2>3, <2>4, <2>5 DEF FlushDecide
<1> QED BY <1>1, <1>2, <1>3, <1>4, <1>5, <1>6, <1>7, <1>8 DEF Running

(* The inductive step for the requests in flight. *)
LEMMA NetNext ==
  ASSUME TypeInv, NetInv, [Next]_vars
  PROVE  NetInv'
<1>1. ASSUME NEW t \in Tabs, NEW v \in Values, SaveStart(t, v) PROVE NetInv'
  <2> DEFINE j == [Idle EXCEPT !.pc = "sent", !.own = owner[t], !.rev = spent.edits + 1,
                               !.val = v, !.exp = view[t]]
  <2>1. Step(t, "save", j) /\ Send(t, "save", j) /\ job[t]["save"].pc # "sent"
    BY <1>1 DEF SaveStart
  <2>2. j.pc = "sent"
    BY DEF Idle
  <2> HIDE DEF j
  <2> QED BY <2>1, <2>2, NetSend DEF Kinds
<1>2. CASE UNCHANGED <<job, net>>
  BY <1>2 DEF NetInv, Awaited
<1>3. CASE UNCHANGED vars
  BY <1>2, <1>3 DEF vars, deviceVars
<1>4. ASSUME NEW t \in Tabs, Account(t), ~Reload(t) PROVE NetInv'
  BY <1>2, <1>4 DEF Account, Refresh, Logout, SessionCheck, Login
<1>5. ASSUME NEW u \in Users, NEW v \in Values, OtherWrite(u, v) PROVE NetInv'
  BY <1>2, <1>5 DEF OtherWrite, deviceVars
<1>6. ASSUME NEW s \in StudentStatus, OtherDelete \/ OtherStatus(s) PROVE NetInv'
  BY <1>2, <1>6 DEF OtherDelete, OtherStatus, deviceVars
<1>7. ASSUME NEW t \in Tabs, NEW k \in Kinds, LoseAnswer(t, k) \/ Reload(t) PROVE NetInv'
  BY <1>7, NetDetach
<1>8. "save" \in Kinds
  BY DEF Kinds
<1> QED
  BY <1>1, <1>3, <1>4, <1>5, <1>6, <1>7, <1>8, NetRunning, NetHandle DEF Next, Account, StudentStatus

(* The initial states are well typed and nothing is in flight. *)
LEMMA InitTypes == Init => TypeInv /\ NetInv
<1> SUFFICES ASSUME Init PROVE TypeInv /\ NetInv
  OBVIOUS
<1>1. ServerTypeOK
  BY DEF Init, ServerInit, ServerTypeOK, Missing, NoNote, Row, Note, StudentStatus
<1>2. NoItem \in Drafts
  BY DEF NoItem, Drafts, Item
<1>3. TypeOK
  BY <1>1, <1>2, IdleType DEF Init, TypeOK, Draft, Bounds, Drafts
<1>4. JobsReal /\ ItemsReal /\ NetInv
  BY <1>2 DEF Init, JobsReal, Real, Idle, ItemsReal, NetInv
<1> QED BY <1>3, <1>4 DEF TypeInv

(* The inductive step for the types. *)
LEMMA TypeNext ==
  ASSUME TypeInv, NetInv, [Next]_vars
  PROVE  TypeInv'
<1>1. ASSUME NEW t \in Tabs, Running(t) PROVE TypeInv'
  BY <1>1, SaveReplyType, SaveResolveType, FlushBeginType, FlushDecideType,
     FlushReplyType, FlushVerifyType DEF Running
<1>2. ASSUME NEW t \in Tabs, Account(t), ~Reload(t) PROVE TypeInv'
  <2>1. CASE \E u \in Users : Login(t, u)
    BY <2>1, AccountType
  <2>2. CASE Refresh(t) \/ Logout(t) \/ SessionCheck(t)
    <3>1. \E u : u \in Users
      BY <2>2 DEF Refresh, Logout, SessionCheck, TypeInv, TypeOK
    <3> QED BY <2>2, <3>1, AccountType
  <2> QED BY <1>2, <2>1, <2>2 DEF Account
<1>3. ASSUME NEW t \in Tabs, NEW k \in Kinds, LoseAnswer(t, k) \/ Reload(t) PROVE TypeInv'
  BY <1>3, DetachType
<1>4. ASSUME NEW u \in Users, NEW v \in Values, OtherWrite(u, v) PROVE TypeInv'
  <2>1. "active" \in StudentStatus
    BY DEF StudentStatus
  <2> QED BY <1>4, <2>1, OthersType
<1>5. CASE OtherDelete \/ \E s \in StudentStatus : OtherStatus(s)
  <2> SUFFICES ASSUME NEW s \in StudentStatus, OtherDelete \/ OtherStatus(s) PROVE TypeInv'
    BY <1>5 DEF StudentStatus
  <2>1. Spend("others") /\ UNCHANGED <<deviceVars, history>>
    BY DEF OtherDelete, OtherStatus
  <2>2. ServerTypeOK'
    BY OtherType DEF OtherDelete, OtherStatus, TypeInv, TypeOK
  <2>3. spent' \in [DOMAIN Bounds -> Nat]
    BY <2>1, SpendType DEF Bounds
  <2> QED
    BY <2>1, <2>2, <2>3
    DEF deviceVars, history, TypeInv, TypeOK, JobsReal, Real, ItemsReal, Drafts
<1>6. CASE UNCHANGED vars
  BY <1>6 DEF vars, serverVars, deviceVars, history, TypeInv, TypeOK, ServerTypeOK,
              JobsReal, Real, ItemsReal, Drafts
<1>7. "save" \in Kinds
  BY DEF Kinds
<1> QED
  BY <1>1, <1>2, <1>3, <1>4, <1>5, <1>6, <1>7, SaveStartType, AbandonType, ServerHandleType
  DEF Next, Account

(***************************************************************************)
(* Every reachable state has the types of TypeOK: the drafts, the calls,   *)
(* the requests and the rows, whatever tabs, accounts and faults do.       *)
(***************************************************************************)
THEOREM TypesHold == Spec => [](TypeInv /\ NetInv)
<1>1. Init => TypeInv /\ NetInv
  BY InitTypes
<1>2. TypeInv /\ NetInv /\ [Next]_vars => (TypeInv /\ NetInv)'
  BY TypeNext, NetNext
<1> QED BY <1>1, <1>2, PTL DEF Spec

(* Every reachable state has the types of TypeOK. *)
THEOREM TypeCorrect == Spec => []TypeOK
<1>1. TypeInv => TypeOK
  BY DEF TypeInv
<1> QED BY <1>1, TypesHold, PTL

-----------------------------------------------------------------------------
(***************************************************************************)
(* A draft is not lost.  The invariant: the stored draft is the last one   *)
(* staged, an empty slot means it was acknowledged, and a call that        *)
(* carries the last revision carries its value and, once it would remove   *)
(* the draft (Settled), knows it acknowledged.                             *)
(***************************************************************************)
Settled(j) ==
  \/ j.pc = "answered" /\ j.reply \in Accepted
  \/ j.pc \in {"looked", "verified"} /\ Matches(j.row, j.val)

CallKnows(j, L, n) ==
  j.pc # "idle" =>
    /\ j.rev <= n
    /\ j.rev = L[j.own].rev =>
         j.val = L[j.own].val /\ (Settled(j) => L[j.own].acked)

ItemsFine(I, L) ==
  \A u \in Users :
    IF I[u].state = "none" THEN L[u].acked
    ELSE I[u].rev = L[u].rev /\ I[u].val = L[u].val

CallsKnow == \A t \in Tabs, k \in Kinds : CallKnows(job[t][k], latest, spent.edits)

DraftInv ==
  /\ ItemsFine(item, latest)
  /\ CallsKnow
  /\ \A u \in Users : latest[u].rev <= spent.edits

(* What every step but the staging of a draft does to the last drafts. *)
LatestKept ==
  /\ spent'.edits = spent.edits
  /\ \A u \in Users : /\ latest'[u].rev = latest[u].rev /\ latest'[u].val = latest[u].val
                      /\ latest[u].acked => latest'[u].acked

(* A counted step does not change the other bounds. *)
LEMMA Unspent ==
  ASSUME TypeInv, NEW b \in {"faults", "others", "logins"}, UNCHANGED spent \/ Spend(b)
  PROVE  spent'.edits = spent.edits
BY DEF TypeInv, TypeOK, Spend, Bounds

(* A step that leaves the last drafts, the items and the calls alone keeps DraftInv. *)
LEMMA LatestSame ==
  ASSUME TypeInv, spent'.edits = spent.edits, UNCHANGED latest
  PROVE  LatestKept
BY DEF LatestKept

(* Acknowledging the last draft asks nothing more of the outbox. *)
LEMMA LatestAcked ==
  ASSUME TypeInv, spent'.edits = spent.edits, NEW u \in Users,
         latest' = [latest EXCEPT ![u].acked = TRUE]
  PROVE  LatestKept /\ latest'[u].acked
<1>1. latest \in [Users -> Draft]
  BY DEF TypeInv, TypeOK
<1> QED BY <1>1 DEF LatestKept, Draft

(* Revisions never exceed the number of drafts saved. *)
LEMMA BoundKept ==
  ASSUME DraftInv, LatestKept
  PROVE  (\A u \in Users : latest[u].rev <= spent.edits)'
BY DEF DraftInv, LatestKept

(* A call that keeps its snapshot keeps what DraftInv says of calls. *)
LEMMA CallStep ==
  ASSUME TypeInv, DraftInv, LatestKept, NEW t \in Tabs, NEW k \in Kinds, NEW j,
         Step(t, k, j), CallKnows(j, latest', spent'.edits)
  PROVE  CallsKnow'
<1> SUFFICES ASSUME NEW s \in Tabs, NEW q \in Kinds
             PROVE  CallKnows(job'[s][q], latest', spent'.edits)
  BY DEF CallsKnow
<1>1. CASE s = t /\ q = k
  BY <1>1 DEF Step, TypeInv, TypeOK
<1>2. CASE ~(s = t /\ q = k)
  <2>1. job'[s][q] = job[s][q]
    BY <1>2 DEF Step, TypeInv, TypeOK
  <2>2. job[s][q].pc # "idle" => job[s][q].own \in Users
    BY DEF TypeInv, JobsReal, Real
  <2>3. CallKnows(job[s][q], latest, spent.edits)
    BY DEF DraftInv, CallsKnow
  <2> QED BY <2>1, <2>2, <2>3 DEF CallKnows, LatestKept
<1> QED BY <1>1, <1>2

(* Ending a call keeps what DraftInv says of calls. *)
LEMMA CallFinish ==
  ASSUME TypeInv, DraftInv, LatestKept, NEW t \in Tabs, NEW k \in Kinds, Finish(t, k)
  PROVE  CallsKnow'
<1>1. CallKnows(Idle, latest', spent'.edits)
  BY DEF CallKnows, Idle
<1> QED BY <1>1, CallStep DEF Finish

(* Calls that do not change keep what DraftInv says of them. *)
LEMMA CallSame ==
  ASSUME TypeInv, DraftInv, LatestKept, UNCHANGED job
  PROVE  CallsKnow'
<1>1. \A s \in Tabs, q \in Kinds :
        /\ job[s][q].pc # "idle" => job[s][q].own \in Users
        /\ CallKnows(job[s][q], latest, spent.edits)
  BY DEF TypeInv, JobsReal, Real, DraftInv, CallsKnow
<1> QED BY <1>1 DEF CallsKnow, CallKnows, LatestKept

(* Drafts that do not change keep what DraftInv says of them. *)
LEMMA ItemsSame ==
  ASSUME DraftInv, LatestKept, UNCHANGED item
  PROVE  ItemsFine(item', latest')
BY DEF DraftInv, ItemsFine, LatestKept

(* A guarded update of a draft keeps its revision and its value. *)
LEMMA ItemsPatched ==
  ASSUME TypeInv, DraftInv, LatestKept, NEW j \in Job, j.own \in Users, NEW new,
         Same(j) => /\ new.state # "none" /\ new.rev = item[j.own].rev
                    /\ new.val = item[j.own].val,
         Patch(j, new)
  PROVE  ItemsFine(item', latest')
BY DEF DraftInv, ItemsFine, LatestKept, Patch, Same, TypeInv, TypeOK

(* A confirmation removes a draft of the same revision only, else rebases it. *)
LEMMA ItemsConfirmed ==
  ASSUME TypeInv, DraftInv, LatestKept, NEW t \in Tabs, NEW j \in Job, j.own \in Users,
         NEW ver, Confirm(t, j, ver),
         j.rev = latest[j.own].rev => latest'[j.own].acked
  PROVE  ItemsFine(item', latest')
<1> DEFINE i == item[j.own]
           i2 == [i EXCEPT !.exp = IF ver # 0 THEN ver ELSE @, !.att = @ \ {j.val}, !.state = "pending"]
<1>1. i \in Item /\ item \in [Users -> Item]
  BY DEF TypeInv, TypeOK
<1>2. i2.rev = i.rev /\ i2.val = i.val /\ i2.state = "pending"
  BY <1>1 DEF Item
<1>3. CASE ~(Owns(t, j) /\ i.state # "none")
  <2>1. UNCHANGED item
    BY <1>3 DEF Confirm
  <2> QED BY <2>1, ItemsSame
<1>4. CASE Owns(t, j) /\ i.state # "none" /\ Same(j)
  <2>1. item' = [item EXCEPT ![j.own] = NoItem]
    BY <1>4 DEF Confirm, Confirmed
  <2>2. j.rev = latest[j.own].rev
    BY <1>4 DEF Same, DraftInv, ItemsFine
  <2> QED BY <1>1, <2>1, <2>2 DEF DraftInv, ItemsFine, LatestKept, NoItem
<1>5. CASE Owns(t, j) /\ i.state # "none" /\ ~Same(j)
  <2>1. item' = [item EXCEPT ![j.own] = i2]
    BY <1>5 DEF Confirm, Confirmed
  <2> QED BY <1>1, <1>2, <1>5, <2>1 DEF DraftInv, ItemsFine, LatestKept
<1> QED BY <1>3, <1>4, <1>5

(* Removing an acknowledged draft loses nothing. *)
LEMMA ItemsRemoved ==
  ASSUME TypeInv, DraftInv, LatestKept, NEW j \in Job, j.own \in Users, Patch(j, NoItem),
         j.rev = latest[j.own].rev => latest'[j.own].acked
  PROVE  ItemsFine(item', latest')
BY DEF DraftInv, ItemsFine, LatestKept, Patch, Same, TypeInv, TypeOK, NoItem

(* A new draft replaces the stored one and becomes the last. *)
LEMMA DraftSaveStart ==
  ASSUME TypeInv, DraftInv, NEW t \in Tabs, NEW v \in Values, SaveStart(t, v)
  PROVE  DraftInv'
<1> DEFINE u == owner[t]
           r == spent.edits + 1
           j == [Idle EXCEPT !.pc = "sent", !.own = u, !.rev = r, !.val = v, !.exp = view[t]]
           d == [rev |-> r, val |-> v, acked |-> FALSE]
<1>1. u \in Users /\ spent.edits \in Nat /\ spent'.edits = r
  BY DEF SaveStart, TypeInv, TypeOK, Spend, Bounds
<1>2. /\ item' = [item EXCEPT ![u] = Staged(u, t, v, r)]
      /\ latest' = [latest EXCEPT ![u] = d]
      /\ Step(t, "save", j)
  BY DEF SaveStart
<1>3. /\ item \in [Users -> Item] /\ latest \in [Users -> Draft]
      /\ job \in [Tabs -> [Kinds -> Job]]
  BY DEF TypeInv, TypeOK
<1>4. Staged(u, t, v, r).state = "pending" /\ Staged(u, t, v, r).rev = r
      /\ Staged(u, t, v, r).val = v
  BY DEF Staged
<1>5. ItemsFine(item', latest')
  BY <1>2, <1>3, <1>4 DEF DraftInv, ItemsFine
<1>6. \A w \in Users : latest'[w].rev <= spent'.edits
  BY <1>1, <1>2, <1>3 DEF DraftInv, Draft
<1>7. ASSUME NEW s \in Tabs, NEW q \in Kinds
      PROVE  CallKnows(job'[s][q], latest', spent'.edits)
  <2>1. CASE s = t /\ q = "save"
    <3>1. job'[s][q] = j
      BY <1>2, <1>3, <2>1 DEF Step
    <3>2. j.pc = "sent" /\ j.own = u /\ j.rev = r /\ j.val = v
      BY DEF Idle
    <3>3. ~Settled(j)
      BY <3>2 DEF Settled
    <3>4. latest'[u] = d
      BY <1>1, <1>2, <1>3
    <3> HIDE DEF j
    <3> QED BY <1>1, <3>1, <3>2, <3>3, <3>4 DEF CallKnows
  <2>2. CASE ~(s = t /\ q = "save")
    <3>1. job'[s][q] = job[s][q]
      BY <1>2, <1>3, <2>2 DEF Step
    <3>2. CallKnows(job[s][q], latest, spent.edits)
      BY DEF DraftInv, CallsKnow
    <3>3. job[s][q].rev \in Nat
      BY <1>3 DEF Job
    <3>4. \A w \in Users : latest'[w] = IF w = u THEN d ELSE latest[w]
      BY <1>2, <1>3
    <3>5. job[s][q].pc # "idle" => job[s][q].own \in Users
      BY DEF TypeInv, JobsReal, Real
    <3> QED BY <1>1, <3>1, <3>2, <3>3, <3>4, <3>5 DEF CallKnows
  <2> QED BY <2>1, <2>2
<1> QED BY <1>5, <1>6, <1>7 DEF DraftInv, CallsKnow

(* The end of a save removes its own draft only. *)
LEMMA DraftSaveEnd ==
  ASSUME TypeInv, DraftInv, NEW t \in Tabs, NEW reached \in BOOLEAN, NEW online \in BOOLEAN,
         SaveReply(t) \/ SaveResolve(t, reached, online) \/ SaveAbandon(t)
  PROVE  DraftInv'
<1> DEFINE j == job[t]["save"]
<1>1. j \in Job /\ j.own \in Users /\ CallKnows(j, latest, spent.edits) /\ j.pc # "idle"
  BY RunningType DEF SaveReply, SaveResolve, SaveAbandon, Kinds, DraftInv, CallsKnow
<1>2. spent'.edits = spent.edits
  BY Unspent DEF SaveReply, SaveResolve, SaveAbandon
<1>3. CASE SaveReply(t)
  <2>1. LatestKept
    BY <1>2, <1>3, LatestSame DEF SaveReply
  <2>2. CASE j.reply \in {"ok", "held", "replayed"}
    <3>1. Confirm(t, j, j.row.ver) /\ Finish(t, "save") /\ Settled(j)
      BY <1>3, <2>2 DEF SaveReply, Settled, Accepted
    <3>2. ItemsFine(item', latest')
      BY <1>1, <1>3, <2>1, <3>1, ItemsConfirmed DEF CallKnows, SaveReply
    <3> QED BY <2>1, <3>1, <3>2, CallFinish, BoundKept DEF DraftInv, Kinds
  <2>3. CASE j.reply \notin {"ok", "held", "replayed"}
    <3> DEFINE j2 == [j EXCEPT !.pc = "verify"]
    <3>1. Step(t, "save", j2) /\ UNCHANGED item
      BY <1>3, <2>3 DEF SaveReply
    <3>2. CallKnows(j2, latest', spent'.edits)
      BY <1>1, <1>2, <1>3 DEF CallKnows, Settled, Job, SaveReply
    <3>3. CallsKnow'
      BY <2>1, <3>1, <3>2, CallStep DEF Kinds
    <3> QED BY <2>1, <3>1, <3>3, ItemsSame, BoundKept DEF DraftInv
  <2> QED BY <2>2, <2>3
<1>4. CASE SaveResolve(t, reached, online)
  <2> DEFINE saved == reached /\ Matches(Current, j.val)
  <2>1. LatestKept
    BY <1>1, <1>2, <1>4, LatestSame, LatestAcked DEF SaveResolve
  <2>2. Finish(t, "save")
    BY <1>4 DEF SaveResolve
  <2>3. CASE saved
    <3>1. Confirm(t, j, grade.ver)
      BY <1>4, <2>3 DEF SaveResolve
    <3>2. j.rev = latest[j.own].rev => latest'[j.own].acked
      BY <1>1, <1>2, <1>4, <2>3, LatestAcked DEF CallKnows, SaveResolve
    <3>3. ItemsFine(item', latest')
      BY <1>1, <2>1, <3>1, <3>2, ItemsConfirmed
    <3> QED BY <2>1, <2>2, <3>3, CallFinish, BoundKept DEF DraftInv, Kinds
  <2>4. CASE ~saved
    <3>1. ASSUME NEW s \in {"conflict", "rejected"}, Attention(t, j, s)
          PROVE  ItemsFine(item', latest')
      <4>1. UNCHANGED item \/ Patch(j, [item[j.own] EXCEPT !.state = s])
        BY <3>1 DEF Attention
      <4>2. item[j.own] \in Item
        BY <1>1 DEF TypeInv, TypeOK
      <4>3. /\ [item[j.own] EXCEPT !.state = s].state # "none"
            /\ [item[j.own] EXCEPT !.state = s].rev = item[j.own].rev
            /\ [item[j.own] EXCEPT !.state = s].val = item[j.own].val
        BY <4>2 DEF Item
      <4> QED BY <1>1, <2>1, <4>1, <4>3, ItemsSame, ItemsPatched
    <3>2. ItemsFine(item', latest')
      BY <1>4, <2>1, <2>4, <3>1, ItemsSame DEF SaveResolve
    <3> QED BY <2>1, <2>2, <3>2, CallFinish, BoundKept DEF DraftInv, Kinds
  <2> QED BY <2>3, <2>4
<1>5. CASE SaveAbandon(t)
  <2>1. LatestKept /\ Finish(t, "save") /\ UNCHANGED item
    BY <1>2, <1>5, LatestSame DEF SaveAbandon, history
  <2> QED BY <2>1, CallFinish, ItemsSame, BoundKept DEF DraftInv, Kinds
<1> QED BY <1>3, <1>4, <1>5

(* Taking, reading and giving up leave the drafts alone. *)
LEMMA DraftFlushBegin ==
  ASSUME TypeInv, DraftInv, NEW t \in Tabs, FlushStart(t) \/ FlushRead(t) \/ FlushGiveUp(t)
  PROVE  DraftInv'
<1>0. spent'.edits = spent.edits
  BY Unspent DEF FlushStart, FlushRead, FlushGiveUp
<1>1. CASE FlushStart(t)
  <2> DEFINE u == owner[t]
             j == [Idle EXCEPT !.pc = "lookup", !.own = u, !.rev = item[u].rev,
                   !.val = item[u].val, !.exp = item[u].exp, !.att = item[u].att]
  <2>1. u \in Users /\ item[u].state = "pending" /\ Step(t, "flush", j)
        /\ UNCHANGED <<item, latest, spent>>
    BY <1>1 DEF FlushStart, TypeInv, TypeOK, history
  <2>2. LatestKept
    BY <2>1, LatestSame
  <2>3. item[u].rev = latest[u].rev /\ item[u].val = latest[u].val
        /\ latest[u].rev <= spent.edits
    BY <2>1 DEF DraftInv, ItemsFine
  <2>4. j.pc = "lookup" /\ j.own = u /\ j.rev = item[u].rev /\ j.val = item[u].val
    BY DEF Idle
  <2>5. CallKnows(j, latest', spent'.edits)
    BY <2>1, <2>3, <2>4 DEF CallKnows, Settled
  <2> HIDE DEF j
  <2>6. CallsKnow'
    BY <2>1, <2>2, <2>5, CallStep DEF Kinds
  <2> QED BY <2>1, <2>2, <2>6, ItemsSame, BoundKept DEF DraftInv
<1>2. CASE FlushRead(t)
  <2> DEFINE j == job[t]["flush"]
             j2 == [j EXCEPT !.pc = IF j.pc = "lookup" THEN "looked" ELSE "verified",
                             !.row = Current]
             fresh == Matches(Current, latest[j.own].val)
  <2>1. j \in Job /\ j.own \in Users /\ CallKnows(j, latest, spent.edits) /\ j.pc # "idle"
    BY <1>2, RunningType DEF FlushRead, Kinds, DraftInv, CallsKnow
  <2>2. LatestKept
    BY <1>0, <1>2, <2>1, LatestSame, LatestAcked DEF FlushRead
  <2>3. fresh => latest'[j.own].acked
    BY <1>0, <1>2, <2>1, LatestAcked DEF FlushRead
  <2>4. /\ j2.pc \in {"looked", "verified"} /\ j2.own = j.own /\ j2.rev = j.rev
        /\ j2.val = j.val /\ j2.row = Current
    BY <2>1 DEF Job
  <2>5. Step(t, "flush", j2) /\ UNCHANGED item
    BY <1>2 DEF FlushRead
  <2> HIDE DEF j2
  <2>6. CallKnows(j2, latest', spent'.edits)
    BY <1>0, <2>1, <2>2, <2>3, <2>4 DEF CallKnows, Settled, LatestKept
  <2>7. CallsKnow'
    BY <2>2, <2>5, <2>6, CallStep DEF Kinds
  <2> QED BY <2>2, <2>5, <2>7, ItemsSame, BoundKept DEF DraftInv
<1>3. CASE FlushGiveUp(t)
  <2>1. LatestKept /\ Finish(t, "flush") /\ UNCHANGED item
    BY <1>0, <1>3, LatestSame DEF FlushGiveUp, history
  <2> QED BY <2>1, CallFinish, ItemsSame, BoundKept DEF DraftInv, Kinds
<1> QED BY <1>1, <1>2, <1>3

(* An update of the draft in place: its state, baseline or attempts. *)
LEMMA EditInPlace ==
  ASSUME TypeInv, NEW j \in Job, j.own \in Users,
         NEW s \in {"pending", "conflict", "rejected"}, NEW e, NEW a
  PROVE  LET i == item[j.own]
             i1 == [i EXCEPT !.state = s]
             i2 == [i EXCEPT !.att = @ \cup {j.val}, !.state = s]
             i3 == [i EXCEPT !.exp = e, !.state = s, !.att = a] IN
         /\ i1.state # "none" /\ i1.rev = i.rev /\ i1.val = i.val
         /\ i2.state # "none" /\ i2.rev = i.rev /\ i2.val = i.val
         /\ i3.state # "none" /\ i3.rev = i.rev /\ i3.val = i.val
<1>1. item[j.own] \in Item
  BY DEF TypeInv, TypeOK
<1> QED BY <1>1 DEF Item

(* A flush that finds its value stored removes that draft only. *)
LEMMA DraftFlushDecide ==
  ASSUME TypeInv, DraftInv, NEW t \in Tabs, FlushDecide(t)
  PROVE  DraftInv'
<1> DEFINE j == job[t]["flush"]
           i == item[j.own]
<1>1. /\ j \in Job /\ j.own \in Users /\ CallKnows(j, latest, spent.edits)
      /\ j.pc = "looked"
  BY RunningType DEF FlushDecide, Kinds, DraftInv, CallsKnow
<1>2. UNCHANGED <<spent, latest>> /\ LatestKept
  BY LatestSame DEF FlushDecide
<1>3. ASSUME NEW e, NEW a PROVE
        CallKnows([j EXCEPT !.pc = "sent", !.exp = e, !.att = a], latest', spent'.edits)
        /\ CallKnows([j EXCEPT !.pc = "sent"], latest', spent'.edits)
  BY <1>1, <1>2 DEF CallKnows, Settled, Job
<1>4. CASE FlushSynced(t, j)
  <2>1. Patch(j, NoItem) /\ Finish(t, "flush") /\ Settled(j)
    BY <1>1, <1>4 DEF FlushSynced, Settled
  <2>2. ItemsFine(item', latest')
    BY <1>1, <1>2, <2>1, ItemsRemoved DEF CallKnows
  <2> QED BY <1>2, <2>1, <2>2, CallFinish, BoundKept DEF DraftInv, Kinds
<1>5. CASE FlushAdvance(t, j)
  <2> DEFINE j2 == [j EXCEPT !.pc = "sent", !.exp = j.row.ver, !.att = @ \ {j.row.val}]
             i3 == [i EXCEPT !.exp = j.row.ver, !.state = "pending",
                             !.att = (j.att \ {j.row.val}) \cup {j.val}]
  <2>1. CASE Same(j)
    <3>1. Patch(j, i3) /\ Step(t, "flush", j2)
      BY <1>5, <2>1 DEF FlushAdvance
    <3>2. i3.state # "none" /\ i3.rev = i.rev /\ i3.val = i.val
      BY <1>1, EditInPlace
    <3>3. ItemsFine(item', latest')
      BY <1>1, <1>2, <3>1, <3>2, ItemsPatched
    <3>4. CallKnows(j2, latest', spent'.edits)
      BY <1>3
    <3>5. CallsKnow'
      BY <1>2, <3>1, <3>4, CallStep DEF Kinds
    <3> QED BY <1>2, <3>3, <3>5, BoundKept DEF DraftInv
  <2>2. CASE ~Same(j)
    BY <1>2, <1>5, <2>2, CallFinish, ItemsSame, BoundKept DEF FlushAdvance, DraftInv, Kinds
  <2> QED BY <2>1, <2>2
<1>6. CASE FlushSend(t, j)
  <2> DEFINE j2 == [j EXCEPT !.pc = "sent"]
             i2 == [i EXCEPT !.att = @ \cup {j.val}, !.state = "pending"]
  <2>1. Patch(j, i2) /\ Step(t, "flush", j2)
    BY <1>6 DEF FlushSend
  <2>2. i2.state # "none" /\ i2.rev = i.rev /\ i2.val = i.val
    BY <1>1, EditInPlace
  <2>3. ItemsFine(item', latest')
    BY <1>1, <1>2, <2>1, <2>2, ItemsPatched
  <2>4. CallsKnow'
    BY <1>2, <1>3, <2>1, CallStep DEF Kinds
  <2> QED BY <1>2, <2>3, <2>4, BoundKept DEF DraftInv
<1>7. CASE FlushConflict(t, j)
  <2> DEFINE i1 == [i EXCEPT !.state = "conflict"]
  <2>1. Patch(j, i1) /\ Finish(t, "flush")
    BY <1>7 DEF FlushConflict
  <2>2. i1.state # "none" /\ i1.rev = i.rev /\ i1.val = i.val
    BY <1>1, EditInPlace
  <2>3. ItemsFine(item', latest')
    BY <1>1, <1>2, <2>1, <2>2, ItemsPatched
  <2> QED BY <1>2, <2>1, <2>3, CallFinish, BoundKept DEF DraftInv, Kinds
<1> QED BY <1>4, <1>5, <1>6, <1>7 DEF FlushDecide

(* The answer of a flush removes the draft it carried only. *)
LEMMA DraftFlushEnd ==
  ASSUME TypeInv, DraftInv, NEW t \in Tabs, FlushReply(t) \/ FlushVerify(t)
  PROVE  DraftInv'
<1> DEFINE j == job[t]["flush"]
           i == item[j.own]
<1>1. j \in Job /\ j.own \in Users /\ CallKnows(j, latest, spent.edits) /\ j.pc # "idle"
  BY RunningType DEF FlushReply, FlushVerify, Kinds, DraftInv, CallsKnow
<1>2. UNCHANGED <<spent, latest>> /\ LatestKept
  BY LatestSame DEF FlushReply, FlushVerify
<1>3. ASSUME Settled(j), Confirm(t, j, j.row.ver) PROVE ItemsFine(item', latest')
  BY <1>1, <1>2, <1>3, ItemsConfirmed DEF CallKnows
<1>4. ASSUME NEW s \in {"pending", "conflict", "rejected"}, Patch(j, [i EXCEPT !.state = s])
      PROVE  ItemsFine(item', latest')
  <2> DEFINE i1 == [i EXCEPT !.state = s]
  <2>1. i1.state # "none" /\ i1.rev = i.rev /\ i1.val = i.val
    BY <1>1, EditInPlace
  <2> QED BY <1>1, <1>2, <1>4, <2>1, ItemsPatched
<1>5. CASE FlushReply(t)
  <2>1. ItemsFine(item', latest')
    BY <1>2, <1>3, <1>4, <1>5, ItemsSame DEF FlushReply, Settled, Accepted
  <2>2. CASE Finish(t, "flush")
    BY <1>2, <2>1, <2>2, CallFinish, BoundKept DEF DraftInv, Kinds
  <2>3. CASE Step(t, "flush", [j EXCEPT !.pc = "verify"])
    <3>1. CallKnows([j EXCEPT !.pc = "verify"], latest', spent'.edits)
      BY <1>1, <1>2 DEF CallKnows, Settled, Job
    <3>2. CallsKnow'
      BY <1>2, <2>3, <3>1, CallStep DEF Kinds
    <3> QED BY <1>2, <2>1, <3>2, BoundKept DEF DraftInv
  <2> QED BY <1>5, <2>2, <2>3 DEF FlushReply
<1>6. CASE FlushVerify(t)
  <2>1. ItemsFine(item', latest')
    BY <1>3, <1>4, <1>6 DEF FlushVerify, Settled
  <2> QED BY <1>2, <1>6, <2>1, CallFinish, BoundKept DEF FlushVerify, DraftInv, Kinds
<1> QED BY <1>5, <1>6

(* An accepted request acknowledges the draft it carried. *)
LEMMA DraftServerHandle ==
  ASSUME TypeInv, NetInv, DraftInv, NEW r \in net, ServerHandle(r)
  PROVE  DraftInv'
<1>1. r \in Request /\ UNCHANGED <<spent, item>>
  BY DEF TypeInv, TypeOK, ServerHandle
<1>2. PICK kind \in AnswerKinds :
        /\ Deliver(r, kind)
        /\ latest' = IF kind \in Accepted /\ latest[r.own].rev = r.rev
                     THEN [latest EXCEPT ![r.own].acked = TRUE] ELSE latest
  BY DEF ServerHandle
<1>3. LatestKept
  BY <1>1, <1>2, LatestSame, LatestAcked DEF Request
<1>4. CallsKnow'
  <2>1. CASE r.tab = NoTab
    BY <1>2, <1>3, <2>1, CallSame DEF Deliver
  <2>2. CASE r.tab # NoTab
    <3> DEFINE row == IF kind \in {"ok", "replayed"}
                      THEN [val |-> grade'.val, ver |-> grade'.ver] ELSE Absent
               j == job[r.tab][r.kind]
               j2 == [j EXCEPT !.pc = "answered", !.reply = kind, !.row = row]
    <3>1. r.tab \in Tabs /\ r.kind \in Kinds /\ Awaited(r)
      BY <1>1, <2>2 DEF Request, NetInv
    <3>2. j \in Job /\ j.own = r.own /\ j.rev = r.rev /\ j.pc = "sent"
          /\ CallKnows(j, latest, spent.edits) /\ r.own \in Users
      BY <1>1, <3>1 DEF Awaited, DraftInv, CallsKnow, TypeInv, TypeOK, Request
    <3>3. /\ j2.pc = "answered" /\ j2.reply = kind /\ j2.own = j.own
          /\ j2.rev = j.rev /\ j2.val = j.val
      BY <3>2 DEF Job
    <3>4. Step(r.tab, r.kind, j2)
      BY <1>2, <2>2 DEF Deliver, Step
    <3>5. kind \in Accepted /\ latest[r.own].rev = r.rev => latest'[r.own].acked
      BY <1>1, <1>2, <3>2, LatestAcked
    <3> HIDE DEF j2
    <3>6. CallKnows(j2, latest', spent'.edits)
      BY <1>1, <1>3, <3>2, <3>3, <3>5 DEF CallKnows, Settled, LatestKept
    <3> QED BY <1>3, <3>1, <3>4, <3>6, CallStep
  <2> QED BY <2>1, <2>2
<1> QED BY <1>1, <1>3, <1>4, ItemsSame, BoundKept DEF DraftInv

(* Lost answers and reloads leave the drafts alone. *)
LEMMA DraftDetach ==
  ASSUME TypeInv, DraftInv, NEW t \in Tabs, NEW k \in Kinds, LoseAnswer(t, k) \/ Reload(t)
  PROVE  DraftInv'
<1>1. UNCHANGED <<item, latest>> /\ spent'.edits = spent.edits
  BY Unspent DEF LoseAnswer, Reload, history
<1>2. LatestKept
  BY <1>1, LatestSame
<1>3. CASE LoseAnswer(t, k)
  <2> DEFINE j == job[t][k]
             j2 == [j EXCEPT !.pc = "answered", !.reply = "lost", !.row = Absent]
  <2>1. j \in Job /\ CallKnows(j, latest, spent.edits) /\ j.pc # "idle"
    BY <1>3 DEF LoseAnswer, TypeInv, TypeOK, DraftInv, CallsKnow
  <2>2. j2.pc = "answered" /\ j2.reply = "lost" /\ j2.own = j.own /\ j2.rev = j.rev
        /\ j2.val = j.val
    BY <2>1 DEF Job
  <2>3. Step(t, k, j2)
    BY <1>3 DEF LoseAnswer
  <2> HIDE DEF j2
  <2>4. CallKnows(j2, latest', spent'.edits)
    BY <1>1, <2>1, <2>2 DEF CallKnows, Settled, Accepted
  <2>5. CallsKnow'
    BY <1>2, <2>3, <2>4, CallStep
  <2> QED BY <1>1, <1>2, <2>5, ItemsSame, BoundKept DEF DraftInv
<1>4. CASE Reload(t)
  <2>1. \A s \in Tabs, q \in Kinds : job'[s][q] = job[s][q] \/ job'[s][q] = Idle
    BY <1>4 DEF Reload, TypeInv, TypeOK
  <2>2. CallsKnow'
    BY <1>1, <2>1 DEF DraftInv, CallsKnow, CallKnows, Idle
  <2> QED BY <1>1, <1>2, <2>2, ItemsSame, BoundKept DEF DraftInv
<1> QED BY <1>3, <1>4

(* The other steps leave the drafts alone. *)
LEMMA DraftQuiet ==
  ASSUME TypeInv, DraftInv, UNCHANGED <<item, job, latest>>,
         NEW b \in {"faults", "others", "logins"}, UNCHANGED spent \/ Spend(b)
  PROVE  DraftInv'
<1>1. LatestKept
  BY Unspent, LatestSame
<1> QED BY <1>1, CallSame, ItemsSame, BoundKept DEF DraftInv

(* The inductive step of DraftInv. *)
LEMMA DraftNext ==
  ASSUME TypeInv, NetInv, DraftInv, [Next]_vars
  PROVE  DraftInv'
<1>1. ASSUME NEW t \in Tabs, Running(t) PROVE DraftInv'
  <2>1. CASE SaveReply(t)
    BY <2>1, DraftSaveEnd
  <2> QED
    BY <1>1, <2>1, DraftSaveEnd, DraftFlushBegin, DraftFlushDecide, DraftFlushEnd DEF Running
<1>2. ASSUME NEW t \in Tabs, Account(t), ~Reload(t) PROVE DraftInv'
  BY <1>2, DraftQuiet DEF Account, Refresh, Logout, SessionCheck, Login, history
<1>3. ASSUME NEW u \in Users, NEW v \in Values, OtherWrite(u, v) PROVE DraftInv'
  BY <1>3, DraftQuiet DEF OtherWrite, deviceVars
<1>4. ASSUME NEW s \in StudentStatus, OtherDelete \/ OtherStatus(s) PROVE DraftInv'
  BY <1>4, DraftQuiet DEF OtherDelete, OtherStatus, deviceVars, history
<1>5. CASE UNCHANGED vars
  BY <1>5, DraftQuiet DEF vars, deviceVars, history
<1>6. "save" \in Kinds /\ "active" \in StudentStatus
  BY DEF Kinds, StudentStatus
<1>7. ASSUME NEW t \in Tabs, SaveAbandon(t) PROVE DraftInv'
  BY <1>7, DraftSaveEnd
<1>8. ASSUME NEW t \in Tabs, NEW k \in Kinds, LoseAnswer(t, k) \/ Reload(t) PROVE DraftInv'
  BY <1>8, DraftDetach
<1> QED
  BY <1>1, <1>2, <1>3, <1>4, <1>5, <1>6, <1>7, <1>8, DraftSaveStart, DraftServerHandle
  DEF Next, Account

(***************************************************************************)
(* However many tabs and accounts share the browser, and whatever answers  *)
(* are lost, repeated or late, a saved draft stays in the outbox until the *)
(* server has accepted it or was read holding its value.                   *)
(***************************************************************************)
THEOREM DraftsKept == Spec => []DraftKeptUntilAcknowledged
<1>1. Init => DraftInv
  BY DEF Init, DraftInv, ItemsFine, CallsKnow, CallKnows, NoItem, Idle, Bounds
<1>2. TypeInv /\ NetInv /\ DraftInv /\ [Next]_vars => DraftInv'
  BY DraftNext
<1>3. DraftInv => DraftKeptUntilAcknowledged
  BY DEF DraftInv, ItemsFine, DraftKeptUntilAcknowledged
<1> QED BY <1>1, <1>2, <1>3, TypesHold, PTL DEF Spec
-----------------------------------------------------------------------------
(***************************************************************************)
(* Results are recorded under the account that typed them: every draft,    *)
(* call and request carries a value its own account typed, and the server  *)
(* writes nothing under another account.                                   *)
(***************************************************************************)

Recorded(g, h, T) ==
  /\ g.by # Nobody => g.val \in T[g.by]
  /\ h.by # Nobody => h.val \in T[h.by]
CallTyped(j, T) == j.pc # "idle" => j.val \in T[j.own]

CallsTyped == \A t \in Tabs, k \in Kinds : CallTyped(job[t][k], typed)
ItemsTyped == \A u \in Users : item[u].state # "none" => item[u].val \in typed[u]
NetTyped == \A r \in net : r.val \in typed[r.own]
TypedInv == Recorded(grade, held, typed) /\ CallsTyped /\ ItemsTyped /\ NetTyped

(* The handler records the value under the cookie's account, or changes nothing it attributes. *)
LEMMA PostRecorded ==
  ASSUME NEW T, Recorded(grade, held, T), NEW req, NEW kind,
         req.val \in T[req.own], Post(req, kind)
  PROVE  Recorded(grade', held', T)
<1>1. ASSUME NEW s, StoreGrade(req, s), req.cookie = req.own PROVE Recorded(grade', held', T)
  BY <1>1 DEF StoreGrade, Become, SettledRow, SettledNote, NoteWaits, NoNote, Recorded
<1>2. ASSUME PostHeld(req, kind), req.cookie = req.own PROVE Recorded(grade', held', T)
  BY <1>2 DEF PostHeld, NoteAfter, Answer, serverVars, Recorded
<1>3. ASSUME NEW k, Answer(kind, k) PROVE Recorded(grade', held', T)
  BY <1>3 DEF Answer, serverVars, Recorded
<1> QED BY <1>1, <1>2, <1>3 DEF Post, OwnerRefused, PostWrite, PostBonusReturn

(* A delete and a change of status only move what was already attributed. *)
LEMMA OtherRecorded ==
  ASSUME Recorded(grade, held, typed), NEW s, DeleteGrade(s) \/ ChangeStatus(s)
  PROVE  Recorded(grade', held', typed)
<1> DEFINE After(row) == Recorded(SettledRow(row), SettledNote(row), typed)
<1>1. Recorded(Missing, held, typed) /\ After(Missing) /\ After(grade)
  BY DEF Recorded, Missing, NoNote, SettledRow, SettledNote, NoteWaits
<1>2. ASSUME NEW row \in {Missing, grade}, Become(s, row)
      PROVE  Recorded(grade', held', typed)
  BY <1>1, <1>2 DEF Become
<1> QED BY <1>2 DEF DeleteGrade, ChangeStatus

(* What an account has typed only grows. *)
LEMMA TypedMore ==
  ASSUME TypeInv, TypedInv, NEW u \in Users, NEW v, typed' = [typed EXCEPT ![u] = @ \cup {v}]
  PROVE  /\ \A w \in Users : typed[w] \subseteq typed'[w]
         /\ v \in typed'[u]
         /\ Recorded(grade, held, typed')
BY DEF TypeInv, TypeOK, ServerTypeOK, Row, Note, TypedInv, Recorded

(* Calls that carry the same snapshots stay typed by their owners. *)
LEMMA TypedCall ==
  ASSUME TypeInv, TypedInv, NEW t \in Tabs, NEW k \in Kinds, NEW j,
         \A w \in Users : typed[w] \subseteq typed'[w],
         UNCHANGED job \/ (Step(t, k, j) /\ CallTyped(j, typed'))
  PROVE  CallsTyped'
<1>1. \A s \in Tabs, q \in Kinds :
        CallTyped(job[s][q], typed) /\ (job[s][q].pc # "idle" => job[s][q].own \in Users)
  BY DEF TypedInv, CallsTyped, TypeInv, JobsReal, Real
<1>2. \A s \in Tabs, q \in Kinds :
        job'[s][q] = job[s][q] \/ (job'[s][q] = j /\ CallTyped(j, typed'))
  BY DEF Step, TypeInv, TypeOK
<1> QED BY <1>1, <1>2 DEF CallsTyped, CallTyped

(* A confirmation leaves only values their account typed. *)
LEMMA TypedConfirm ==
  ASSUME TypeInv, TypedInv, NEW t, NEW j \in Job, NEW ver, Confirm(t, j, ver), UNCHANGED typed,
         j.own \in Users
  PROVE  ItemsTyped'
<1> DEFINE i == item[j.own]
<1>1. i \in Item /\ item \in [Users -> Item]
  BY DEF TypeInv, TypeOK
<1>2. [i EXCEPT !.exp = IF ver # 0 THEN ver ELSE @, !.att = @ \ {j.val}, !.state = "pending"].val = i.val
  BY <1>1 DEF Item
<1>3. Confirmed(j, ver).state # "none" => Confirmed(j, ver).val = i.val
  BY <1>2 DEF Confirmed, NoItem
<1> QED BY <1>1, <1>3 DEF Confirm, TypedInv, ItemsTyped

(* A guarded update leaves only values their account typed. *)
LEMMA TypedPatch ==
  ASSUME TypeInv, TypedInv, NEW j \in Job, j.own \in Users, NEW new, Patch(j, new),
         new.state # "none" => new.val = item[j.own].val, UNCHANGED typed
  PROVE  ItemsTyped'
BY DEF TypeInv, TypeOK, TypedInv, ItemsTyped, Patch, Same

(* A save carries the value its account has just typed. *)
LEMMA TypedSaveStart ==
  ASSUME TypeInv, TypedInv, NEW t \in Tabs, NEW v \in Values, SaveStart(t, v)
  PROVE  TypedInv'
<1> DEFINE u == owner[t]
           r == spent.edits + 1
           j == [Idle EXCEPT !.pc = "sent", !.own = u, !.rev = r, !.val = v, !.exp = view[t]]
<1>1. u \in Users /\ item \in [Users -> Item] /\ net \subseteq Request
  BY DEF SaveStart, TypeInv, TypeOK
<1>2. /\ item' = [item EXCEPT ![u] = Staged(u, t, v, r)] /\ Step(t, "save", j)
      /\ Send(t, "save", j) /\ UNCHANGED <<grade, held>>
      /\ typed' = [typed EXCEPT ![u] = @ \cup {v}]
  BY DEF SaveStart, serverVars
<1>3. /\ \A w \in Users : typed[w] \subseteq typed'[w]
      /\ v \in typed'[u] /\ Recorded(grade, held, typed')
  BY <1>1, <1>2, TypedMore
<1>4. j.own = u /\ j.val = v /\ Staged(u, t, v, r).val = v
  BY DEF Idle, Staged
<1>5. CallsTyped'
  BY <1>2, <1>3, <1>4, TypedCall DEF CallTyped, Kinds
<1>6. ItemsTyped'
  BY <1>1, <1>2, <1>3, <1>4 DEF TypedInv, ItemsTyped
<1>7. NetTyped'
  BY <1>1, <1>2, <1>3, <1>4 DEF TypedInv, NetTyped, Send, Request
<1> QED BY <1>2, <1>3, <1>5, <1>6, <1>7 DEF TypedInv

(* The steps of the calls carry values typed by their owners. *)
LEMMA TypedRunning ==
  ASSUME TypeInv, TypedInv, NEW t \in Tabs, Running(t) \/ SaveAbandon(t)
  PROVE  TypedInv'
<1> USE DEF Kinds
<1>1. UNCHANGED <<grade, held, typed>>
  BY DEF Running, SaveReply, SaveResolve, SaveAbandon, FlushStart, FlushRead, FlushGiveUp,
         FlushDecide, FlushReply, FlushVerify, serverVars, history
<1>2. \A w \in Users : typed[w] \subseteq typed'[w]
  BY <1>1
<1>3. ASSUME NEW k \in Kinds, Finish(t, k) PROVE CallsTyped'
  <2>1. CallTyped(Idle, typed')
    BY DEF CallTyped, Idle
  <2> QED BY <1>2, <1>3, <2>1, TypedCall DEF Finish
<1>4. ASSUME NEW k \in Kinds, NEW j, Step(t, k, j), j.own = job[t][k].own,
             j.val = job[t][k].val, job[t][k].pc # "idle"
      PROVE  CallsTyped'
  <2>1. CallTyped(j, typed')
    BY <1>1, <1>4 DEF TypedInv, CallsTyped, CallTyped
  <2> QED BY <1>2, <1>4, <2>1, TypedCall
<1>5. ASSUME UNCHANGED net PROVE NetTyped'
  BY <1>1, <1>5 DEF TypedInv, NetTyped
<1>6. ASSUME UNCHANGED item PROVE ItemsTyped'
  BY <1>1, <1>6 DEF TypedInv, ItemsTyped
<1>7. ASSUME NEW j \in Job, j.own \in Users, NEW s \in {"pending", "conflict", "rejected"},
             Patch(j, [item[j.own] EXCEPT !.state = s])
      PROVE  ItemsTyped'
  <2> DEFINE i1 == [item[j.own] EXCEPT !.state = s]
  <2>1. i1.val = item[j.own].val
    BY <1>7, EditInPlace
  <2> QED BY <1>1, <1>7, <2>1, TypedPatch
<1>8. CASE SaveReply(t) \/ SaveAbandon(t)
  <2> DEFINE j == job[t]["save"]
             j2 == [j EXCEPT !.pc = "verify"]
  <2>1. j \in Job /\ j.own \in Users /\ j.pc # "idle" /\ UNCHANGED net
    BY <1>8, RunningType DEF SaveReply, SaveAbandon
  <2>2. j2.own = j.own /\ j2.val = j.val
    BY <2>1 DEF Job
  <2>3. CallsTyped'
    BY <1>3, <1>4, <1>8, <2>1, <2>2 DEF SaveReply, SaveAbandon
  <2>4. ItemsTyped'
    BY <1>1, <1>6, <1>8, <2>1, TypedConfirm DEF SaveReply, SaveAbandon
  <2> QED BY <1>1, <1>5, <2>1, <2>3, <2>4 DEF TypedInv
<1>9. ASSUME NEW reached \in BOOLEAN, NEW online \in BOOLEAN, SaveResolve(t, reached, online)
      PROVE  TypedInv'
  <2> DEFINE j == job[t]["save"]
  <2>1. j \in Job /\ j.own \in Users /\ UNCHANGED net
    BY <1>9, RunningType DEF SaveResolve
  <2>2. CallsTyped'
    BY <1>3, <1>9 DEF SaveResolve
  <2>3. ItemsTyped'
    BY <1>1, <1>6, <1>7, <1>9, <2>1, TypedConfirm DEF SaveResolve, Attention
  <2> QED BY <1>1, <1>5, <2>1, <2>2, <2>3 DEF TypedInv
<1>10. CASE FlushStart(t)
  <2> DEFINE u == owner[t]
             j == [Idle EXCEPT !.pc = "lookup", !.own = u, !.rev = item[u].rev,
                               !.val = item[u].val, !.exp = item[u].exp, !.att = item[u].att]
  <2>1. u \in Users /\ Step(t, "flush", j) /\ item[u].val \in typed[u]
    BY <1>10 DEF FlushStart, TypeInv, TypeOK, TypedInv, ItemsTyped
  <2>2. j.own = u /\ j.val = item[u].val
    BY DEF Idle
  <2>3. CallTyped(j, typed')
    BY <1>1, <2>1, <2>2 DEF CallTyped
  <2>4. CallsTyped'
    BY <1>2, <2>1, <2>3, TypedCall
  <2> QED BY <1>1, <1>5, <1>6, <1>10, <2>4 DEF TypedInv, FlushStart
<1>11. CASE FlushRead(t) \/ FlushGiveUp(t)
  <2> DEFINE j == job[t]["flush"]
             j2 == [j EXCEPT !.pc = IF j.pc = "lookup" THEN "looked" ELSE "verified",
                             !.row = Current]
  <2>1. j \in Job /\ j.pc # "idle" /\ UNCHANGED <<net, item>>
    BY <1>11, RunningType DEF FlushRead, FlushGiveUp
  <2>2. j2.own = j.own /\ j2.val = j.val
    BY <2>1 DEF Job
  <2>3. FlushRead(t) => Step(t, "flush", j2)
    BY DEF FlushRead
  <2> HIDE DEF j2
  <2>4. CallsTyped'
    BY <1>3, <1>4, <1>11, <2>1, <2>2, <2>3 DEF FlushGiveUp
  <2> QED BY <1>1, <1>5, <1>6, <2>1, <2>4 DEF TypedInv
<1>12. CASE FlushDecide(t)
  <2> DEFINE j == job[t]["flush"]
             i == item[j.own]
  <2>1. j \in Job /\ j.own \in Users /\ j.pc # "idle" /\ net \subseteq Request
    BY <1>12, RunningType DEF FlushDecide, TypeInv, TypeOK
  <2>2. ASSUME NEW j2, j2.own = j.own, j2.val = j.val, Send(t, "flush", j2) PROVE NetTyped'
    BY <1>1, <2>1, <2>2 DEF Send, TypedInv, NetTyped, CallsTyped, CallTyped
  <2>3. CASE FlushSynced(t, j)
    <3>1. ItemsTyped'
      BY <1>1, <2>1, <2>3, TypedPatch DEF FlushSynced, NoItem
    <3> QED BY <1>1, <1>3, <1>5, <2>3, <3>1 DEF FlushSynced, TypedInv
  <2>4. CASE FlushAdvance(t, j)
    <3> DEFINE j2 == [j EXCEPT !.pc = "sent", !.exp = j.row.ver, !.att = @ \ {j.row.val}]
               i3 == [i EXCEPT !.exp = j.row.ver, !.state = "pending",
                               !.att = (j.att \ {j.row.val}) \cup {j.val}]
    <3>1. CASE Same(j)
      <4>1. Patch(j, i3) /\ Step(t, "flush", j2) /\ Send(t, "flush", j2)
        BY <2>4, <3>1 DEF FlushAdvance
      <4>2. j2.own = j.own /\ j2.val = j.val
        BY <2>1 DEF Job
      <4>3. i3.val = i.val
        BY <2>1, EditInPlace
      <4> HIDE DEF j2, i3
      <4>4. ItemsTyped'
        BY <1>1, <2>1, <4>1, <4>3, TypedPatch
      <4>5. CallsTyped' /\ NetTyped'
        BY <1>4, <2>1, <2>2, <4>1, <4>2
      <4> QED BY <1>1, <4>4, <4>5 DEF TypedInv
    <3>2. CASE ~Same(j)
      BY <1>1, <1>3, <1>5, <1>6, <2>4, <3>2 DEF FlushAdvance, TypedInv
    <3> QED BY <3>1, <3>2
  <2>5. CASE FlushSend(t, j)
    <3> DEFINE j2 == [j EXCEPT !.pc = "sent"]
               i2 == [i EXCEPT !.att = @ \cup {j.val}, !.state = "pending"]
    <3>1. Patch(j, i2) /\ Step(t, "flush", j2) /\ Send(t, "flush", j2)
      BY <2>5 DEF FlushSend
    <3>2. j2.own = j.own /\ j2.val = j.val
      BY <2>1 DEF Job
    <3>3. i2.val = i.val
      BY <2>1, EditInPlace
    <3> HIDE DEF j2, i2
    <3>4. ItemsTyped'
      BY <1>1, <2>1, <3>1, <3>3, TypedPatch
    <3>5. CallsTyped' /\ NetTyped'
      BY <1>4, <2>1, <2>2, <3>1, <3>2
    <3> QED BY <1>1, <3>4, <3>5 DEF TypedInv
  <2>6. CASE FlushConflict(t, j)
    <3>1. ItemsTyped'
      BY <1>7, <2>1, <2>6 DEF FlushConflict
    <3> QED BY <1>1, <1>3, <1>5, <2>6, <3>1 DEF FlushConflict, TypedInv
  <2> QED BY <1>12, <2>3, <2>4, <2>5, <2>6 DEF FlushDecide
<1>13. CASE FlushReply(t) \/ FlushVerify(t)
  <2> DEFINE j == job[t]["flush"]
             j2 == [j EXCEPT !.pc = "verify"]
  <2>1. j \in Job /\ j.own \in Users /\ j.pc # "idle" /\ UNCHANGED net
    BY <1>13, RunningType DEF FlushReply, FlushVerify
  <2>2. j2.own = j.own /\ j2.val = j.val
    BY <2>1 DEF Job
  <2>3. Finish(t, "flush") \/ Step(t, "flush", j2)
    BY <1>13 DEF FlushReply, FlushVerify
  <2> HIDE DEF j2
  <2>4. CallsTyped'
    BY <1>3, <1>4, <2>1, <2>2, <2>3
  <2>5. ItemsTyped'
    BY <1>1, <1>6, <1>7, <1>13, <2>1, TypedConfirm DEF FlushReply, FlushVerify
  <2> QED BY <1>1, <1>5, <2>1, <2>4, <2>5 DEF TypedInv
<1> QED BY <1>8, <1>9, <1>10, <1>11, <1>12, <1>13 DEF Running

(* A request is recorded only when its owner is the cookie's account. *)
LEMMA TypedServerHandle ==
  ASSUME TypeInv, NetInv, TypedInv, NEW r \in net, ServerHandle(r)
  PROVE  TypedInv'
<1>1. r \in Request /\ UNCHANGED <<item, typed>> /\ net' \subseteq net
  BY DEF TypeInv, TypeOK, ServerHandle
<1>2. PICK kind \in AnswerKinds : Post(r, kind) /\ Deliver(r, kind)
  BY DEF ServerHandle
<1>3. Recorded(grade', held', typed')
  BY <1>1, <1>2, PostRecorded DEF TypedInv, NetTyped
<1>4. CallsTyped'
  <2> DEFINE row == IF kind \in {"ok", "replayed"}
                    THEN [val |-> grade'.val, ver |-> grade'.ver] ELSE Absent
             j == job[r.tab][r.kind]
             j2 == [j EXCEPT !.pc = "answered", !.reply = kind, !.row = row]
  <2>1. CASE r.tab = NoTab
    BY <1>1, <1>2, <2>1, TypedCall DEF Deliver, TypedInv, CallsTyped
  <2>2. CASE r.tab # NoTab
    <3>1. r.tab \in Tabs /\ r.kind \in Kinds /\ Awaited(r)
      BY <1>1, <2>2 DEF Request, NetInv
    <3>2. j \in Job /\ CallTyped(j, typed) /\ j.pc = "sent"
      BY <3>1 DEF Awaited, TypedInv, CallsTyped, TypeInv, TypeOK
    <3>3. j2.own = j.own /\ j2.val = j.val
      BY <3>2 DEF Job
    <3>4. Step(r.tab, r.kind, j2)
      BY <1>2, <2>2 DEF Deliver, Step
    <3> HIDE DEF j2
    <3>5. CallTyped(j2, typed')
      BY <1>1, <3>2, <3>3 DEF CallTyped
    <3> QED BY <1>1, <3>1, <3>4, <3>5, TypedCall
  <2> QED BY <2>1, <2>2
<1>5. ItemsTyped' /\ NetTyped'
  BY <1>1 DEF TypedInv, ItemsTyped, NetTyped
<1> QED BY <1>3, <1>4, <1>5 DEF TypedInv

(* A lost answer or a reload changes no request's author. *)
LEMMA TypedDetach ==
  ASSUME TypeInv, TypedInv, NEW t \in Tabs, NEW k \in Kinds, LoseAnswer(t, k) \/ Reload(t)
  PROVE  TypedInv'
<1>1. UNCHANGED <<grade, held, item, typed>> /\ net \subseteq Request
  BY DEF LoseAnswer, Reload, serverVars, history, TypeInv, TypeOK
<1>2. \A r \in net : [r EXCEPT !.tab = NoTab].val = r.val /\ [r EXCEPT !.tab = NoTab].own = r.own
  BY <1>1 DEF Request
<1>3. ASSUME \A q \in net' : \E r \in net : q = r \/ q = [r EXCEPT !.tab = NoTab]
      PROVE  NetTyped'
  BY <1>1, <1>2, <1>3 DEF TypedInv, NetTyped
<1>4. CASE LoseAnswer(t, k)
  <2> DEFINE j == job[t][k]
             j2 == [j EXCEPT !.pc = "answered", !.reply = "lost", !.row = Absent]
  <2>1. j \in Job /\ CallTyped(j, typed) /\ j.pc # "idle" /\ Step(t, k, j2)
    BY <1>4 DEF LoseAnswer, TypeInv, TypeOK, TypedInv, CallsTyped
  <2>2. j2.own = j.own /\ j2.val = j.val
    BY <2>1 DEF Job
  <2> HIDE DEF j2
  <2>3. CallTyped(j2, typed')
    BY <1>1, <2>1, <2>2 DEF CallTyped
  <2>4. CallsTyped'
    BY <1>1, <2>1, <2>3, TypedCall
  <2>5. NetTyped'
    BY <1>3, <1>4 DEF LoseAnswer, Detach, Orphaned
  <2> QED BY <1>1, <2>4, <2>5 DEF TypedInv, ItemsTyped
<1>5. CASE Reload(t)
  <2>1. \A s \in Tabs, q \in Kinds : job'[s][q] = job[s][q] \/ job'[s][q] = Idle
    BY <1>5 DEF Reload, TypeInv, TypeOK
  <2>2. CallsTyped'
    BY <1>1, <2>1 DEF TypedInv, CallsTyped, CallTyped, Idle
  <2>3. NetTyped'
    BY <1>3, <1>5 DEF Reload
  <2> QED BY <1>1, <2>2, <2>3 DEF TypedInv, ItemsTyped
<1> QED BY <1>4, <1>5

(* Another device types what it sends. *)
LEMMA TypedOtherWrite ==
  ASSUME TypeInv, TypedInv, NEW u \in Users, NEW v \in Values, OtherWrite(u, v)
  PROVE  TypedInv'
<1> DEFINE req == [own |-> u, cookie |-> u, val |-> v, exp |-> grade.ver]
<1>1. typed' = [typed EXCEPT ![u] = @ \cup {v}] /\ UNCHANGED <<item, job, net>>
  BY DEF OtherWrite, deviceVars
<1>2. /\ \A w \in Users : typed[w] \subseteq typed'[w]
      /\ v \in typed'[u] /\ Recorded(grade, held, typed')
  BY <1>1, TypedMore
<1>3. PICK kind : Post(req, kind)
  BY DEF OtherWrite
<1>4. req.val = v /\ req.own = u
  OBVIOUS
<1> HIDE DEF req
<1>5. Recorded(grade', held', typed')
  BY <1>2, <1>3, <1>4, PostRecorded
<1>6. CallsTyped'
  BY <1>1, <1>2 DEF TypedInv, CallsTyped, CallTyped, TypeInv, JobsReal, Real
<1>7. ItemsTyped'
  BY <1>1, <1>2 DEF TypedInv, ItemsTyped
<1>8. NetTyped'
  BY <1>1, <1>2 DEF TypedInv, NetTyped, TypeInv, TypeOK, Request
<1> QED BY <1>5, <1>6, <1>7, <1>8 DEF TypedInv

(* The other steps attribute nothing. *)
LEMMA TypedQuiet ==
  ASSUME TypedInv, UNCHANGED <<item, job, net, typed>>, Recorded(grade', held', typed)
  PROVE  TypedInv'
BY DEF TypedInv, CallsTyped, ItemsTyped, NetTyped

(* The inductive step of the attribution invariant. *)
LEMMA TypedNext ==
  ASSUME TypeInv, NetInv, TypedInv, [Next]_vars
  PROVE  TypedInv'
<1>1. "save" \in Kinds /\ Recorded(grade, held, typed)
  BY DEF Kinds, TypedInv
<1>2. ASSUME NEW t \in Tabs, Account(t), ~Reload(t) PROVE TypedInv'
  BY <1>1, <1>2, TypedQuiet DEF Account, Refresh, Logout, SessionCheck, Login, history, serverVars
<1>3. ASSUME NEW s \in StudentStatus, OtherDelete \/ OtherStatus(s) PROVE TypedInv'
  <2>1. PICK s1 : DeleteGrade(s1) \/ ChangeStatus(s1)
    BY <1>3 DEF OtherDelete, OtherStatus
  <2>2. Recorded(grade', held', typed)
    BY <1>1, <2>1, OtherRecorded
  <2> QED BY <1>3, <2>2, TypedQuiet DEF OtherDelete, OtherStatus, deviceVars, history
<1>4. CASE UNCHANGED vars
  BY <1>1, <1>4, TypedQuiet DEF vars, deviceVars, history, serverVars
<1>5. "active" \in StudentStatus
  BY DEF StudentStatus
<1>6. ASSUME NEW t \in Tabs, Running(t) \/ SaveAbandon(t) PROVE TypedInv'
  BY <1>6, TypedRunning
<1>7. ASSUME NEW t \in Tabs, NEW k \in Kinds, LoseAnswer(t, k) \/ Reload(t) PROVE TypedInv'
  BY <1>7, TypedDetach
<1> QED
  BY <1>1, <1>2, <1>3, <1>4, <1>5, <1>6, <1>7, TypedSaveStart, TypedServerHandle, TypedOtherWrite
  DEF Next, Account

(***************************************************************************)
(* Whatever drafts outlive a sign-out, tabs share one cookie and answers   *)
(* come late, no result is recorded under an account that did not type it. *)
(***************************************************************************)
THEOREM TypistRecorded == Spec => []RecordedUnderTypist
<1>1. Init => TypedInv
  BY DEF Init, ServerInit, Missing, NoNote, TypedInv, Recorded, CallsTyped, CallTyped, ItemsTyped,
         NetTyped, NoItem, Idle
<1>2. TypeInv /\ NetInv /\ TypedInv /\ [Next]_vars => TypedInv'
  BY TypedNext
<1>3. TypedInv => RecordedUnderTypist
  BY DEF TypedInv, Recorded, RecordedUnderTypist
<1> QED BY <1>1, <1>2, <1>3, TypesHold, PTL DEF Spec
-----------------------------------------------------------------------------
(* Nothing held while the student is active *)

(* Whatever makes the student active, or leaves the status alone, holds nothing. *)
LEMMA HeldBecome ==
  ASSUME NothingHeldWhileActive, NEW s, NEW row, Become(s, row)
  PROVE  NothingHeldWhileActive'
BY DEF NothingHeldWhileActive, Become, SettledNote, NoteWaits, NoNote

(* A grade is held only for a dismissed student. *)
LEMMA HeldPost ==
  ASSUME NothingHeldWhileActive, NEW req, NEW kind, Post(req, kind)
  PROVE  NothingHeldWhileActive'
<1>1. ASSUME NEW s, StoreGrade(req, s) PROVE NothingHeldWhileActive'
  BY <1>1, HeldBecome DEF StoreGrade
<1>2. ASSUME student = "dismissed", PostHeld(req, kind) PROVE NothingHeldWhileActive'
  BY <1>2 DEF PostHeld, Answer, serverVars, NothingHeldWhileActive
<1>3. ASSUME NEW k, Answer(kind, k) PROVE NothingHeldWhileActive'
  BY <1>3 DEF Answer, serverVars, NothingHeldWhileActive
<1> QED BY <1>1, <1>2, <1>3 DEF Post, PostWrite, PostBonusReturn

(* The steps of the browser leave the server alone. *)
LEMMA BrowserQuiet ==
  ASSUME NEW t \in Tabs,
         \/ \E v \in Values : SaveStart(t, v)
         \/ Running(t) \/ SaveAbandon(t) \/ Account(t)
         \/ \E k \in Kinds : LoseAnswer(t, k)
  PROVE  UNCHANGED serverVars
<1>1. CASE \E v \in Values : SaveStart(t, v)
  BY <1>1, Zenon DEF SaveStart
<1>2. CASE Running(t)
  <2>1. ASSUME NEW reached, NEW online, SaveResolve(t, reached, online) PROVE UNCHANGED serverVars
    BY <2>1 DEF SaveResolve
  <2>2. SaveReply(t) \/ FlushReply(t) \/ FlushDecide(t) => UNCHANGED serverVars
    BY DEF SaveReply, FlushReply, FlushDecide
  <2>3. FlushStart(t) \/ FlushRead(t) \/ FlushGiveUp(t) \/ FlushVerify(t) => UNCHANGED serverVars
    BY DEF FlushStart, FlushRead, FlushGiveUp, FlushVerify
  <2> QED BY <1>2, <2>1, <2>2, <2>3 DEF Running
<1>3. CASE SaveAbandon(t)
  BY <1>3 DEF SaveAbandon
<1>4. CASE Account(t)
  <2>1. Refresh(t) \/ Logout(t) \/ SessionCheck(t) => UNCHANGED serverVars
    BY DEF Refresh, Logout, SessionCheck
  <2>2. Reload(t) => UNCHANGED serverVars
    BY Zenon DEF Reload
  <2>3. ASSUME NEW u, Login(t, u) PROVE UNCHANGED serverVars
    BY <2>3 DEF Login
  <2> QED BY <1>4, <2>1, <2>2, <2>3 DEF Account
<1>5. CASE \E k \in Kinds : LoseAnswer(t, k)
  BY <1>5, Zenon DEF LoseAnswer
<1> QED BY <1>1, <1>2, <1>3, <1>4, <1>5

(***************************************************************************)
(* Whichever operation makes the student active, of this browser or of     *)
(* another device, a save, a delete, a manual return or a restored         *)
(* archive, settles the held grade in the same transaction.                *)
(***************************************************************************)
THEOREM NothingStaysHeld == Spec => []NothingHeldWhileActive
<1>1. Init => NothingHeldWhileActive
  BY DEF Init, ServerInit, NoNote, NothingHeldWhileActive
<1>2. NothingHeldWhileActive /\ [Next]_vars => NothingHeldWhileActive'
  <2> SUFFICES ASSUME NothingHeldWhileActive, [Next]_vars PROVE NothingHeldWhileActive'
    OBVIOUS
  <2>1. ASSUME UNCHANGED serverVars PROVE NothingHeldWhileActive'
    BY <2>1 DEF serverVars, NothingHeldWhileActive
  <2>2. CASE UNCHANGED vars
    BY <2>1, <2>2 DEF vars
  <2>3. ASSUME NEW r \in net, ServerHandle(r) PROVE NothingHeldWhileActive'
    BY <2>3, HeldPost DEF ServerHandle
  <2>4. ASSUME NEW u \in Users, NEW v \in Values, OtherWrite(u, v)
        PROVE  NothingHeldWhileActive'
    BY <2>4, HeldPost DEF OtherWrite
  <2>5. CASE OtherDelete
    BY <2>5, HeldBecome DEF OtherDelete, DeleteGrade
  <2>6. ASSUME NEW s \in StudentStatus, OtherStatus(s) PROVE NothingHeldWhileActive'
    BY <2>6, HeldBecome DEF OtherStatus, ChangeStatus
  <2> QED BY <2>1, <2>2, <2>3, <2>4, <2>5, <2>6, BrowserQuiet DEF Next
<1> QED BY <1>1, <1>2, PTL DEF Spec
-----------------------------------------------------------------------------
(***************************************************************************)
(* No draft buries a row its author could not know.  A baseline of account *)
(* u is a version that was handed out, and if it is the present row's, u   *)
(* was shown that version, wrote it, or typed its value.                   *)
(***************************************************************************)

(* What those facts depend on. *)
Now == [row |-> grade, clock |-> clock, known |-> known, typed |-> typed]

Fits(v, u, s) ==
  /\ v <= s.clock
  /\ v # 0 /\ v = s.row.ver =>
       v \in s.known[u] \/ s.row.by = u \/ s.row.val \in s.typed[u]

(* A row that was read or answered holds the value its version still has. *)
RowFits(row, s) ==
  /\ row.ver <= s.clock
  /\ row.ver # 0 /\ row.ver = s.row.ver => row.val = s.row.val

CallFits(j, s) ==
  j.pc # "idle" =>
    /\ Fits(j.exp, j.own, s) /\ RowFits(j.row, s)
    /\ j.att \subseteq s.typed[j.own]
DraftFits(i, u, s) == Fits(i.exp, u, s) /\ i.att \subseteq s.typed[u]

BaseInv ==
  /\ grade.ver <= clock
  /\ \A t \in Tabs : view[t] <= clock
  /\ \A t \in Tabs, k \in Kinds : CallFits(job[t][k], Now)
  /\ \A u \in Users : DraftFits(item[u], u, Now)
  /\ \A r \in net : Fits(r.exp, r.own, Now)

(* A version is handed out once, and what was shown or typed stays so. *)
Later(s, s2) ==
  /\ s.clock \in Nat /\ s2.clock \in Nat /\ s.clock <= s2.clock
  /\ s2.row = s.row \/ s2.row.ver = 0 \/ s2.row.ver > s.clock
  /\ \A u \in Users : s.known[u] \subseteq s2.known[u] /\ s.typed[u] \subseteq s2.typed[u]

(* A baseline that fits goes on fitting: a new row has a new version. *)
LEMMA FitsStays ==
  ASSUME NEW s, NEW s2, Later(s, s2), NEW v \in Nat, NEW u \in Users, Fits(v, u, s)
  PROVE  Fits(v, u, s2)
BY DEF Later, Fits

(* So does a call, with its baseline, its row and its attempts. *)
LEMMA CallFitsStays ==
  ASSUME NEW s, NEW s2, Later(s, s2), NEW j \in Job, j.pc # "idle" => j.own \in Users,
         CallFits(j, s)
  PROVE  CallFits(j, s2)
<1> SUFFICES ASSUME j.pc # "idle" PROVE CallFits(j, s2)
  BY DEF CallFits
<1>1. j.exp \in Nat /\ j.row.ver \in Nat /\ j.own \in Users
  BY DEF Job, Shown
<1>2. Fits(j.exp, j.own, s2)
  BY <1>1, FitsStays DEF CallFits
<1>3. RowFits(j.row, s2)
  BY <1>1 DEF CallFits, RowFits, Later
<1>4. j.att \subseteq s2.typed[j.own]
  BY <1>1 DEF CallFits, Later
<1> QED BY <1>2, <1>3, <1>4 DEF CallFits

(* The parts of the present. *)
LEMMA NowIs ==
  /\ Now.row = grade /\ Now.clock = clock /\ Now.known = known /\ Now.typed = typed
  /\ Now'.row = grade' /\ Now'.clock = clock' /\ Now'.known = known' /\ Now'.typed = typed'
BY DEF Now

(* The moves of the server's row: none, a delete, or a fresh version. *)
RowMoves ==
  /\ clock <= clock' /\ grade'.ver <= clock'
  /\ grade' = grade \/ grade'.ver = 0 \/ grade'.ver > clock

(* The handler stores under a fresh version or leaves the row alone. *)
LEMMA PostMoves ==
  ASSUME ServerTypeOK, grade.ver <= clock, NEW req, NEW kind, Post(req, kind)
  PROVE  RowMoves
<1>1. clock \in Nat /\ grade.ver \in Nat
  BY DEF ServerTypeOK, Row
<1>2. ASSUME NEW s, StoreGrade(req, s) PROVE RowMoves
  BY <1>1, <1>2 DEF StoreGrade, Become, SettledRow, RowMoves
<1>3. CASE UNCHANGED <<grade, clock>>
  BY <1>1, <1>3 DEF RowMoves
<1>4. ASSUME NEW k, Answer(kind, k) PROVE RowMoves
  BY <1>3, <1>4 DEF Answer, serverVars
<1>5. ASSUME PostHeld(req, kind) PROVE RowMoves
  BY <1>3, <1>5 DEF PostHeld, Answer, serverVars
<1> QED BY <1>2, <1>4, <1>5 DEF Post, PostWrite, PostBonusReturn

(* A delete empties the row, and a settled grade gets a fresh version. *)
LEMMA OtherMoves ==
  ASSUME ServerTypeOK, grade.ver <= clock, NEW s, DeleteGrade(s) \/ ChangeStatus(s)
  PROVE  RowMoves
<1>1. clock \in Nat /\ grade.ver \in Nat
  BY DEF ServerTypeOK, Row
<1>2. ASSUME NEW row, row \in {Missing, grade}, Become(s, row)
      PROVE  \/ grade' = row
             \/ row.ver = 0 /\ grade'.ver = clock + 1
  BY <1>2 DEF Become, SettledRow
<1>3. CASE DeleteGrade(s)
  <2>1. Missing.ver = 0
    BY DEF Missing
  <2> QED BY <1>1, <1>2, <1>3, <2>1 DEF DeleteGrade, RowMoves
<1>4. CASE ChangeStatus(s)
  BY <1>1, <1>2, <1>4 DEF ChangeStatus, RowMoves
<1> QED BY <1>3, <1>4

(* What was shown and typed is not forgotten. *)
HistoryGrows ==
  \A u \in Users : known[u] \subseteq known'[u] /\ typed[u] \subseteq typed'[u]

(* A step of those leads to a later present. *)
LEMMA NowGrows ==
  ASSUME TypeInv, TypeInv', RowMoves, HistoryGrows
  PROVE  Later(Now, Now')
<1>1. clock \in Nat /\ clock' \in Nat
  BY DEF TypeInv, TypeOK, ServerTypeOK
<1> QED BY <1>1, NowIs DEF RowMoves, HistoryGrows, Later

(* What fitted before the step fits after it. *)
Old ==
  /\ \A t \in Tabs, k \in Kinds : CallFits(job[t][k], Now')
  /\ \A u \in Users : DraftFits(item[u], u, Now')
  /\ \A r \in net : Fits(r.exp, r.own, Now')

(* No step makes what was there stop fitting. *)
LEMMA OldStays ==
  ASSUME TypeInv, TypeInv', BaseInv, RowMoves, HistoryGrows
  PROVE  Old
<1>1. Later(Now, Now')
  BY NowGrows
<1>2. ASSUME NEW t \in Tabs, NEW k \in Kinds PROVE CallFits(job[t][k], Now')
  <2>1. job[t][k] \in Job /\ (job[t][k].pc # "idle" => job[t][k].own \in Users)
    BY DEF TypeInv, TypeOK, JobsReal, Real
  <2>2. CallFits(job[t][k], Now)
    BY DEF BaseInv
  <2> QED BY <1>1, <2>1, <2>2, CallFitsStays
<1>3. ASSUME NEW u \in Users PROVE DraftFits(item[u], u, Now')
  <2>1. item[u].exp \in Nat
    BY DEF TypeInv, TypeOK, Item
  <2>2. DraftFits(item[u], u, Now)
    BY DEF BaseInv
  <2> QED BY <1>1, <2>1, <2>2, FitsStays DEF DraftFits, Later
<1>4. ASSUME NEW r \in net PROVE Fits(r.exp, r.own, Now')
  <2>1. r.exp \in Nat /\ r.own \in Users /\ Fits(r.exp, r.own, Now)
    BY DEF TypeInv, TypeOK, Request, BaseInv
  <2> QED BY <1>1, <2>1, FitsStays
<1> QED BY <1>2, <1>3, <1>4 DEF Old

(***************************************************************************)
(* What a step changes of the sheets, the calls, the drafts and the        *)
(* requests fits what is there after it.                                   *)
(***************************************************************************)
ViewsFit == \A t \in Tabs : view'[t] = view[t] \/ view'[t] <= clock'
CallsFit == \A t \in Tabs, k \in Kinds : job'[t][k] = job[t][k] \/ CallFits(job'[t][k], Now')
DraftsFit == \A u \in Users : item'[u] = item[u] \/ DraftFits(item'[u], u, Now')
NetFits == \A r \in net' : r \in net \/ Fits(r.exp, r.own, Now')

(* So only what a step changes has to be looked at. *)
LEMMA BaseStep ==
  ASSUME TypeInv, TypeInv', BaseInv, RowMoves, HistoryGrows,
         ViewsFit, CallsFit, DraftsFit, NetFits
  PROVE  BaseInv'
<1>1. Old
  BY OldStays
<1>2. \A t \in Tabs : view'[t] <= clock'
  BY DEF ViewsFit, BaseInv, RowMoves, TypeInv, TypeOK, ServerTypeOK
<1>3. \A t \in Tabs, k \in Kinds : CallFits(job'[t][k], Now')
  BY <1>1 DEF Old, CallsFit
<1>4. \A u \in Users : DraftFits(item'[u], u, Now')
  BY <1>1 DEF Old, DraftsFit
<1>5. \A r \in net' : Fits(r.exp, r.own, Now')
  BY <1>1 DEF Old, NetFits
<1> QED BY <1>2, <1>3, <1>4, <1>5 DEF BaseInv, RowMoves

(* The row is left alone. *)
LEMMA RowStays ==
  ASSUME TypeInv, BaseInv, UNCHANGED <<grade, clock>>
  PROVE  RowMoves
BY DEF TypeInv, TypeOK, ServerTypeOK, BaseInv, RowMoves

(* One call becomes j, or ends. *)
LEMMA CallSet ==
  ASSUME TypeInv, NEW t \in Tabs, NEW k \in Kinds, NEW j, Step(t, k, j), CallFits(j, Now')
  PROVE  CallsFit
BY DEF TypeInv, TypeOK, Step, CallsFit

(* A call that ended has no baseline. *)
LEMMA CallEnds ==
  ASSUME TypeInv, NEW t \in Tabs, NEW k \in Kinds, Finish(t, k)
  PROVE  CallsFit
<1>1. CallFits(Idle, Now')
  BY DEF CallFits, Idle
<1> QED BY <1>1, CallSet DEF Finish

(* A call goes on with the baseline and the attempts it had, or fewer. *)
LEMMA CallGoesOn ==
  ASSUME TypeInv, Old, NEW t \in Tabs, NEW k \in Kinds, job[t][k].pc # "idle", NEW j,
         Step(t, k, j), j.own = job[t][k].own, j.exp = job[t][k].exp, j.att = job[t][k].att,
         RowFits(j.row, Now')
  PROVE  CallsFit
<1>1. CallFits(j, Now')
  BY DEF Old, CallFits
<1> QED BY <1>1, CallSet

(* A draft is replaced, where it is still the call's. *)
LEMMA DraftSet ==
  ASSUME TypeInv, NEW j, j.own \in Users, NEW new, Patch(j, new),
         Same(j) => DraftFits(new, j.own, Now')
  PROVE  DraftsFit
BY DEF TypeInv, TypeOK, Patch, DraftsFit

(* The absent row and the absent draft fit every account. *)
LEMMA NothingFits ==
  ASSUME TypeInv', NEW u \in Users
  PROVE  Fits(0, u, Now') /\ DraftFits(NoItem, u, Now') /\ RowFits(Absent, Now')
<1>1. clock' \in Nat
  BY DEF TypeInv, TypeOK, ServerTypeOK
<1> QED BY <1>1, NowIs DEF Fits, DraftFits, RowFits, NoItem, Absent

(* A change of state leaves the draft's baseline and attempts. *)
LEMMA DraftMarked ==
  ASSUME TypeInv, Old, NEW j, j.own \in Users, NEW s,
         Patch(j, [item[j.own] EXCEPT !.state = s])
  PROVE  DraftsFit
<1> DEFINE i == item[j.own]
           i1 == [i EXCEPT !.state = s]
<1>1. i \in Item
  BY DEF TypeInv, TypeOK
<1>2. i1.exp = i.exp /\ i1.att = i.att
  BY <1>1 DEF Item
<1>3. DraftFits(i, j.own, Now')
  BY DEF Old
<1>4. DraftFits(i1, j.own, Now')
  BY <1>2, <1>3 DEF DraftFits
<1>5. Patch(j, i1)
  OBVIOUS
<1> HIDE DEF i, i1
<1> QED BY <1>4, <1>5, DraftSet

(* A confirmation leaves the baseline or moves it to the row it knows of. *)
LEMMA DraftConfirmed ==
  ASSUME TypeInv, TypeInv', Old, NEW t, NEW j, j.own \in Users, NEW ver \in Nat, Confirm(t, j, ver),
         Fits(ver, j.own, Now')
  PROVE  DraftsFit
<1> DEFINE i == item[j.own]
           i2 == [i EXCEPT !.exp = IF ver # 0 THEN ver ELSE @,
                           !.att = @ \ {j.val}, !.state = "pending"]
<1>1. i \in Item
  BY DEF TypeInv, TypeOK
<1>2. i2.exp = (IF ver # 0 THEN ver ELSE i.exp) /\ i2.att = i.att \ {j.val}
  BY <1>1 DEF Item
<1>3. DraftFits(i, j.own, Now')
  BY DEF Old
<1>4. DraftFits(i2, j.own, Now')
  BY <1>2, <1>3 DEF DraftFits
<1>5. Confirmed(j, ver) = NoItem \/ Confirmed(j, ver) = i2
  BY DEF Confirmed
<1>6. DraftFits(Confirmed(j, ver), j.own, Now')
  BY <1>4, <1>5, NothingFits
<1>7. item' = item \/ item' = [item EXCEPT ![j.own] = Confirmed(j, ver)]
  BY DEF Confirm
<1>8. item \in [Users -> Item]
  BY DEF TypeInv, TypeOK
<1> HIDE DEF i, i2
<1> QED BY <1>6, <1>7, <1>8 DEF DraftsFit

(* A version that was shown is a baseline for the account it was shown to. *)
LEMMA LearnedFits ==
  ASSUME TypeInv, BaseInv, NEW u \in Users, NEW v \in Nat, v <= clock', Learn(u, v)
  PROVE  Fits(v, u, Now')
<1>1. v \in known'[u]
  BY DEF Learn, TypeInv, TypeOK
<1> QED BY <1>1, NowIs DEF Fits

(* A row that holds a value the account typed is a baseline for it. *)
LEMMA TriedFits ==
  ASSUME NEW row, RowFits(row, Now'), NEW u \in Users, row.val \in typed'[u]
  PROVE  Fits(row.ver, u, Now')
BY NowIs DEF Fits, RowFits

(* A request is sent with the baseline of its call. *)
LEMMA NetSet ==
  ASSUME NEW t, NEW k, NEW j, Send(t, k, j), Fits(j.exp, j.own, Now')
  PROVE  NetFits
BY DEF Send, NetFits

(* A save takes the version its sheet shows, and a waiting draft keeps its own. *)
LEMMA BaseSaveStart ==
  ASSUME TypeInv, TypeInv', TypedInv, BaseInv, NEW t \in Tabs, NEW v \in Values, SaveStart(t, v)
  PROVE  BaseInv'
<1> DEFINE u == owner[t]
           r == spent.edits + 1
           i == item[u]
           j == [Idle EXCEPT !.pc = "sent", !.own = u, !.rev = r, !.val = v, !.exp = view[t]]
<1>1. u \in Users /\ view[t] \in Nat /\ view[t] <= clock /\ item \in [Users -> Item]
  BY DEF SaveStart, TypeInv, TypeOK, BaseInv
<1>2. /\ item' = [item EXCEPT ![u] = Staged(u, t, v, r)] /\ Step(t, "save", j)
      /\ Send(t, "save", j) /\ UNCHANGED <<grade, clock, view>> /\ Learn(u, view[t])
      /\ typed' = [typed EXCEPT ![u] = @ \cup {v}]
  BY DEF SaveStart, serverVars
<1>3. HistoryGrows /\ v \in typed'[u]
  BY <1>1, <1>2 DEF Learn, HistoryGrows, TypeInv, TypeOK
<1>4. RowMoves /\ Old
  BY <1>2, <1>3, RowStays, OldStays
<1>5. Fits(view[t], u, Now')
  BY <1>1, <1>2, LearnedFits
<1>6. j.exp = view[t] /\ j.own = u /\ j.att = {} /\ j.row = Absent
  BY DEF Idle
<1>7. CallFits(j, Now')
  BY <1>1, <1>5, <1>6, NothingFits DEF CallFits
<1>8. CallsFit /\ NetFits
  BY <1>2, <1>5, <1>6, <1>7, CallSet, NetSet DEF Kinds
<1>9. DraftFits(Staged(u, t, v, r), u, Now')
  <2>1. DraftFits(i, u, Now') /\ Now'.typed = typed'
    BY <1>1, <1>4, NowIs DEF Old
  <2>2. i.state = "pending" => i.val \in typed'[u]
    BY <1>1, <1>3 DEF TypedInv, ItemsTyped, HistoryGrows
  <2> QED BY <1>3, <1>5, <2>1, <2>2 DEF Staged, DraftFits
<1>10. DraftsFit
  BY <1>1, <1>2, <1>9 DEF DraftsFit
<1>11. ViewsFit
  BY <1>2 DEF ViewsFit
<1> HIDE DEF i, j
<1> QED BY <1>3, <1>4, <1>8, <1>10, <1>11, BaseStep

(* A call of the browser leaves the server's row and the values typed alone. *)
LEMMA BaseCall ==
  ASSUME TypeInv, TypeInv', BaseInv, NEW t \in Tabs, Running(t) \/ SaveAbandon(t)
  PROVE  /\ UNCHANGED <<grade, clock, typed>> /\ clock \in Nat
         /\ RowMoves /\ HistoryGrows /\ Old
<1>1. UNCHANGED <<grade, clock>>
  BY BrowserQuiet DEF serverVars
<1>2. UNCHANGED typed
  BY DEF Running, SaveReply, SaveResolve, SaveAbandon, FlushStart, FlushRead, FlushGiveUp,
         FlushDecide, FlushReply, FlushVerify, history
<1>3. UNCHANGED known \/ \E u \in Users : \E v : Learn(u, v)
  <2>1. CASE SaveReply(t) \/ FlushReply(t) \/ FlushVerify(t) \/ FlushDecide(t)
    <3>1. ASSUME NEW k \in Kinds, job[t][k].pc # "idle" PROVE job[t][k].own \in Users
      BY <3>1, RunningType
    <3> QED BY <2>1, <3>1 DEF SaveReply, FlushReply, FlushVerify, FlushDecide, FlushSynced,
                   FlushAdvance, FlushSend, FlushConflict, Kinds
  <2> QED BY <2>1 DEF Running, SaveResolve, SaveAbandon, FlushStart, FlushRead, FlushGiveUp, history
<1>4. HistoryGrows
  BY <1>2, <1>3 DEF HistoryGrows, Learn, TypeInv, TypeOK
<1>5. clock \in Nat
  BY DEF TypeInv, TypeOK, ServerTypeOK
<1> QED BY <1>1, <1>2, <1>4, <1>5, RowStays, OldStays

(* A running call's baseline, row and attempts, after a step that leaves the row alone. *)
Informed(j) ==
  /\ j \in Job /\ j.own \in Users /\ j.row.ver \in Nat /\ j.row.ver <= clock'
  /\ Fits(j.exp, j.own, Now') /\ RowFits(j.row, Now')
  /\ j.att \subseteq typed'[j.own]

(* A running call is informed. *)
LEMMA CallInformed ==
  ASSUME TypeInv, TypeInv', BaseInv, Old, NEW t \in Tabs, NEW k \in Kinds, job[t][k].pc # "idle"
  PROVE  Informed(job[t][k])
<1> DEFINE j == job[t][k]
<1>1. j \in Job /\ j.own \in Users /\ j.row.ver \in Nat
  BY RunningType DEF Job, Shown
<1>2. CallFits(j, Now')
  BY DEF Old
<1>3. Fits(j.exp, j.own, Now') /\ RowFits(j.row, Now') /\ j.att \subseteq typed'[j.own]
      /\ j.row.ver <= clock'
  BY <1>2, NowIs DEF CallFits, RowFits
<1>4. Informed(j)
  BY <1>1, <1>3 DEF Informed
<1> QED BY <1>4

(* The answers of a save, and the re-read after a failed one. *)
LEMMA BaseSaveEnd ==
  ASSUME TypeInv, TypeInv', TypedInv, BaseInv, NEW t \in Tabs,
         \/ SaveReply(t) \/ SaveAbandon(t)
         \/ \E reached, online \in BOOLEAN : SaveResolve(t, reached, online)
  PROVE  BaseInv'
<1> USE DEF Kinds
<1> DEFINE j == job[t]["save"]
           j2 == [j EXCEPT !.pc = "verify"]
<1>1. /\ UNCHANGED <<grade, clock, typed>> /\ clock \in Nat
      /\ RowMoves /\ HistoryGrows /\ Old
  BY BaseCall DEF Running
<1>2. j.pc # "idle" /\ UNCHANGED net
  BY DEF SaveReply, SaveAbandon, SaveResolve
<1>3. Informed(j)
  BY <1>1, <1>2, CallInformed
<1>4. j2.own = j.own /\ j2.exp = j.exp /\ j2.att = j.att /\ j2.row = j.row
  BY <1>3 DEF Informed, Job
<1>5. NetFits
  BY <1>2 DEF NetFits
<1>6. ASSUME UNCHANGED item PROVE DraftsFit
  BY <1>6 DEF DraftsFit
<1>7. ASSUME UNCHANGED view PROVE ViewsFit
  BY <1>7 DEF ViewsFit
<1>8. ASSUME NEW v, v <= clock', view' = [view EXCEPT ![t] = v] PROVE ViewsFit
  BY <1>8 DEF ViewsFit, TypeInv, TypeOK
<1>9. CASE SaveReply(t)
  <2>1. CASE j.reply \in {"ok", "held", "replayed"}
    <3>1. /\ Confirm(t, j, j.row.ver) /\ Finish(t, "save") /\ Learn(j.own, j.row.ver)
          /\ UNCHANGED view \/ view' = [view EXCEPT ![t] = j.row.ver]
      BY <1>9, <2>1 DEF SaveReply
    <3>2. Fits(j.row.ver, j.own, Now')
      BY <1>3, <3>1, LearnedFits DEF Informed
    <3>3. DraftsFit
      BY <1>1, <1>3, <3>1, <3>2, DraftConfirmed DEF Informed
    <3>4. CallsFit /\ ViewsFit
      BY <1>3, <1>7, <1>8, <3>1, CallEnds DEF Informed
    <3> QED BY <1>1, <1>5, <3>3, <3>4, BaseStep
  <2>2. CASE j.reply \notin {"ok", "held", "replayed"}
    <3>1. Step(t, "save", j2) /\ UNCHANGED <<item, view>>
      BY <1>9, <2>2 DEF SaveReply
    <3> HIDE DEF j2
    <3>2. CallsFit
      BY <1>1, <1>2, <1>3, <1>4, <3>1, CallGoesOn DEF Informed
    <3> QED BY <1>1, <1>5, <1>6, <1>7, <3>1, <3>2, BaseStep
  <2> QED BY <2>1, <2>2
<1>10. CASE SaveAbandon(t)
  <2>1. Finish(t, "save") /\ UNCHANGED <<item, view>>
    BY <1>10 DEF SaveAbandon
  <2> QED BY <1>1, <1>5, <1>6, <1>7, <2>1, CallEnds, BaseStep
<1>11. ASSUME NEW reached \in BOOLEAN, NEW online \in BOOLEAN, SaveResolve(t, reached, online)
       PROVE  BaseInv'
  <2>1. Finish(t, "save") /\ (UNCHANGED view \/ view' = [view EXCEPT ![t] = grade.ver])
    BY <1>11 DEF SaveResolve
  <2>2. grade.ver <= clock' /\ grade.ver \in Nat
    BY <1>1 DEF BaseInv, TypeInv, TypeOK, ServerTypeOK, Row
  <2>3. CallsFit /\ ViewsFit
    BY <1>7, <1>8, <2>1, <2>2, CallEnds
  <2>4. ASSUME grade.val = j.val, Confirm(t, j, grade.ver) PROVE DraftsFit
    <3>1. RowFits(Current, Now') /\ Current.ver = grade.ver /\ Current.val = grade.val
      BY <1>1, <2>2, NowIs DEF RowFits, Current
    <3>2. j.val \in typed'[j.own]
      BY <1>1, <1>2 DEF TypedInv, CallsTyped, CallTyped
    <3>3. Fits(grade.ver, j.own, Now')
      BY <1>3, <2>4, <3>1, <3>2, TriedFits DEF Informed
    <3> QED BY <1>1, <1>3, <2>2, <2>4, <3>3, DraftConfirmed DEF Informed
  <2>5. ASSUME NEW s, Attention(t, j, s) PROVE DraftsFit
    BY <1>1, <1>3, <1>6, <2>5, DraftMarked DEF Attention, Informed
  <2>6. DraftsFit
    BY <1>6, <1>11, <2>4, <2>5 DEF SaveResolve, Matches, Current
  <2> QED BY <1>1, <1>5, <2>3, <2>6, BaseStep
<1> QED BY <1>9, <1>10, <1>11

(* A flush takes the draft's baseline, reads the row, and answers or gives up. *)
LEMMA BaseFlush ==
  ASSUME TypeInv, TypeInv', BaseInv, NEW t \in Tabs,
         FlushStart(t) \/ FlushRead(t) \/ FlushGiveUp(t) \/ FlushReply(t) \/ FlushVerify(t)
  PROVE  BaseInv'
<1> USE DEF Kinds
<1> DEFINE j == job[t]["flush"]
<1>1. /\ UNCHANGED <<grade, clock, typed>> /\ clock \in Nat
      /\ RowMoves /\ HistoryGrows /\ Old
  BY BaseCall DEF Running
<1>2. UNCHANGED net
  BY DEF FlushStart, FlushRead, FlushGiveUp, FlushReply, FlushVerify
<1>3. NetFits
  BY <1>2 DEF NetFits
<1>4. ASSUME UNCHANGED item PROVE DraftsFit
  BY <1>4 DEF DraftsFit
<1>5. ASSUME UNCHANGED view PROVE ViewsFit
  BY <1>5 DEF ViewsFit
<1>6. ASSUME NEW v, v <= clock', view' = [view EXCEPT ![t] = v] PROVE ViewsFit
  BY <1>6 DEF ViewsFit, TypeInv, TypeOK
<1>7. CASE FlushStart(t)
  <2> DEFINE u == owner[t]
             j1 == [Idle EXCEPT !.pc = "lookup", !.own = u, !.rev = item[u].rev,
                                !.val = item[u].val, !.exp = item[u].exp, !.att = item[u].att]
  <2>1. u \in Users /\ Step(t, "flush", j1) /\ UNCHANGED <<item, view>>
    BY <1>7 DEF FlushStart, TypeInv, TypeOK
  <2>2. j1.own = u /\ j1.exp = item[u].exp /\ j1.att = item[u].att /\ j1.row = Absent
    BY DEF Idle
  <2>3. DraftFits(item[u], u, Now')
    BY <1>1, <2>1 DEF Old
  <2>4. CallFits(j1, Now')
    BY <2>1, <2>2, <2>3, NowIs, NothingFits DEF CallFits, DraftFits
  <2> HIDE DEF j1
  <2>5. CallsFit
    BY <2>1, <2>4, CallSet
  <2> QED BY <1>1, <1>3, <1>4, <1>5, <2>1, <2>5, BaseStep
<1>8. CASE FlushGiveUp(t)
  <2>1. Finish(t, "flush") /\ UNCHANGED <<item, view>>
    BY <1>8 DEF FlushGiveUp
  <2> QED BY <1>1, <1>3, <1>4, <1>5, <2>1, CallEnds, BaseStep
<1>9. CASE FlushRead(t)
  <2> DEFINE j2 == [j EXCEPT !.pc = IF j.pc = "lookup" THEN "looked" ELSE "verified",
                             !.row = Current]
  <2>1. j.pc # "idle" /\ Step(t, "flush", j2) /\ UNCHANGED <<item, view>>
    BY <1>9 DEF FlushRead
  <2>2. Informed(j)
    BY <1>1, <2>1, CallInformed
  <2>3. j2.own = j.own /\ j2.exp = j.exp /\ j2.att = j.att /\ j2.row = Current
    BY <2>2 DEF Informed, Job
  <2>4. RowFits(Current, Now')
    BY <1>1, NowIs DEF RowFits, Current, BaseInv
  <2> HIDE DEF j2
  <2>5. CallsFit
    BY <1>1, <2>1, <2>3, <2>4, CallGoesOn
  <2> QED BY <1>1, <1>3, <1>4, <1>5, <2>1, <2>5, BaseStep
<1>10. ASSUME Informed(j), Confirm(t, j, j.row.ver), Learn(j.own, j.row.ver) PROVE DraftsFit
  <2>1. Fits(j.row.ver, j.own, Now')
    BY <1>10, LearnedFits DEF Informed
  <2> QED BY <1>1, <1>10, <2>1, DraftConfirmed DEF Informed
<1>11. ASSUME Informed(j), NEW s, Patch(j, [item[j.own] EXCEPT !.state = s]) PROVE DraftsFit
  BY <1>1, <1>11, DraftMarked DEF Informed
<1>12. CASE FlushReply(t)
  <2> DEFINE j2 == [j EXCEPT !.pc = "verify"]
  <2>1. j.pc # "idle"
    BY <1>12 DEF FlushReply
  <2>2. Informed(j)
    BY <1>1, <2>1, CallInformed
  <2>3. j2.own = j.own /\ j2.exp = j.exp /\ j2.att = j.att /\ j2.row = j.row
    BY <2>2 DEF Informed, Job
  <2>4. Finish(t, "flush") \/ Step(t, "flush", j2)
    BY <1>12 DEF FlushReply
  <2> HIDE DEF j2
  <2>5. CallsFit
    BY <1>1, <2>1, <2>2, <2>3, <2>4, CallGoesOn, CallEnds DEF Informed
  <2>6. DraftsFit
    BY <1>4, <1>10, <1>11, <1>12, <2>2 DEF FlushReply
  <2>7. ViewsFit
    BY <1>5, <1>6, <1>12, <2>2 DEF FlushReply, Informed
  <2> QED BY <1>1, <1>3, <2>5, <2>6, <2>7, BaseStep
<1>13. CASE FlushVerify(t)
  <2>1. j.pc # "idle" /\ Finish(t, "flush")
    BY <1>13 DEF FlushVerify
  <2>2. Informed(j)
    BY <1>1, <2>1, CallInformed
  <2>3. DraftsFit
    BY <1>10, <1>11, <1>13, <2>2 DEF FlushVerify
  <2>4. ViewsFit
    BY <1>5, <1>6, <1>13, <2>2 DEF FlushVerify, Informed
  <2> QED BY <1>1, <1>3, <2>1, <2>3, <2>4, CallEnds, BaseStep
<1> QED BY <1>7, <1>8, <1>9, <1>12, <1>13

(***************************************************************************)
(* The decision over the row that was read: the baseline moves only to a   *)
(* row that holds a value this account tried.                              *)
(***************************************************************************)
LEMMA BaseFlushDecide ==
  ASSUME TypeInv, TypeInv', TypedInv, BaseInv, NEW t \in Tabs, FlushDecide(t)
  PROVE  BaseInv'
<1> USE DEF Kinds
<1> DEFINE j == job[t]["flush"]
           i == item[j.own]
<1>1. /\ UNCHANGED <<grade, clock, typed>> /\ clock \in Nat
      /\ RowMoves /\ HistoryGrows /\ Old
  BY BaseCall DEF Running
<1>2. j.pc # "idle"
  BY DEF FlushDecide
<1>3. Informed(j) /\ i \in Item /\ DraftFits(i, j.own, Now')
  BY <1>1, <1>2, CallInformed DEF Informed, Old, TypeInv, TypeOK
<1>4. j.val \in typed'[j.own]
  BY <1>1, <1>2 DEF TypedInv, CallsTyped, CallTyped
<1>5. ASSUME UNCHANGED item PROVE DraftsFit
  BY <1>5 DEF DraftsFit
<1>6. ASSUME UNCHANGED view PROVE ViewsFit
  BY <1>6 DEF ViewsFit
<1>7. ASSUME UNCHANGED net PROVE NetFits
  BY <1>7 DEF NetFits
<1>8. CASE FlushSynced(t, j)
  <2>1. /\ Patch(j, NoItem) /\ view' = [view EXCEPT ![t] = j.row.ver]
        /\ Finish(t, "flush") /\ UNCHANGED net
    BY <1>8 DEF FlushSynced
  <2>2. DraftsFit
    BY <1>3, <2>1, NothingFits, DraftSet DEF Informed
  <2>3. ViewsFit
    BY <1>3, <2>1 DEF ViewsFit, Informed, TypeInv, TypeOK
  <2> QED BY <1>1, <1>7, <2>1, <2>2, <2>3, CallEnds, BaseStep
<1>9. CASE FlushAdvance(t, j)
  <2> DEFINE j2 == [j EXCEPT !.pc = "sent", !.exp = j.row.ver, !.att = @ \ {j.row.val}]
             i3 == [i EXCEPT !.exp = j.row.ver, !.state = "pending",
                             !.att = (j.att \ {j.row.val}) \cup {j.val}]
  <2>1. CASE Same(j)
    <3>1. Patch(j, i3) /\ Step(t, "flush", j2) /\ Send(t, "flush", j2) /\ UNCHANGED view
      BY <1>9, <2>1 DEF FlushAdvance
    <3>2. j.row.val \in typed'[j.own]
      BY <1>3, <1>9 DEF FlushAdvance, Attempted, Informed
    <3>3. Fits(j.row.ver, j.own, Now')
      BY <1>3, <3>2, TriedFits DEF Informed
    <3>4. j2.own = j.own /\ j2.exp = j.row.ver /\ j2.att = j.att \ {j.row.val} /\ j2.row = j.row
      BY <1>3 DEF Informed, Job
    <3>5. i3.exp = j.row.ver /\ i3.att = (j.att \ {j.row.val}) \cup {j.val}
      BY <1>3 DEF Item
    <3>6. CallFits(j2, Now')
      BY <1>3, <3>3, <3>4, NowIs DEF CallFits, Informed
    <3>7. DraftFits(i3, j.own, Now')
      BY <1>3, <1>4, <3>3, <3>5, NowIs DEF DraftFits, Informed
    <3> HIDE DEF j2, i3
    <3>8. CallsFit /\ NetFits
      BY <3>1, <3>3, <3>4, <3>6, CallSet, NetSet
    <3>9. DraftsFit
      BY <1>3, <3>1, <3>7, DraftSet DEF Informed
    <3> QED BY <1>1, <1>6, <3>1, <3>8, <3>9, BaseStep
  <2>2. CASE ~Same(j)
    <3>1. Finish(t, "flush") /\ UNCHANGED <<item, net, view>>
      BY <1>9, <2>2 DEF FlushAdvance
    <3> QED BY <1>1, <1>5, <1>6, <1>7, <3>1, CallEnds, BaseStep
  <2> QED BY <2>1, <2>2
<1>10. CASE FlushSend(t, j)
  <2> DEFINE j2 == [j EXCEPT !.pc = "sent"]
             i2 == [i EXCEPT !.att = @ \cup {j.val}, !.state = "pending"]
  <2>1. Patch(j, i2) /\ Step(t, "flush", j2) /\ Send(t, "flush", j2) /\ UNCHANGED view
    BY <1>10 DEF FlushSend
  <2>2. j2.own = j.own /\ j2.exp = j.exp /\ j2.att = j.att /\ j2.row = j.row
    BY <1>3 DEF Informed, Job
  <2>3. i2.exp = i.exp /\ i2.att = i.att \cup {j.val}
    BY <1>3 DEF Item
  <2>4. DraftFits(i2, j.own, Now')
    BY <1>3, <1>4, <2>3, NowIs DEF DraftFits
  <2> HIDE DEF j2, i2
  <2>5. CallsFit
    BY <1>1, <1>2, <1>3, <2>1, <2>2, CallGoesOn DEF Informed
  <2>6. NetFits
    BY <1>3, <2>1, <2>2, NetSet DEF Informed
  <2>7. DraftsFit
    BY <1>3, <2>1, <2>4, DraftSet DEF Informed
  <2> QED BY <1>1, <1>6, <2>1, <2>5, <2>6, <2>7, BaseStep
<1>11. CASE FlushConflict(t, j)
  <2>1. /\ Patch(j, [item[j.own] EXCEPT !.state = "conflict"]) /\ Finish(t, "flush")
        /\ UNCHANGED <<net, view>>
    BY <1>11 DEF FlushConflict
  <2>2. DraftsFit
    BY <1>1, <1>3, <2>1, DraftMarked DEF Informed
  <2> QED BY <1>1, <1>6, <1>7, <2>1, <2>2, CallEnds, BaseStep
<1> QED BY <1>8, <1>9, <1>10, <1>11 DEF FlushDecide

(* An answer carries the row as it is when it is given. *)
LEMMA BaseServerHandle ==
  ASSUME TypeInv, TypeInv', NetInv, BaseInv, NEW r \in net, ServerHandle(r)
  PROVE  BaseInv'
<1>1. /\ r \in Request /\ net' \subseteq net
      /\ UNCHANGED <<view, item, typed, known>>
  BY DEF TypeInv, TypeOK, ServerHandle
<1>2. PICK kind \in AnswerKinds : Post(r, kind) /\ Deliver(r, kind)
  BY DEF ServerHandle
<1>3. RowMoves
  BY <1>2, PostMoves DEF TypeInv, TypeOK, BaseInv
<1>4. HistoryGrows
  BY <1>1 DEF HistoryGrows
<1>5. Old
  BY <1>3, <1>4, OldStays
<1>6. CallsFit
  <2> DEFINE row == IF kind \in {"ok", "replayed"}
                    THEN [val |-> grade'.val, ver |-> grade'.ver] ELSE Absent
             j == job[r.tab][r.kind]
             j2 == [j EXCEPT !.pc = "answered", !.reply = kind, !.row = row]
  <2>1. CASE r.tab = NoTab
    BY <1>2, <2>1 DEF Deliver, CallsFit
  <2>2. CASE r.tab # NoTab
    <3>1. r.tab \in Tabs /\ r.kind \in Kinds /\ j.pc # "idle"
      BY <1>1, <2>2 DEF Request, NetInv, Awaited
    <3>2. j \in Job
      BY <3>1 DEF TypeInv, TypeOK
    <3>3. j2.own = j.own /\ j2.exp = j.exp /\ j2.att = j.att /\ j2.row = row
      BY <3>2 DEF Job
    <3>4. Step(r.tab, r.kind, j2)
      BY <1>2, <2>2 DEF Deliver, Step
    <3>5. RowFits(row, Now')
      <4>1. clock' \in Nat
        BY DEF TypeInv, TypeOK, ServerTypeOK
      <4> QED BY <1>3, <4>1, NowIs DEF RowFits, RowMoves, Absent
    <3> HIDE DEF j2, row
    <3> QED BY <1>5, <3>1, <3>3, <3>4, <3>5, CallGoesOn
  <2> QED BY <2>1, <2>2
<1>7. ViewsFit /\ DraftsFit /\ NetFits
  BY <1>1 DEF ViewsFit, DraftsFit, NetFits
<1> QED BY <1>3, <1>4, <1>6, <1>7, BaseStep

(* A lost answer and a reload change no baseline. *)
LEMMA BaseDetach ==
  ASSUME TypeInv, TypeInv', BaseInv, NEW t \in Tabs, NEW k \in Kinds, LoseAnswer(t, k) \/ Reload(t)
  PROVE  BaseInv'
<1>1. /\ UNCHANGED <<grade, clock, item, typed, known>> /\ net \subseteq Request
      /\ UNCHANGED view \/ view' = [view EXCEPT ![t] = grade.ver]
  BY DEF LoseAnswer, Reload, serverVars, history, TypeInv, TypeOK
<1>2. HistoryGrows /\ RowMoves
  BY <1>1, RowStays DEF HistoryGrows
<1>3. Old
  BY <1>2, OldStays
<1>4. ViewsFit /\ DraftsFit
  BY <1>1, <1>2 DEF ViewsFit, DraftsFit, RowMoves, TypeInv, TypeOK
<1>5. \A r \in net : [r EXCEPT !.tab = NoTab].exp = r.exp /\ [r EXCEPT !.tab = NoTab].own = r.own
  BY <1>1 DEF Request
<1>6. \A q \in net' : \E r \in net : q = r \/ q = [r EXCEPT !.tab = NoTab]
  BY DEF LoseAnswer, Detach, Orphaned, Reload
<1>7. NetFits
  BY <1>3, <1>5, <1>6 DEF Old, NetFits
<1>8. CASE LoseAnswer(t, k)
  <2> DEFINE j == job[t][k]
             j2 == [j EXCEPT !.pc = "answered", !.reply = "lost", !.row = Absent]
  <2>1. j \in Job /\ j.own \in Users /\ j.pc # "idle" /\ Step(t, k, j2)
    BY <1>8, RunningType DEF LoseAnswer
  <2>2. j2.own = j.own /\ j2.exp = j.exp /\ j2.att = j.att /\ j2.row = Absent
    BY <2>1 DEF Job
  <2> HIDE DEF j2
  <2>3. CallsFit
    BY <1>3, <2>1, <2>2, NothingFits, CallGoesOn
  <2> QED BY <1>2, <1>4, <1>7, <2>3, BaseStep
<1>9. CASE Reload(t)
  <2>1. \A s \in Tabs, q \in Kinds : job'[s][q] = job[s][q] \/ job'[s][q] = Idle
    BY <1>9 DEF Reload, TypeInv, TypeOK
  <2>2. CallsFit
    BY <2>1 DEF CallsFit, CallFits, Idle
  <2> QED BY <1>2, <1>4, <1>7, <2>2, BaseStep
<1> QED BY <1>8, <1>9

(* The other steps leave the calls, drafts and requests alone. *)
LEMMA BaseQuiet ==
  ASSUME TypeInv, TypeInv', BaseInv, RowMoves, UNCHANGED <<item, job, net, known>>, ViewsFit,
         UNCHANGED typed \/ \E u \in Users : \E v : typed' = [typed EXCEPT ![u] = @ \cup {v}]
  PROVE  BaseInv'
<1>1. HistoryGrows
  BY DEF HistoryGrows, TypeInv, TypeOK
<1>2. CallsFit /\ DraftsFit /\ NetFits
  BY DEF CallsFit, DraftsFit, NetFits
<1> QED BY <1>1, <1>2, BaseStep

(* The inductive step for the baselines. *)
LEMMA BaseNext ==
  ASSUME TypeInv, TypeInv', NetInv, TypedInv, BaseInv, [Next]_vars
  PROVE  BaseInv'
<1>1. ASSUME UNCHANGED view PROVE ViewsFit
  BY <1>1 DEF ViewsFit
<1>2. ServerTypeOK /\ grade.ver <= clock
  BY DEF TypeInv, TypeOK, BaseInv
<1>3. ASSUME NEW t \in Tabs, Account(t), ~Reload(t) PROVE BaseInv'
  <2>1. /\ UNCHANGED <<grade, clock, item, job, net, known, typed>>
        /\ UNCHANGED view \/ view' = [view EXCEPT ![t] = grade.ver]
    BY <1>3 DEF Account, Refresh, Logout, SessionCheck, Login, history, serverVars
  <2>2. RowMoves
    BY <2>1, RowStays
  <2>3. ViewsFit
    BY <1>2, <2>1 DEF ViewsFit, TypeInv, TypeOK
  <2> QED BY <2>1, <2>2, <2>3, BaseQuiet
<1>4. ASSUME NEW u \in Users, NEW v \in Values, OtherWrite(u, v) PROVE BaseInv'
  <2>1. UNCHANGED <<view, item, job, net, known>> /\ typed' = [typed EXCEPT ![u] = @ \cup {v}]
    BY <1>4 DEF OtherWrite, deviceVars
  <2>2. RowMoves
    BY <1>2, <1>4, PostMoves DEF OtherWrite
  <2> QED BY <1>1, <2>1, <2>2, BaseQuiet
<1>5. ASSUME NEW s \in StudentStatus, OtherDelete \/ OtherStatus(s) PROVE BaseInv'
  <2>1. UNCHANGED <<view, item, job, net, known, typed>>
    BY <1>5 DEF OtherDelete, OtherStatus, deviceVars, history
  <2>2. RowMoves
    BY <1>2, <1>5, OtherMoves DEF OtherDelete, OtherStatus
  <2> QED BY <1>1, <2>1, <2>2, BaseQuiet
<1>6. CASE UNCHANGED vars
  <2>1. UNCHANGED <<grade, clock, view, item, job, net, known, typed>>
    BY <1>6 DEF vars, serverVars, deviceVars, history
  <2> QED BY <1>1, <2>1, RowStays, BaseQuiet
<1>7. ASSUME NEW t \in Tabs, Running(t) \/ SaveAbandon(t) PROVE BaseInv'
  BY <1>7, BaseSaveEnd, BaseFlush, BaseFlushDecide DEF Running
<1>8. "save" \in Kinds /\ "active" \in StudentStatus
  BY DEF Kinds, StudentStatus
<1> QED
  BY <1>3, <1>4, <1>5, <1>6, <1>7, <1>8, BaseSaveStart, BaseServerHandle, BaseDetach
  DEF Next, Account

(* A request is stored only over the version it was based on. *)
LEMMA PostOverwrites ==
  ASSUME ServerTypeOK, NEW req, NEW kind, Post(req, kind), grade.ver # 0, grade'.ver # grade.ver
  PROVE  req.exp = grade.ver /\ grade'.by = req.own
<1>1. clock \in Nat
  BY DEF ServerTypeOK
<1>2. ASSUME NEW s, StoreGrade(req, s), req.cookie = req.own PROVE grade'.by = req.own
  BY <1>1, <1>2 DEF StoreGrade, Become, SettledRow
<1>3. ~\E k : Answer(kind, k)
  BY DEF Answer, serverVars
<1>4. ~PostHeld(req, kind)
  BY <1>3 DEF PostHeld
<1> QED BY <1>2, <1>3, <1>4 DEF Post, OwnerRefused, PostWrite, PostBonusReturn, BaselineHolds

(***************************************************************************)
(* However late a draft is sent again, by whichever tab and whoever is     *)
(* signed in by then, the row it replaces was shown to its account, was    *)
(* written by it, or holds a value it typed.                               *)
(***************************************************************************)
THEOREM NothingUnseenOverwritten == Spec => OverwritesOnlyKnown
<1>1. Init => TypedInv /\ BaseInv
  <2> SUFFICES ASSUME Init PROVE TypedInv /\ BaseInv
    OBVIOUS
  <2>1. TypedInv
    BY DEF Init, ServerInit, Missing, NoNote, TypedInv, Recorded, CallsTyped, CallTyped,
           ItemsTyped, NetTyped, NoItem, Idle
  <2>2. grade.ver = 0 /\ clock = 0 /\ net = {} /\ \A t \in Tabs : view[t] = 0
    BY DEF Init, ServerInit, Missing
  <2>3. \A t \in Tabs, k \in Kinds : CallFits(job[t][k], Now)
    BY DEF Init, CallFits, Idle
  <2>4. \A u \in Users : DraftFits(item[u], u, Now)
    BY <2>2, NowIs DEF Init, DraftFits, Fits, NoItem
  <2> QED BY <2>1, <2>2, <2>3, <2>4 DEF BaseInv
<1>2. TypeInv /\ TypeInv' /\ NetInv /\ TypedInv /\ BaseInv /\ [Next]_vars => TypedInv' /\ BaseInv'
  BY TypedNext, BaseNext
<1>3. TypeInv /\ BaseInv /\ [Next]_vars =>
        [net' # net /\ grade.ver # 0 /\ grade'.ver # grade.ver =>
           \/ grade.ver \in known[grade'.by]
           \/ grade.by = grade'.by
           \/ grade.val \in typed[grade'.by]]_vars
  <2> SUFFICES ASSUME TypeInv, BaseInv, Next,
                      net' # net, grade.ver # 0, grade'.ver # grade.ver
               PROVE  \/ grade.ver \in known[grade'.by]
                      \/ grade.by = grade'.by
                      \/ grade.val \in typed[grade'.by]
    OBVIOUS
  <2>1. ~UNCHANGED serverVars
    BY DEF serverVars
  <2>2. PICK r \in net : ServerHandle(r)
    BY <2>1, BrowserQuiet DEF Next, OtherWrite, OtherDelete, OtherStatus, deviceVars
  <2>3. r.exp = grade.ver /\ grade'.by = r.own
    BY <2>2, PostOverwrites DEF ServerHandle, TypeInv, TypeOK
  <2> QED BY <2>2, <2>3, NowIs DEF BaseInv, Fits
<1> QED BY <1>1, <1>2, <1>3, TypesHold, PTL DEF Spec, OverwritesOnlyKnown
=============================================================================
