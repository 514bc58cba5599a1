----------------------------- MODULE MutationOutbox -----------------------------
(***************************************************************************)
(* How a page sends the user's changes: the direct call with its retries   *)
(* (apiPost, apiPut, apiDelete), and the queue in localStorage for what    *)
(* can be repeated, which one tab at a time replays (flushOutbox, under a  *)
(* web lock).  Several tabs of one account share the queue.  A request's   *)
(* answer can be lost after the server handled it, or before; the server   *)
(* may also handle it after its sender gave up.  A change is one request   *)
(* body; made twice it is the same body.                                   *)
(***************************************************************************)
EXTENDS Naturals, Sequences, FiniteSets, Functions

CONSTANTS
  Tabs,
  Edits,        \* the changes of the account's users
  NoEdit,
  Guarded,      \* those that carry a guard, are deletions, or create something
  MaxTries,     \* the attempts of a direct call
  MaxAttempts,  \* MAX_ATTEMPTS of a queued change
  MaxQueue,     \* MAX_OUTBOX
  MaxMade,      \* bound: how many changes are made
  MaxFaults     \* bound: refusals, failures and reloads

ASSUME Assumption ==
  /\ IsFiniteSet(Tabs) /\ NoEdit \notin Edits /\ Guarded \subseteq Edits
  /\ {MaxTries, MaxAttempts, MaxQueue, MaxMade, MaxFaults} \subseteq Nat

VARIABLES
  made,         \* made[e]: how often the user made e since the start
  call,         \* call[t]: the tab's direct call
  queue,        \* the stored items, oldest first
  flush,        \* flush[t]: the tab's replay of the queue
  orphans,      \* orphans[e]: requests nobody waits for that the server will handle
  executed,     \* executed[e]: how often the server made the change since the start
  landed,       \* history: changes the server made since they were taken up
  reported,     \* changes whose call or queue item ended with an error
  cut,          \* history: changes whose call a reload of the page cut off
  faults        \* how much of the bound is used

vars == <<made, call, queue, flush, orphans, executed, landed, reported, cut, faults>>

Answers == {"none", "done", "refused", "busy", "lost"}
Item == [edit: Edits, attempts: Nat, due: BOOLEAN]

NoCall == [edit |-> NoEdit, tries |-> 0, answer |-> "none"]
Call == [edit: Edits, tries: Nat, answer: Answers]

(* items: what is left of the items read at the start; sent: the first is on its way. *)
NoFlush == [on |-> FALSE, items |-> <<>>, sent |-> FALSE, answer |-> "none", flushed |-> {}]
Flush == [on: BOOLEAN, items: Seq(Item), sent: BOOLEAN, answer: Answers, flushed: SUBSET Edits]

Queued == {queue[i].edit : i \in DOMAIN queue}
Calling == {call[t].edit : t \in Tabs} \ {NoEdit}
Carried == Queued \cup Calling

TypeOK ==
  /\ made \in [Edits -> Nat]
  /\ call \in [Tabs -> Call \cup {NoCall}]
  /\ queue \in Seq(Item) /\ Len(queue) <= MaxQueue
  /\ \A i, j \in DOMAIN queue : queue[i].edit = queue[j].edit => i = j
  /\ flush \in [Tabs -> Flush]
  /\ orphans \in [Edits -> Nat] /\ executed \in [Edits -> Nat]
  /\ landed \subseteq Edits /\ reported \subseteq Edits /\ cut \subseteq Edits
  /\ faults \in Nat

LeftItem(e) == [edit |-> e, attempts |-> 1, due |-> TRUE]

(***************************************************************************)
(* The queue an earlier page left; its requests may have arrived, and an   *)
(* earlier version queued anything.                                        *)
(***************************************************************************)
Init ==
  /\ queue \in UNION {[1..n -> {LeftItem(e) : e \in Edits}] : n \in 0..MaxQueue}
  /\ \A i, j \in DOMAIN queue : queue[i].edit = queue[j].edit => i = j
  /\ landed \in {{}, Queued}
  /\ made = [e \in Edits |-> 0] /\ executed = [e \in Edits |-> 0]
  /\ call = [t \in Tabs |-> NoCall]
  /\ flush = [t \in Tabs |-> NoFlush]
  /\ orphans = [e \in Edits |-> 0]
  /\ reported = {} /\ cut = {} /\ faults = 0

-----------------------------------------------------------------------------
(* The server *)

Fault == faults < MaxFaults /\ faults' = faults + 1

Executes(e) ==
  /\ executed' = [executed EXCEPT ![e] = @ + 1] /\ landed' = landed \cup {e}

(* A request is carried out; or refused, or put off (timeouts, 5xx), as if it had not run. *)
Serves(e, answer) ==
  \/ answer = "done" /\ Executes(e) /\ UNCHANGED faults
  \/ answer \in {"refused", "busy"} /\ Fault /\ UNCHANGED <<executed, landed>>

(* The answer does not arrive; a request not handled yet may be handled later. *)
Loses(e, answer) ==
  \/ UNCHANGED orphans
  \/ answer = "none" /\ orphans' = [orphans EXCEPT ![e] = @ + 1]

LateServe(e) ==
  /\ orphans[e] > 0 /\ orphans' = [orphans EXCEPT ![e] = @ - 1]
  /\ Executes(e)
  /\ UNCHANGED <<made, call, queue, flush, reported, cut, faults>>

-----------------------------------------------------------------------------
(* The direct call *)

Make(t, e) ==
  /\ call[t] = NoCall /\ FoldFunction(+, 0, made) < MaxMade
  /\ made' = [made EXCEPT ![e] = @ + 1]
  /\ call' = [call EXCEPT ![t] = [edit |-> e, tries |-> 1, answer |-> "none"]]
  /\ landed' = IF e \in Carried THEN landed ELSE landed \ {e}
  /\ UNCHANGED <<queue, flush, orphans, executed, reported, cut, faults>>

ServeCall(t) ==
  /\ call[t] # NoCall /\ call[t].answer = "none"
  /\ \E answer \in {"done", "refused", "busy"} :
       /\ Serves(call[t].edit, answer)
       /\ call' = [call EXCEPT ![t].answer = answer]
  /\ UNCHANGED <<made, queue, flush, orphans, reported, cut>>

CallLost(t) ==
  /\ call[t] # NoCall /\ call[t].answer \in {"none", "done"} /\ Fault
  /\ Loses(call[t].edit, call[t].answer)
  /\ call' = [call EXCEPT ![t].answer = "lost"]
  /\ UNCHANGED <<made, queue, flush, executed, landed, reported, cut>>

(* mutationCanBeReplayed *)
Replayable(e) == e \notin Guarded

(* retryTransientMutation *)
CallRetry(t) ==
  /\ call[t].answer \in {"busy", "lost"}
  /\ Replayable(call[t].edit) /\ call[t].tries < MaxTries
  /\ call' = [call EXCEPT ![t] = [edit |-> call[t].edit, tries |-> call[t].tries + 1, answer |-> "none"]]
  /\ UNCHANGED <<made, queue, flush, orphans, executed, landed, reported, cut, faults>>

CallDone(t) ==
  /\ call[t].answer = "done" /\ call' = [call EXCEPT ![t] = NoCall]
  /\ UNCHANGED <<made, queue, flush, orphans, executed, landed, reported, cut, faults>>

CallRefused(t) ==
  /\ call[t].answer = "refused" /\ call' = [call EXCEPT ![t] = NoCall]
  /\ reported' = reported \cup {call[t].edit}
  /\ UNCHANGED <<made, queue, flush, orphans, executed, landed, cut, faults>>

(***************************************************************************)
(* The call failed for good.  queueOnly stores it at the end of the queue; *)
(* the same body is not stored twice, and a full queue takes no more.      *)
(***************************************************************************)
StoredTwice(e) == FALSE   \* faulty: the same body is not looked for
Stored(e) == e \in Queued

CallGiveUp(t) ==
  LET e == call[t].edit IN
  /\ call[t].answer \in {"busy", "lost"}
  /\ Replayable(e) => call[t].tries >= MaxTries
  /\ call' = [call EXCEPT ![t] = NoCall]
  /\ \/ Replayable(e) /\ Stored(e) /\ UNCHANGED <<queue, reported>>
     \/ /\ Replayable(e) /\ ~Stored(e) /\ Len(queue) < MaxQueue
        /\ queue' = Append(queue, [edit |-> e, attempts |-> 0, due |-> TRUE])
        /\ UNCHANGED reported
     \/ /\ ~Replayable(e) \/ (~Stored(e) /\ Len(queue) >= MaxQueue)
        /\ reported' = reported \cup {e} /\ UNCHANGED queue
  /\ UNCHANGED <<made, flush, orphans, executed, landed, cut, faults>>

-----------------------------------------------------------------------------
(* flushOutbox *)

(* removeItem, by the item's key. *)
Place(e) == CHOOSE i \in DOMAIN queue : queue[i].edit = e

Without(e) ==
  IF e \notin Queued THEN queue
  ELSE [i \in 1..(Len(queue) - 1) |-> queue[IF i < Place(e) THEN i ELSE i + 1]]

(* saveItem writes what the flush read, with one more attempt, under its key. *)
SaveItem(item) ==
  LET saved == [edit |-> item.edit, attempts |-> item.attempts + 1, due |-> FALSE] IN
  IF item.edit \in Queued
  THEN [i \in DOMAIN queue |-> IF queue[i].edit = item.edit THEN saved ELSE queue[i]]
  ELSE Append(queue, saved)

LockUnheld == TRUE   \* faulty: tabs do not exclude each other
LockFree == \A t \in Tabs : ~flush[t].on

FlushStart(t) ==
  /\ LockFree /\ ~flush[t].on /\ queue # <<>>
  /\ flush' = [flush EXCEPT ![t] = [NoFlush EXCEPT !.on = TRUE, !.items = queue]]
  /\ UNCHANGED <<made, call, queue, orphans, executed, landed, reported, cut, faults>>

AtItem(t) == flush[t].on /\ ~flush[t].sent /\ flush[t].items # <<>>
Item1(t) == Head(flush[t].items)
GoesOn(t, items, done) == [flush EXCEPT ![t] =
  [on |-> TRUE, items |-> items, sent |-> FALSE, answer |-> "none", flushed |-> @.flushed \cup done]]
Past(t) == GoesOn(t, Tail(flush[t].items), {})

(* Not due yet: it failed a moment ago. *)
NeverDue(t) == Item1(t).attempts > 0   \* faulty: the delay does not pass
NotDue(t) ==
  Replayable(Item1(t).edit) /\ \E i \in DOMAIN queue : queue[i].edit = Item1(t).edit /\ ~queue[i].due

FlushSkip(t) ==
  /\ AtItem(t) /\ NotDue(t) /\ flush' = Past(t)
  /\ UNCHANGED <<made, call, queue, orphans, executed, landed, reported, cut, faults>>

(* It may not be repeated (it was queued by an older version), or was tried enough. *)
FlushDrop(t) ==
  LET item == Item1(t) IN
  /\ AtItem(t) /\ ~NotDue(t) /\ (~Replayable(item.edit) \/ item.attempts >= MaxAttempts)
  /\ reported' = reported \cup {item.edit} /\ queue' = Without(item.edit)
  /\ flush' = Past(t)
  /\ UNCHANGED <<made, call, orphans, executed, landed, cut, faults>>

FlushSend(t) ==
  LET item == Item1(t) IN
  /\ AtItem(t) /\ ~NotDue(t) /\ Replayable(item.edit) /\ item.attempts < MaxAttempts
  /\ flush' = [flush EXCEPT ![t].sent = TRUE]
  /\ UNCHANGED <<made, call, queue, orphans, executed, landed, reported, cut, faults>>

ServeFlush(t) ==
  /\ flush[t].sent /\ flush[t].answer = "none"
  /\ \E answer \in {"done", "refused", "busy"} :
       /\ Serves(Item1(t).edit, answer)
       /\ flush' = [flush EXCEPT ![t].answer = answer]
  /\ UNCHANGED <<made, call, queue, orphans, reported, cut>>

RemovedUnsent(t) == TRUE   \* faulty: the item goes whatever the answer is
Accepted(t) == flush[t].answer = "done"

FlushDone(t) ==
  /\ flush[t].sent /\ Accepted(t)
  /\ queue' = Without(Item1(t).edit)
  /\ flush' = GoesOn(t, Tail(flush[t].items), {Item1(t).edit})
  /\ UNCHANGED <<made, call, orphans, executed, landed, reported, cut, faults>>

FlushRefused(t) ==
  /\ flush[t].sent /\ flush[t].answer = "refused"
  /\ reported' = reported \cup {Item1(t).edit} /\ queue' = Without(Item1(t).edit)
  /\ flush' = Past(t)
  /\ UNCHANGED <<made, call, orphans, executed, landed, cut, faults>>

(* A transient refusal: the items behind it are still sent. *)
FlushBusy(t) ==
  /\ flush[t].sent /\ flush[t].answer = "busy"
  /\ queue' = SaveItem(Item1(t)) /\ flush' = Past(t)
  /\ UNCHANGED <<made, call, orphans, executed, landed, reported, cut, faults>>

(* No answer (or none within the timeout): the flush stops here. *)
FlushLost(t) ==
  /\ flush[t].sent /\ flush[t].answer \in {"none", "done"} /\ Fault
  /\ Loses(Item1(t).edit, flush[t].answer)
  /\ queue' = SaveItem(Item1(t))
  /\ flush' = GoesOn(t, <<>>, {})
  /\ UNCHANGED <<made, call, executed, landed, reported, cut>>

(* The session is gone (401): the flush stops, nothing is counted. *)
FlushUnauthorized(t) ==
  /\ flush[t].sent /\ flush[t].answer = "none" /\ Fault
  /\ flush' = GoesOn(t, <<>>, {})
  /\ UNCHANGED <<made, call, queue, orphans, executed, landed, reported, cut>>

FlushEnd(t) ==
  /\ flush[t].on /\ flush[t].items = <<>> /\ flush' = [flush EXCEPT ![t] = NoFlush]
  /\ UNCHANGED <<made, call, queue, orphans, executed, landed, reported, cut, faults>>

(* retryDelayMs has passed since the item's last attempt. *)
Cool(i) ==
  /\ i \in DOMAIN queue /\ ~queue[i].due /\ queue' = [queue EXCEPT ![i].due = TRUE]
  /\ UNCHANGED <<made, call, flush, orphans, executed, landed, reported, cut, faults>>

(***************************************************************************)
(* The page is closed and opened again: its call and its flush are gone,   *)
(* the lock is free, and requests on their way may still be handled.       *)
(***************************************************************************)
OnTheirWay(t) ==
  (IF call[t].answer = "none" THEN {call[t].edit} \ {NoEdit} ELSE {}) \cup
  (IF flush[t].sent /\ flush[t].answer = "none" THEN {Item1(t).edit} ELSE {})

Reload(t) ==
  /\ Fault
  /\ cut' = cut \cup ({call[t].edit} \ {NoEdit})
  /\ call' = [call EXCEPT ![t] = NoCall] /\ flush' = [flush EXCEPT ![t] = NoFlush]
  /\ \E late \in SUBSET OnTheirWay(t) :
       orphans' = [e \in Edits |-> orphans[e] + IF e \in late THEN 1 ELSE 0]
  /\ UNCHANGED <<made, queue, executed, landed, reported>>

-----------------------------------------------------------------------------
Tab(t) ==
  \/ \E e \in Edits : Make(t, e)
  \/ ServeCall(t) \/ CallLost(t) \/ CallRetry(t) \/ CallDone(t) \/ CallRefused(t) \/ CallGiveUp(t)
  \/ FlushStart(t) \/ FlushSkip(t) \/ FlushDrop(t) \/ FlushSend(t) \/ ServeFlush(t) \/ FlushDone(t)
  \/ FlushRefused(t) \/ FlushBusy(t) \/ FlushLost(t) \/ FlushUnauthorized(t) \/ FlushEnd(t)
  \/ Reload(t)

Next ==
  \/ \E t \in Tabs : Tab(t)
  \/ \E e \in Edits : LateServe(e)
  \/ \E i \in DOMAIN queue : Cool(i)

Spec == Init /\ [][Next]_vars

(***************************************************************************)
(* The browser resumes the page's callbacks, the server handles requests,  *)
(* the delay of a failed item passes, and a tab goes online or is looked   *)
(* at again and again (each starts a flush).                               *)
(***************************************************************************)
Calls(t) == ServeCall(t) \/ CallRetry(t) \/ CallDone(t) \/ CallRefused(t) \/ CallGiveUp(t)
Flushes(t) ==
  \/ FlushSkip(t) \/ FlushDrop(t) \/ FlushSend(t) \/ ServeFlush(t) \/ FlushDone(t)
  \/ FlushRefused(t) \/ FlushBusy(t) \/ FlushEnd(t)

Fairness ==
  /\ \A t \in Tabs : WF_vars(Calls(t)) /\ WF_vars(Flushes(t))
  /\ WF_vars(\E t \in Tabs : FlushStart(t))
  /\ WF_vars(\E i \in DOMAIN queue : Cool(i))

FairSpec == Spec /\ Fairness

-----------------------------------------------------------------------------
(* What the user is promised, and this page's part in it. *)
Delivery == INSTANCE MutationDelivery
              WITH asked <- made, effects <- executed, carried <- Carried

(* The queue implements the promise: a change leaves the page and the queue  *)
(* only when the server made it since it was taken up, when its user is told *)
(* otherwise, or with the page that was sending it; and one that carries a   *)
(* guard, deletes or creates is never made more often than the user asked.   *)
DeliveryKept == Delivery!Spec

(* An item taken out of the queue does not come back: only a call that failed *)
(* adds one, although a flush writes back what it read before it sent it.     *)
OnlyCallsEnqueue ==
  [][\A e \in Edits : e \in Queued' \ Queued => \E t \in Tabs : call[t].edit = e /\ call'[t] = NoCall]_vars

(* Every change is settled, or its user told: no call and no item stays for  *)
(* ever, whatever tabs close while they hold the lock.                       *)
CarriedSettles == \A e \in Edits : e \in Carried ~> e \notin Carried
=============================================================================
