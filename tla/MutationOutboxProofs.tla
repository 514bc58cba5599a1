-------------------------- MODULE MutationOutboxProofs --------------------------
(***************************************************************************)
(* Proofs about MutationOutbox, for any tabs, changes and bounds: it is    *)
(* well typed, implements MutationDelivery, and only a failed call adds to *)
(* the queue.  The strengthening says what a flush that is replaying what  *)
(* it read may count on: it is the only one, its items are still queued,   *)
(* and the one on its way may be repeated; and that a guarded change's     *)
(* requests, waiting or late, with its effects, are no more than it was    *)
(* asked for.                                                              *)
(***************************************************************************)
EXTENDS MutationOutbox, FiniteSetTheorems, SequenceTheorems, TLAPS

Distinct(q) == \A i, j \in DOMAIN q : q[i].edit = q[j].edit => i = j

FlushOK(t) ==
  /\ flush[t].on => \A u \in Tabs : flush[u].on => u = t
  /\ ~flush[t].on => flush[t].items = <<>>
  /\ flush[t].sent => flush[t].items # <<>> /\ Replayable(Item1(t).edit)
  /\ ~flush[t].sent => flush[t].answer = "none"
  /\ flush[t].answer = "done" => Item1(t).edit \in landed
  /\ Distinct(flush[t].items)
  /\ \A i \in DOMAIN flush[t].items : flush[t].items[i].edit \in Queued

CallOK(t) == call[t].answer = "done" => call[t].edit \in landed

Waiting(e) == {t \in Tabs : call[t].edit = e /\ call[t].answer = "none"}

Counted == \A e \in Guarded : executed[e] + orphans[e] + Cardinality(Waiting(e)) <= made[e]

Inv ==
  /\ TypeOK /\ Counted
  /\ \A t \in Tabs : FlushOK(t)
  /\ \A t \in Tabs : CallOK(t)

-----------------------------------------------------------------------------
(* The parts of the state.                                                 *)

(* A tab's call, and a free one's. *)
LEMMA CallFacts ==
  ASSUME TypeOK, NEW t \in Tabs
  PROVE  /\ call[t] # NoCall => call[t] \in Call /\ call[t].edit \in Edits
         /\ call[t].answer # "none" => call[t] # NoCall
         /\ call[t] = NoCall => call[t].edit = NoEdit /\ call[t].answer = "none"
BY DEF TypeOK, Call, NoCall

(* The items of a flush, and its first. *)
LEMMA FlushFacts ==
  ASSUME TypeOK, NEW t \in Tabs
  PROVE  /\ flush[t] \in Flush
         /\ flush[t].items \in Seq(Item)
         /\ flush[t].items # <<>> =>
              /\ 1 \in DOMAIN flush[t].items
              /\ Item1(t) = flush[t].items[1]
              /\ Item1(t) \in Item /\ Item1(t).edit \in Edits
<1>1. flush[t] \in Flush /\ flush[t].items \in Seq(Item)
  BY DEF TypeOK, Flush
<1>2. ASSUME flush[t].items # <<>>
      PROVE  /\ 1 \in DOMAIN flush[t].items
             /\ Item1(t) = flush[t].items[1] /\ Item1(t) \in Item
  BY <1>1, <1>2, LenProperties, EmptySeq, ElementOfSeq DEF Item1
<1> QED BY <1>1, <1>2 DEF Item

(* Taking the item of e out. *)
LEMMA Removed ==
  ASSUME TypeOK, NEW e, queue' = Without(e)
  PROVE  /\ queue' \in Seq(Item) /\ Len(queue') <= MaxQueue
         /\ Distinct(queue') /\ Queued' = Queued \ {e}
<1> DEFINE n == Len(queue)
           at == Place(e)
<1>1. /\ n \in Nat /\ DOMAIN queue = 1..n /\ n <= MaxQueue /\ MaxQueue \in Nat
      /\ \A i \in 1..n : queue[i] \in Item
      /\ Distinct(queue)
  BY Assumption, LenProperties, ElementOfSeq DEF TypeOK, Assumption, Distinct
<1>2. CASE e \notin Queued
  <2>1. queue' = queue
    BY <1>2 DEF Without
  <2> QED BY <2>1, <1>2, <1>1 DEF TypeOK, Queued, Distinct
<1>3. CASE e \in Queued
  <2>1. at \in 1..n /\ queue[at].edit = e
    BY <1>3, <1>1 DEF Queued, Place
  <2>2. queue' = [i \in 1..(n - 1) |-> queue[IF i < at THEN i ELSE i + 1]]
    BY <1>3 DEF Without
  <2>3. \A i \in 1..(n - 1) : (IF i < at THEN i ELSE i + 1) \in 1..n \ {at}
    BY <2>1, <1>1
  <2> HIDE DEF n, at
  <2>4. queue' \in Seq(Item) /\ Len(queue') = n - 1 /\ DOMAIN queue' = 1..(n - 1)
    <3>1. n - 1 \in Nat
      BY <2>1, <1>1
    <3>2. queue' \in [1..(n - 1) -> Item]
      BY <2>2, <2>3, <1>1
    <3> QED BY <3>1, <3>2
  <2>5. Distinct(queue')
    <3> SUFFICES ASSUME NEW i \in 1..(n - 1), NEW j \in 1..(n - 1),
                        queue'[i].edit = queue'[j].edit
                 PROVE  i = j
      BY <2>4 DEF Distinct
    <3> DEFINE k == IF i < at THEN i ELSE i + 1
               m == IF j < at THEN j ELSE j + 1
    <3>1. k \in 1..n /\ m \in 1..n /\ queue'[i] = queue[k] /\ queue'[j] = queue[m]
      BY <2>2, <2>3
    <3>2. k = m
      BY <3>1, <1>1 DEF Distinct
    <3> QED BY <3>2, <2>1, <1>1
  <2>6. Queued' \subseteq Queued \ {e}
    <3>1. SUFFICES ASSUME NEW i \in 1..(n - 1)
                   PROVE  queue'[i].edit \in Queued \ {e}
      BY <2>4 DEF Queued
    <3>2. PICK k \in 1..n \ {at} : queue'[i] = queue[k]
      BY <2>2, <2>3
    <3> QED BY <3>2, <1>1, <2>1 DEF Queued, Distinct
  <2>7. Queued \ {e} \subseteq Queued'
    <3>1. SUFFICES ASSUME NEW k \in 1..n, queue[k].edit # e
                   PROVE  queue[k].edit \in Queued'
      BY <1>1 DEF Queued
    <3>2. CASE k < at
      BY <3>2, <2>1, <2>2, <2>4, <1>1 DEF Queued
    <3>3. CASE k > at
      <4>1. k - 1 \in 1..(n - 1) /\ ~(k - 1 < at) /\ (k - 1) + 1 = k
        BY <3>3, <2>1, <1>1
      <4>2. queue'[k - 1] = queue[k]
        BY <4>1, <2>2
      <4> QED BY <4>1, <4>2, <2>4 DEF Queued
    <3> QED BY <3>1, <3>2, <3>3, <2>1, <1>1
  <2> QED BY <2>4, <2>5, <2>6, <2>7, <1>1
<1> QED BY <1>2, <1>3

(* Writing an item back over the one with its key. *)
LEMMA SavedBack ==
  ASSUME TypeOK, NEW item \in Item, item.edit \in Queued, queue' = SaveItem(item)
  PROVE  /\ queue' \in Seq(Item) /\ Len(queue') <= MaxQueue
         /\ Distinct(queue') /\ Queued' = Queued
<1> DEFINE saved == [edit |-> item.edit, attempts |-> item.attempts + 1, due |-> FALSE]
           n == Len(queue)
<1>1. /\ n \in Nat /\ DOMAIN queue = 1..n /\ n <= MaxQueue
      /\ \A i \in 1..n : queue[i] \in Item
      /\ Distinct(queue)
  BY LenProperties, ElementOfSeq DEF TypeOK, Distinct
<1>2. saved \in Item /\ saved.edit = item.edit
  BY DEF Item
<1>3. queue' = [i \in 1..n |-> IF queue[i].edit = item.edit THEN saved ELSE queue[i]]
  BY <1>1 DEF SaveItem
<1> HIDE DEF saved, n
<1>4. /\ queue' \in [1..n -> Item] /\ DOMAIN queue' = 1..n
      /\ \A i \in 1..n : queue'[i].edit = queue[i].edit
  BY <1>1, <1>2, <1>3
<1>5. queue' \in Seq(Item) /\ Len(queue') = n
  BY <1>1, <1>4
<1> QED BY <1>1, <1>4, <1>5 DEF Queued, Distinct

(* An item at the end of the queue. *)
LEMMA Appended ==
  ASSUME TypeOK, NEW item \in Item, item.edit \notin Queued, Len(queue) < MaxQueue,
         queue' = Append(queue, item)
  PROVE  /\ queue' \in Seq(Item) /\ Len(queue') <= MaxQueue
         /\ Distinct(queue') /\ Queued' = Queued \cup {item.edit}
<1> DEFINE n == Len(queue)
<1>1. /\ n \in Nat /\ DOMAIN queue = 1..n /\ MaxQueue \in Nat /\ n < MaxQueue
      /\ Distinct(queue) /\ queue \in Seq(Item)
  BY Assumption, LenProperties DEF TypeOK, Distinct, Assumption
<1>2. /\ queue' \in Seq(Item) /\ Len(queue') = n + 1 /\ DOMAIN queue' = 1..(n + 1)
      /\ \A i \in 1..n : queue'[i] = queue[i]
      /\ queue'[n + 1] = item
  BY <1>1, AppendProperties, LenProperties
<1> HIDE DEF n
<1>3. \A i \in 1..n : queue[i].edit # item.edit
  BY <1>1 DEF Queued
<1>4. Distinct(queue')
  <2> SUFFICES ASSUME NEW i \in 1..(n + 1), NEW j \in 1..(n + 1),
                      queue'[i].edit = queue'[j].edit
               PROVE  i = j
    BY <1>2 DEF Distinct
  <2>1. CASE i \in 1..n /\ j \in 1..n
    BY <2>1, <1>1, <1>2 DEF Distinct
  <2>2. CASE i = n + 1 \/ j = n + 1
    BY <2>2, <1>1, <1>2, <1>3
  <2> QED BY <2>1, <2>2, <1>1
<1>5. Queued' = Queued \cup {item.edit}
  <2>1. \A i \in 1..(n + 1) : queue'[i].edit \in Queued \cup {item.edit}
    BY <1>1, <1>2 DEF Queued
  <2>2. \A i \in 1..n : queue[i].edit \in Queued'
    <3> TAKE i \in 1..n
    <3> QED BY <1>1, <1>2 DEF Queued
  <2>3. item.edit \in Queued'
    <3>1. n + 1 \in DOMAIN queue'
      BY <1>1, <1>2
    <3> QED BY <3>1, <1>2 DEF Queued
  <2> QED BY <2>1, <2>2, <2>3, <1>1, <1>2 DEF Queued
<1> QED BY <1>1, <1>2, <1>4, <1>5

(* The rest of the items of a flush. *)
LEMMA Rest ==
  ASSUME NEW q \in Seq(Item), q # <<>>, Distinct(q)
  PROVE  /\ Tail(q) \in Seq(Item) /\ Distinct(Tail(q))
         /\ \A i \in DOMAIN Tail(q) :
              /\ Tail(q)[i].edit # q[1].edit
              /\ \E j \in DOMAIN q : Tail(q)[i] = q[j]
<1>1. /\ Len(q) \in Nat \ {0} /\ DOMAIN q = 1..Len(q)
      /\ Tail(q) \in Seq(Item) /\ Len(Tail(q)) = Len(q) - 1
      /\ DOMAIN Tail(q) = 1..(Len(q) - 1)
      /\ \A i \in 1..(Len(q) - 1) : Tail(q)[i] = q[i + 1]
  BY HeadTailProperties, LenProperties, EmptySeq
<1>2. \A i \in 1..(Len(q) - 1) : i + 1 \in DOMAIN q /\ i + 1 # 1
  BY <1>1
<1>3. Distinct(Tail(q))
  BY <1>1, <1>2 DEF Distinct
<1> QED BY <1>1, <1>2, <1>3 DEF Distinct

-----------------------------------------------------------------------------
(* What a step leaves of the invariant's parts.                            *)

(* A flush is not disturbed while its items stay queued and what landed of *)
(* the queue stays landed.                                                 *)
LEMMA FlushFrame ==
  ASSUME TypeOK, flush' = flush, Queued \subseteq Queued', landed \cap Queued \subseteq landed',
         NEW t \in Tabs, FlushOK(t)
  PROVE  FlushOK(t)'
<1>1. flush[t].answer = "done" => Item1(t).edit \in Queued
  BY FlushFacts DEF FlushOK
<1> QED BY <1>1 DEF FlushOK, Item1, Distinct

(* A tab that holds no lock has nothing to replay. *)
LEMMA NoFlushOK ==
  ASSUME NEW t \in Tabs, ~flush'[t].on, flush'[t].items = <<>>, ~flush'[t].sent,
         flush'[t].answer = "none"
  PROVE  FlushOK(t)'
<1>1. DOMAIN flush'[t].items = {}
  OBVIOUS
<1> QED BY <1>1 DEF FlushOK, Distinct

(* While one tab flushes the others do not. *)
LEMMA OthersIdle ==
  ASSUME \A u \in Tabs : FlushOK(u), NEW t \in Tabs, flush[t].on,
         NEW u \in Tabs \ {t}, flush'[u] = flush[u]
  PROVE  FlushOK(u)' /\ ~flush'[u].on
<1>1. ~flush[u].on /\ flush[u].items = <<>> /\ ~flush[u].sent /\ flush[u].answer = "none"
  BY DEF FlushOK
<1> QED BY <1>1, NoFlushOK

(* A flush goes past its first item, whose key may be gone, or stops. *)
LEMMA MovedOn ==
  ASSUME TypeOK, \A u \in Tabs : FlushOK(u), NEW t \in Tabs, flush[t].on,
         flush[t].items # <<>>,
         \A u \in Tabs \ {t} : flush'[u] = flush[u],
         flush'[t].on, ~flush'[t].sent, flush'[t].answer = "none",
         flush'[t].items \in {Tail(flush[t].items), <<>>},
         Queued \ {Item1(t).edit} \subseteq Queued'
  PROVE  \A u \in Tabs : FlushOK(u)'
<1>1. \A u \in Tabs \ {t} : FlushOK(u)' /\ ~flush'[u].on
  BY OthersIdle
<1>2. Distinct(flush'[t].items) /\ \A i \in DOMAIN flush'[t].items : flush'[t].items[i].edit \in Queued'
  <2>1. CASE flush'[t].items = <<>>
    <3>1. DOMAIN flush'[t].items = {}
      BY <2>1
    <3> QED BY <3>1 DEF Distinct
  <2>2. CASE flush'[t].items = Tail(flush[t].items)
    <3>1. /\ flush[t].items \in Seq(Item) /\ Item1(t) = flush[t].items[1]
          /\ Distinct(flush[t].items)
          /\ \A j \in DOMAIN flush[t].items : flush[t].items[j].edit \in Queued
      BY FlushFacts DEF FlushOK
    <3>2. /\ Distinct(Tail(flush[t].items))
          /\ \A i \in DOMAIN Tail(flush[t].items) :
               /\ Tail(flush[t].items)[i].edit # Item1(t).edit
               /\ \E j \in DOMAIN flush[t].items : Tail(flush[t].items)[i] = flush[t].items[j]
      BY <3>1, Rest
    <3>3. ASSUME NEW i \in DOMAIN Tail(flush[t].items)
          PROVE  Tail(flush[t].items)[i].edit \in Queued'
      <4>1. PICK j \in DOMAIN flush[t].items : Tail(flush[t].items)[i] = flush[t].items[j]
        BY <3>2
      <4>2. Tail(flush[t].items)[i].edit \in Queued \ {Item1(t).edit}
        BY <3>1, <3>2, <4>1
      <4> QED BY <4>2
    <3> QED BY <2>2, <3>2, <3>3
  <2> QED BY <2>1, <2>2
<1>3. FlushOK(t)'
  BY <1>1, <1>2 DEF FlushOK
<1> QED BY <1>1, <1>3

(* The calls are not disturbed. *)
LEMMA CallFrame ==
  ASSUME call' = call, landed \subseteq landed', \A t \in Tabs : CallOK(t)
  PROVE  (\A t \in Tabs : CallOK(t))' /\ Calling' = Calling
BY DEF CallOK, Calling

LEMMA CountFrame ==
  ASSUME Counted, call' = call, made' = made,
         \A e \in Guarded : executed'[e] = executed[e] /\ orphans'[e] = orphans[e]
  PROVE  Counted'
<1>1. \A e : Waiting(e)' = Waiting(e)
  BY DEF Waiting
<1> QED BY <1>1 DEF Counted

(* How the requests that wait change with one tab's call. *)
LEMMA WaitingChanges ==
  ASSUME NEW t \in Tabs, NEW e, \A u \in Tabs \ {t} : call'[u] = call[u]
  PROVE  /\ Cardinality(Waiting(e)) \in Nat /\ Cardinality(Waiting(e)') \in Nat
         /\ (t \in Waiting(e) <=> t \in Waiting(e)') => Waiting(e)' = Waiting(e)
         /\ t \in Waiting(e) /\ t \notin Waiting(e)' =>
              Cardinality(Waiting(e)') = Cardinality(Waiting(e)) - 1
         /\ t \notin Waiting(e) /\ t \in Waiting(e)' =>
              Cardinality(Waiting(e)') = Cardinality(Waiting(e)) + 1
<1>1. Waiting(e) \in SUBSET Tabs /\ Waiting(e)' \in SUBSET Tabs
  BY DEF Waiting
<1>2. IsFiniteSet(Waiting(e)) /\ IsFiniteSet(Waiting(e)')
  BY <1>1, FS_Subset, Assumption DEF Assumption
<1>3. Cardinality(Waiting(e)) \in Nat /\ Cardinality(Waiting(e)') \in Nat
  BY <1>2, FS_CardinalityType
<1>4. \A u \in Tabs \ {t} : u \in Waiting(e) <=> u \in Waiting(e)'
  BY DEF Waiting
<1>5. ASSUME t \in Waiting(e), t \notin Waiting(e)'
      PROVE  Cardinality(Waiting(e)') = Cardinality(Waiting(e)) - 1
  <2>1. Waiting(e)' = Waiting(e) \ {t}
    BY <1>1, <1>4, <1>5
  <2> QED BY <2>1, <1>2, <1>5, FS_RemoveElement
<1>6. ASSUME t \notin Waiting(e), t \in Waiting(e)'
      PROVE  Cardinality(Waiting(e)') = Cardinality(Waiting(e)) + 1
  <2>1. Waiting(e)' = Waiting(e) \cup {t}
    BY <1>1, <1>4, <1>6
  <2> QED BY <2>1, <1>2, <1>6, FS_AddElement
<1>7. (t \in Waiting(e) <=> t \in Waiting(e)') => Waiting(e)' = Waiting(e)
  BY <1>1, <1>4
<1> QED BY <1>3, <1>5, <1>6, <1>7

(* A call that ends may leave its change in the queue or in another call. *)
LEMMA CallEnds ==
  ASSUME TypeOK, NEW t \in Tabs, call' = [call EXCEPT ![t] = NoCall]
  PROVE  /\ Calling' \subseteq Calling /\ Calling \ {call[t].edit} \subseteq Calling'
         /\ call'[t] = NoCall /\ \A u \in Tabs \ {t} : call'[u] = call[u]
         /\ call' \in [Tabs -> Call \cup {NoCall}]
<1>1. call'[t] = NoCall /\ \A u \in Tabs \ {t} : call'[u] = call[u]
  BY DEF TypeOK
<1> QED BY <1>1 DEF TypeOK, Calling, NoCall

LEMMA CallStays ==
  ASSUME NEW t \in Tabs, call'[t].edit = call[t].edit, \A u \in Tabs \ {t} : call'[u] = call[u]
  PROVE  Calling' = Calling
<1>1. \A u \in Tabs : call'[u].edit = call[u].edit
  OBVIOUS
<1> QED BY <1>1 DEF Calling

-----------------------------------------------------------------------------
(* The steps.  Each keeps the invariant, is a step of MutationDelivery or  *)
(* leaves it alone, and adds to the queue only where a call ends.          *)
Enqueues == \A e \in Edits :
  e \in Queued' \ Queued => \E t \in Tabs : call[t].edit = e /\ call'[t] = NoCall

Kept == Inv' /\ [Delivery!Next]_(Delivery!vars) /\ Enqueues

(* The user makes a change. *)
LEMMA MakeKeeps ==
  ASSUME Inv, NEW t \in Tabs, NEW e \in Edits, Make(t, e)
  PROVE  Kept
<1>1. /\ call[t] = NoCall /\ queue' = queue /\ flush' = flush /\ Queued' = Queued
      /\ call'[t] = [edit |-> e, tries |-> 1, answer |-> "none"]
      /\ \A u \in Tabs \ {t} : call'[u] = call[u]
      /\ landed' = IF e \in Carried THEN landed ELSE landed \ {e}
      /\ made' = [made EXCEPT ![e] = @ + 1]
      /\ UNCHANGED <<orphans, executed, reported, cut, faults>>
  BY DEF Inv, TypeOK, Make, Queued
<1>2. TypeOK'
  <2>1. call'[t] \in Call
    BY <1>1 DEF Call, Answers
  <2>2. call' \in [Tabs -> Call \cup {NoCall}]
    BY <2>1 DEF Inv, TypeOK, Make
  <2>3. made' \in [Edits -> Nat]
    BY <1>1 DEF Inv, TypeOK
  <2> QED BY <1>1, <2>2, <2>3 DEF Inv, TypeOK
<1>3. \A u \in Tabs : FlushOK(u)'
  BY <1>1, FlushFrame DEF Inv, Carried
<1>4. \A u \in Tabs : CallOK(u)'
  <2> SUFFICES ASSUME NEW u \in Tabs, u # t, call[u].answer = "done"
               PROVE  call[u].edit \in landed'
    BY <1>1 DEF CallOK
  <2>1. call[u].edit \in landed /\ call[u].edit \in Calling
    BY CallFacts, Assumption DEF Inv, CallOK, Calling, Assumption
  <2> QED BY <1>1, <2>1 DEF Carried
<1>5. Counted'
  <2> SUFFICES ASSUME NEW g \in Guarded
               PROVE  executed'[g] + orphans'[g] + Cardinality(Waiting(g)') <= made'[g]
    BY DEF Counted
  <2>1. t \notin Waiting(g)
    BY <1>1, Assumption DEF Waiting, NoCall, Assumption
  <2>2. t \in Waiting(g)' <=> g = e
    BY <1>1 DEF Waiting
  <2>3. made'[g] = IF g = e THEN made[g] + 1 ELSE made[g]
    BY <1>1, Assumption DEF Inv, TypeOK, Assumption
  <2>4. executed[g] \in Nat /\ orphans[g] \in Nat /\ made[g] \in Nat
    BY Assumption DEF Inv, TypeOK, Assumption
  <2> QED BY <1>1, <2>1, <2>2, <2>3, <2>4, WaitingChanges DEF Inv, Counted
<1>6. Delivery!Ask(e)
  <2>1. Calling' = Calling \cup {e}
    BY <1>1, Assumption DEF Calling, NoCall, Assumption
  <2> QED BY <1>1, <2>1 DEF Delivery!Ask, Carried
<1> QED BY <1>1, <1>2, <1>3, <1>4, <1>5, <1>6 DEF Kept, Inv, Enqueues, Delivery!Next

(* The steps that leave the queue and the flushes alone. *)
CallOnly(t) ==
  /\ queue' = queue /\ flush' = flush /\ made' = made
  /\ \A u \in Tabs \ {t} : call'[u] = call[u]

LEMMA CallOnlyKeeps ==
  ASSUME Inv, NEW t \in Tabs, CallOnly(t), landed \subseteq landed'
  PROVE  /\ Queued' = Queued
         /\ \A u \in Tabs : FlushOK(u)'
         /\ \A u \in Tabs \ {t} : CallOK(u)'
         /\ Enqueues
<1>1. Queued' = Queued
  BY DEF CallOnly, Queued
<1>2. \A u \in Tabs : FlushOK(u)'
  BY <1>1, FlushFrame DEF Inv, CallOnly
<1> QED BY <1>1, <1>2 DEF CallOnly, Inv, CallOK, Enqueues

LEMMA ServeCallKeeps ==
  ASSUME Inv, NEW t \in Tabs, ServeCall(t)
  PROVE  Kept
<1> DEFINE e == call[t].edit
<1>1. /\ call[t] \in Call /\ e \in Edits /\ call[t].answer = "none"
      /\ UNCHANGED <<made, queue, flush, orphans, reported, cut>>
  BY CallFacts DEF Inv, ServeCall
<1>2. PICK answer \in {"done", "refused", "busy"} :
        Serves(e, answer) /\ call' = [call EXCEPT ![t].answer = answer]
  BY DEF ServeCall
<1>3. /\ call'[t] = [edit |-> e, tries |-> call[t].tries, answer |-> answer]
      /\ \A u \in Tabs \ {t} : call'[u] = call[u]
      /\ call' \in [Tabs -> Call \cup {NoCall}]
  <2>1. call'[t] = [call[t] EXCEPT !.answer = answer] /\ \A u \in Tabs \ {t} : call'[u] = call[u]
    BY <1>2 DEF Inv, TypeOK
  <2>2. call'[t] = [edit |-> e, tries |-> call[t].tries, answer |-> answer]
    BY <1>1, <2>1 DEF Call
  <2>3. call'[t] \in Call
    BY <1>1, <2>2 DEF Call, Answers
  <2> QED BY <1>2, <2>1, <2>2, <2>3 DEF Inv, TypeOK
<1>4. landed \subseteq landed' /\ (answer = "done" => e \in landed')
  BY <1>2 DEF Serves, Executes
<1>5. CallOnly(t) /\ Calling' = Calling
  BY <1>1, <1>3, CallStays DEF CallOnly
<1>6. TypeOK'
  <2>1. executed' \in [Edits -> Nat] /\ landed' \subseteq Edits /\ faults' \in Nat
    BY <1>1, <1>2 DEF Inv, TypeOK, Serves, Executes, Fault
  <2> QED BY <1>1, <1>3, <2>1 DEF Inv, TypeOK
<1>7. \A u \in Tabs : CallOK(u)'
  BY <1>3, <1>4, <1>5, CallOnlyKeeps DEF CallOK
<1>8. ASSUME NEW g \in Guarded
      PROVE  /\ executed'[g] + orphans'[g] + Cardinality(Waiting(g)') <= made'[g]
             /\ executed'[g] # executed[g] => executed[g] < made[g]
  <2>1. t \in Waiting(g) <=> g = e
    BY <1>1 DEF Waiting
  <2>2. t \notin Waiting(g)'
    BY <1>3 DEF Waiting
  <2>3. executed[g] \in Nat /\ orphans[g] \in Nat /\ made[g] \in Nat
    BY Assumption DEF Inv, TypeOK, Assumption
  <2>4. executed'[g] \in {executed[g], executed[g] + IF g = e THEN 1 ELSE 0}
    BY <1>2, Assumption DEF Inv, TypeOK, Serves, Executes, Assumption
  <2>5. executed[g] + orphans[g] + Cardinality(Waiting(g)) <= made[g]
    BY DEF Inv, Counted
  <2> QED BY <1>1, <1>3, <2>1, <2>2, <2>3, <2>4, <2>5, WaitingChanges
<1>9. [Delivery!Next]_(Delivery!vars)
  <2>1. Carried' = Carried
    BY <1>4, <1>5, CallOnlyKeeps DEF Carried
  <2>2. CASE answer = "done"
    <3>1. executed' = [executed EXCEPT ![e] = @ + 1] /\ landed' = landed \cup {e}
      BY <1>2, <2>2 DEF Serves, Executes
    <3>2. e \in Guarded => executed[e] < made[e]
      <4>1. executed[e] \in Nat /\ executed'[e] = executed[e] + 1
        BY <1>1, <3>1 DEF Inv, TypeOK
      <4> QED BY <4>1, <1>8
    <3>3. Delivery!TakeEffect(e)
      BY <1>1, <2>1, <3>1, <3>2 DEF Delivery!TakeEffect
    <3> QED BY <1>1, <3>3 DEF Delivery!Next
  <2>3. CASE answer # "done"
    BY <1>1, <1>2, <2>1, <2>3 DEF Serves, Delivery!vars
  <2> QED BY <2>2, <2>3
<1> QED BY <1>4, <1>5, <1>6, <1>7, <1>8, <1>9, CallOnlyKeeps DEF Kept, Inv, Counted

(* A request whose answer is lost counts once, with its caller or late. *)
LEMMA CallLostKeeps ==
  ASSUME Inv, NEW t \in Tabs, CallLost(t)
  PROVE  Kept
<1> DEFINE e == call[t].edit
<1>1. /\ call[t] \in Call /\ e \in Edits /\ call[t].answer \in {"none", "done"}
      /\ UNCHANGED <<made, queue, flush, executed, landed, reported, cut>>
      /\ faults' \in Nat
      /\ \/ orphans' = orphans
         \/ call[t].answer = "none" /\ orphans' = [orphans EXCEPT ![e] = @ + 1]
  BY CallFacts DEF Inv, TypeOK, CallLost, Loses, Fault
<1>2. /\ call'[t] = [edit |-> e, tries |-> call[t].tries, answer |-> "lost"]
      /\ \A u \in Tabs \ {t} : call'[u] = call[u]
      /\ call' \in [Tabs -> Call \cup {NoCall}]
  <2>1. call'[t] = [call[t] EXCEPT !.answer = "lost"] /\ \A u \in Tabs \ {t} : call'[u] = call[u]
    BY DEF Inv, TypeOK, CallLost
  <2>2. call'[t] = [edit |-> e, tries |-> call[t].tries, answer |-> "lost"]
    BY <1>1, <2>1 DEF Call
  <2>3. call'[t] \in Call
    BY <1>1, <2>2 DEF Call, Answers
  <2> QED BY <2>1, <2>2, <2>3 DEF Inv, TypeOK, CallLost
<1>3. CallOnly(t) /\ Calling' = Calling
  BY <1>1, <1>2, CallStays DEF CallOnly
<1>4. TypeOK'
  <2>1. orphans' \in [Edits -> Nat]
    BY <1>1 DEF Inv, TypeOK
  <2> QED BY <1>1, <1>2, <2>1 DEF Inv, TypeOK
<1>5. \A u \in Tabs : CallOK(u)'
  BY <1>1, <1>2, <1>3, CallOnlyKeeps DEF CallOK
<1>6. ASSUME NEW g \in Guarded
      PROVE  executed'[g] + orphans'[g] + Cardinality(Waiting(g)') <= made'[g]
  <2>1. t \in Waiting(g) <=> g = e /\ call[t].answer = "none"
    BY DEF Waiting
  <2>2. t \notin Waiting(g)'
    BY <1>2 DEF Waiting
  <2>3. executed[g] \in Nat /\ orphans[g] \in Nat /\ made[g] \in Nat
    BY Assumption DEF Inv, TypeOK, Assumption
  <2>4. \/ orphans'[g] = orphans[g]
        \/ g = e /\ call[t].answer = "none" /\ orphans'[g] = orphans[g] + 1
    BY <1>1, Assumption DEF Inv, TypeOK, Assumption
  <2>5. executed[g] + orphans[g] + Cardinality(Waiting(g)) <= made[g]
    BY DEF Inv, Counted
  <2> QED BY <1>1, <1>2, <2>1, <2>2, <2>3, <2>4, <2>5, WaitingChanges
<1>7. UNCHANGED Delivery!vars
  BY <1>1, <1>3, CallOnlyKeeps DEF Delivery!vars, Carried
<1> QED BY <1>1, <1>3, <1>4, <1>5, <1>6, <1>7, CallOnlyKeeps DEF Kept, Inv, Counted

(* Only what is not guarded is sent again. *)
LEMMA CallRetryKeeps ==
  ASSUME Inv, NEW t \in Tabs, CallRetry(t)
  PROVE  Kept
<1> DEFINE e == call[t].edit
<1>1. /\ call[t] \in Call /\ e \in Edits \ Guarded
      /\ UNCHANGED <<made, queue, flush, orphans, executed, landed, reported, cut, faults>>
  BY CallFacts DEF Inv, CallRetry, Replayable
<1>2. /\ call'[t] = [edit |-> e, tries |-> call[t].tries + 1, answer |-> "none"]
      /\ \A u \in Tabs \ {t} : call'[u] = call[u]
      /\ call' \in [Tabs -> Call \cup {NoCall}]
  <2>1. /\ call'[t] = [edit |-> e, tries |-> call[t].tries + 1, answer |-> "none"]
        /\ \A u \in Tabs \ {t} : call'[u] = call[u]
    BY DEF Inv, TypeOK, CallRetry
  <2>2. call'[t] \in Call
    <3>1. call[t].tries + 1 \in Nat
      BY <1>1 DEF Call
    <3> QED BY <1>1, <2>1, <3>1 DEF Call, Answers
  <2> QED BY <2>1, <2>2 DEF Inv, TypeOK, CallRetry
<1>3. CallOnly(t) /\ Calling' = Calling
  BY <1>1, <1>2, CallStays DEF CallOnly
<1>4. TypeOK'
  BY <1>1, <1>2 DEF Inv, TypeOK
<1>5. \A u \in Tabs : CallOK(u)'
  BY <1>1, <1>2, <1>3, CallOnlyKeeps DEF CallOK
<1>6. Counted'
  <2>1. \A g \in Guarded : t \notin Waiting(g) /\ t \notin Waiting(g)'
    BY <1>1, <1>2 DEF Waiting
  <2> QED BY <1>1, <1>2, <2>1, WaitingChanges DEF Inv, Counted
<1>7. UNCHANGED Delivery!vars
  BY <1>1, <1>3, CallOnlyKeeps DEF Delivery!vars, Carried
<1> QED BY <1>1, <1>3, <1>4, <1>5, <1>6, <1>7, CallOnlyKeeps DEF Kept, Inv

(* What the end of a call leaves, unless it adds to the queue. *)
LEMMA CallEndKeeps ==
  ASSUME Inv, NEW t \in Tabs, call' = [call EXCEPT ![t] = NoCall],
         UNCHANGED <<made, queue, flush, orphans, executed, landed, cut, faults>>,
         reported' \in SUBSET Edits
  PROVE  /\ Inv' /\ Enqueues
         /\ Carried' \in {Carried, Carried \ {call[t].edit}}
<1>1. /\ Calling' \subseteq Calling /\ Calling \ {call[t].edit} \subseteq Calling'
      /\ call'[t] = NoCall /\ \A u \in Tabs \ {t} : call'[u] = call[u]
      /\ call' \in [Tabs -> Call \cup {NoCall}]
  BY CallEnds DEF Inv
<1>2. CallOnly(t)
  BY <1>1 DEF CallOnly
<1>3. TypeOK'
  BY <1>1 DEF Inv, TypeOK
<1>4. \A u \in Tabs : CallOK(u)'
  BY <1>1, <1>2, CallOnlyKeeps DEF CallOK, NoCall
<1>5. Counted'
  <2> SUFFICES ASSUME NEW g \in Guarded
               PROVE  executed[g] + orphans[g] + Cardinality(Waiting(g)') <= made[g]
    BY DEF Counted
  <2>1. t \notin Waiting(g)'
    BY <1>1, Assumption DEF Waiting, NoCall, Assumption
  <2>2. executed[g] \in Nat /\ orphans[g] \in Nat /\ made[g] \in Nat
    BY Assumption DEF Inv, TypeOK, Assumption
  <2> QED BY <1>1, <2>1, <2>2, WaitingChanges DEF Inv, Counted
<1>6. Carried' \in {Carried, Carried \ {call[t].edit}}
  BY <1>1, <1>2, CallOnlyKeeps DEF Carried
<1> QED BY <1>2, <1>3, <1>4, <1>5, <1>6, CallOnlyKeeps DEF Inv

LEMMA CallDoneKeeps ==
  ASSUME Inv, NEW t \in Tabs, CallDone(t)
  PROVE  Kept
<1> DEFINE e == call[t].edit
<1>1. e \in Edits /\ e \in landed
  BY CallFacts DEF Inv, CallDone, CallOK
<1>2. Inv' /\ Enqueues /\ Carried' \in {Carried, Carried \ {e}}
  BY CallEndKeeps DEF CallDone, Inv, TypeOK
<1>3. Delivery!Settle(e) \/ UNCHANGED Delivery!vars
  BY <1>1, <1>2 DEF CallDone, Delivery!Settle, Delivery!vars
<1> QED BY <1>1, <1>2, <1>3 DEF Kept, Delivery!Next

LEMMA CallRefusedKeeps ==
  ASSUME Inv, NEW t \in Tabs, CallRefused(t)
  PROVE  Kept
<1> DEFINE e == call[t].edit
<1>1. e \in Edits
  BY CallFacts DEF Inv, CallRefused
<1>2. Inv' /\ Enqueues /\ Carried' \in {Carried, Carried \ {e}}
  BY <1>1, CallEndKeeps DEF CallRefused, Inv, TypeOK
<1>3. Delivery!Tell(e)
  BY <1>1, <1>2 DEF CallRefused, Delivery!Tell
<1> QED BY <1>1, <1>2, <1>3 DEF Kept, Delivery!Next

(* A call that failed for good is queued, found queued, or reported. *)
LEMMA CallGiveUpKeeps ==
  ASSUME Inv, NEW t \in Tabs, CallGiveUp(t)
  PROVE  Kept
<1> DEFINE e == call[t].edit
<1>1. /\ e \in Edits /\ call' = [call EXCEPT ![t] = NoCall]
      /\ UNCHANGED <<made, flush, orphans, executed, landed, cut, faults>>
      /\ call[t].answer \in {"busy", "lost"}
  BY CallFacts DEF Inv, CallGiveUp
<1>2. CASE Stored(e) /\ UNCHANGED <<queue, reported>>
  <2>1. Inv' /\ Enqueues /\ Carried' \in {Carried, Carried \ {e}}
    BY <1>1, <1>2, CallEndKeeps DEF Inv, TypeOK
  <2>2. e \in Queued /\ Queued' = Queued
    BY <1>2 DEF Stored, Queued
  <2>3. UNCHANGED Delivery!vars
    BY <1>1, <1>2, <2>1, <2>2 DEF Delivery!vars, Carried
  <2> QED BY <2>1, <2>3 DEF Kept
<1>3. CASE reported' = reported \cup {e} /\ UNCHANGED queue
  <2>1. Inv' /\ Enqueues /\ Carried' \in {Carried, Carried \ {e}}
    BY <1>1, <1>3, CallEndKeeps DEF Inv, TypeOK
  <2>2. Delivery!Tell(e)
    BY <1>1, <1>3, <2>1 DEF Delivery!Tell
  <2> QED BY <1>1, <2>1, <2>2 DEF Kept, Delivery!Next
<1>4. ASSUME ~Stored(e), Len(queue) < MaxQueue,
             queue' = Append(queue, [edit |-> e, attempts |-> 0, due |-> TRUE]),
             UNCHANGED reported
      PROVE  Kept
  <2>1. /\ queue' \in Seq(Item) /\ Len(queue') <= MaxQueue
        /\ Distinct(queue') /\ Queued' = Queued \cup {e}
    <3>1. [edit |-> e, attempts |-> 0, due |-> TRUE] \in Item
      BY <1>1 DEF Item
    <3> HIDE DEF e
    <3>2. [edit |-> e, attempts |-> 0, due |-> TRUE].edit = e
      OBVIOUS
    <3> QED BY <1>4, <3>1, <3>2, Appended DEF Inv, Stored
  <2>2. /\ Calling' \subseteq Calling /\ Calling \ {e} \subseteq Calling'
        /\ call'[t] = NoCall /\ \A u \in Tabs \ {t} : call'[u] = call[u]
        /\ call' \in [Tabs -> Call \cup {NoCall}]
    BY <1>1, CallEnds DEF Inv
  <2>3. TypeOK'
    BY <1>1, <1>4, <2>1, <2>2 DEF Inv, TypeOK, Distinct
  <2>4. \A u \in Tabs : FlushOK(u)'
    BY <1>1, <2>1, FlushFrame DEF Inv
  <2>5. \A u \in Tabs : CallOK(u)'
    BY <1>1, <2>2 DEF Inv, CallOK, NoCall
  <2>6. Counted'
    <3>1. \A g \in Guarded : t \notin Waiting(g) /\ t \notin Waiting(g)'
      BY <1>1, <2>2, Assumption DEF Waiting, NoCall, Assumption
    <3> QED BY <1>1, <2>2, <3>1, WaitingChanges DEF Inv, Counted
  <2>7. e \in Calling
    BY <1>1, Assumption DEF Calling, Assumption
  <2>8. UNCHANGED Delivery!vars
    BY <1>1, <1>4, <2>1, <2>2, <2>7 DEF Delivery!vars, Carried
  <2>9. Enqueues
    BY <2>1, <2>2 DEF Enqueues
  <2> QED BY <2>3, <2>4, <2>5, <2>6, <2>8, <2>9 DEF Kept, Inv
<1> QED BY <1>2, <1>3, <1>4 DEF CallGiveUp
-----------------------------------------------------------------------------
(* The queue's part. *)

(* A request nobody waits for is handled. *)
LEMMA LateServeKeeps ==
  ASSUME Inv, NEW e \in Edits, LateServe(e)
  PROVE  Kept
<1>1. /\ UNCHANGED <<made, call, queue, flush, reported, cut, faults>>
      /\ orphans[e] > 0 /\ orphans' = [orphans EXCEPT ![e] = @ - 1]
      /\ executed' = [executed EXCEPT ![e] = @ + 1] /\ landed' = landed \cup {e}
  BY DEF LateServe, Executes
<1>2. Queued' = Queued /\ Calling' = Calling
  BY <1>1 DEF Queued, Calling
<1>3. TypeOK'
  BY <1>1 DEF Inv, TypeOK
<1>4. \A u \in Tabs : FlushOK(u)' /\ CallOK(u)'
  BY <1>1, <1>2, FlushFrame DEF Inv, CallOK
<1>5. ASSUME NEW g \in Guarded
      PROVE  /\ executed'[g] + orphans'[g] + Cardinality(Waiting(g)') <= made'[g]
             /\ g = e => executed[g] < made[g]
  <2>1. Waiting(g)' = Waiting(g)
    BY <1>1 DEF Waiting
  <2>2. /\ executed[g] \in Nat /\ orphans[g] \in Nat /\ made[g] \in Nat
        /\ executed'[g] = executed[g] + (IF g = e THEN 1 ELSE 0)
        /\ orphans'[g] = orphans[g] - (IF g = e THEN 1 ELSE 0)
    BY <1>1, Assumption DEF Inv, TypeOK, Assumption
  <2>3. Cardinality(Waiting(g)) \in Nat
    <3>1. Waiting(g) \in SUBSET Tabs
      BY DEF Waiting
    <3> QED BY <3>1, FS_Subset, FS_CardinalityType, Assumption DEF Assumption
  <2>4. executed[g] + orphans[g] + Cardinality(Waiting(g)) <= made[g]
    BY DEF Inv, Counted
  <2> QED BY <1>1, <2>1, <2>2, <2>3, <2>4
<1>6. Delivery!TakeEffect(e)
  BY <1>1, <1>2, <1>5 DEF Delivery!TakeEffect, Carried
<1> QED BY <1>2, <1>3, <1>4, <1>5, <1>6 DEF Kept, Inv, Counted, Enqueues, Delivery!Next

(* The delay of an item passes. *)
LEMMA CoolKeeps ==
  ASSUME Inv, NEW i \in DOMAIN queue, Cool(i)
  PROVE  Kept
<1>1. /\ queue' = [queue EXCEPT ![i].due = TRUE]
      /\ UNCHANGED <<made, call, flush, orphans, executed, landed, reported, cut, faults>>
  BY DEF Cool
<1>2. /\ Len(queue) \in Nat /\ DOMAIN queue = 1..Len(queue)
      /\ \A j \in 1..Len(queue) : queue[j] \in Item
  BY LenProperties, ElementOfSeq DEF Inv, TypeOK
<1>3. \A j \in 1..Len(queue) : queue'[j] \in Item /\ queue'[j].edit = queue[j].edit
  BY <1>1, <1>2 DEF Item
<1>4. queue' \in [1..Len(queue) -> Item] /\ DOMAIN queue' = DOMAIN queue
  BY <1>1, <1>2, <1>3
<1>5. queue' \in Seq(Item) /\ Len(queue') = Len(queue)
  BY <1>2, <1>4
<1>6. Queued' = Queued /\ Calling' = Calling
  BY <1>1, <1>2, <1>3, <1>4 DEF Queued, Calling
<1>7. TypeOK'
  BY <1>1, <1>2, <1>3, <1>4, <1>5 DEF Inv, TypeOK
<1>8. \A u \in Tabs : FlushOK(u)' /\ CallOK(u)'
  BY <1>1, <1>6, FlushFrame DEF Inv, CallOK
<1>9. Counted' /\ UNCHANGED Delivery!vars
  BY <1>1, <1>6, CountFrame DEF Inv, Delivery!vars, Carried
<1> QED BY <1>6, <1>7, <1>8, <1>9 DEF Kept, Inv, Enqueues

(* A flush reads the queue. *)
LEMMA FlushStartKeeps ==
  ASSUME Inv, NEW t \in Tabs, FlushStart(t)
  PROVE  Kept
<1>1. /\ \A u \in Tabs : ~flush[u].on
      /\ UNCHANGED <<made, call, queue, orphans, executed, landed, reported, cut, faults>>
      /\ flush'[t] = [on |-> TRUE, items |-> queue, sent |-> FALSE, answer |-> "none", flushed |-> {}]
      /\ \A u \in Tabs \ {t} : flush'[u] = flush[u]
      /\ flush' = [flush EXCEPT ![t] = flush'[t]]
  BY DEF Inv, TypeOK, FlushStart, LockFree, NoFlush
<1>2. Queued' = Queued /\ Calling' = Calling /\ queue \in Seq(Item)
  BY <1>1 DEF Queued, Calling, Inv, TypeOK
<1>3. TypeOK'
  <2>1. flush'[t] \in Flush
    BY <1>1, <1>2 DEF Flush, Answers
  <2> QED BY <1>1, <2>1 DEF Inv, TypeOK
<1>4. \A u \in Tabs : FlushOK(u)'
  <2>1. ASSUME NEW u \in Tabs \ {t} PROVE FlushOK(u)' /\ ~flush'[u].on
    <3>1. flush'[u] = flush[u] /\ ~flush[u].on
      BY <1>1
    <3> QED BY <3>1, NoFlushOK DEF Inv, FlushOK
  <2>2. FlushOK(t)'
    BY <1>1, <1>2, <2>1 DEF Inv, TypeOK, FlushOK, Distinct, Queued
  <2> QED BY <2>1, <2>2
<1>5. (\A u \in Tabs : CallOK(u)') /\ Counted' /\ UNCHANGED Delivery!vars
  BY <1>1, <1>2, CountFrame DEF Inv, CallOK, Delivery!vars, Carried
<1> QED BY <1>2, <1>3, <1>4, <1>5 DEF Kept, Inv, Enqueues
(* A flush is at an item: it is queued, and what is on its way may be repeated. *)
LEMMA FirstItem ==
  ASSUME Inv, NEW t \in Tabs, flush[t].sent \/ AtItem(t)
  PROVE  /\ flush[t].on /\ flush[t].items # <<>>
         /\ Item1(t) \in Item /\ Item1(t).edit \in Edits \cap Queued
         /\ flush[t].sent => Item1(t).edit \notin Guarded
<1>1. flush[t].on /\ flush[t].items # <<>>
  BY DEF Inv, FlushOK, AtItem
<1>2. /\ 1 \in DOMAIN flush[t].items /\ Item1(t) = flush[t].items[1]
      /\ Item1(t) \in Item /\ Item1(t).edit \in Edits
  BY <1>1, FlushFacts DEF Inv
<1> QED BY <1>1, <1>2 DEF Inv, FlushOK, Replayable

(* A flush goes past its first item, or stops. *)
LEMMA FlushMoves ==
  ASSUME Inv, NEW t \in Tabs, flush[t].on, flush[t].items # <<>>,
         NEW items \in {Tail(flush[t].items), <<>>}, NEW flushed \in SUBSET Edits,
         flush' = [flush EXCEPT ![t] =
           [on |-> TRUE, items |-> items, sent |-> FALSE, answer |-> "none", flushed |-> flushed]],
         Queued \ {Item1(t).edit} \subseteq Queued'
  PROVE  flush' \in [Tabs -> Flush] /\ \A u \in Tabs : FlushOK(u)'
<1>1. /\ flush'[t] = [on |-> TRUE, items |-> items, sent |-> FALSE, answer |-> "none",
                      flushed |-> flushed]
      /\ \A u \in Tabs \ {t} : flush'[u] = flush[u]
  BY DEF Inv, TypeOK
<1>2. flush'[t] \in Flush
  <2>1. items \in Seq(Item)
    <3>1. flush[t].items \in Seq(Item) /\ Distinct(flush[t].items)
      BY FlushFacts DEF Inv, FlushOK
    <3>2. Tail(flush[t].items) \in Seq(Item) /\ <<>> \in Seq(Item)
      BY <3>1, Rest
    <3> QED BY <3>2
  <2> QED BY <1>1, <2>1 DEF Flush, Answers
<1>3. flush' \in [Tabs -> Flush]
  BY <1>1, <1>2 DEF Inv, TypeOK
<1>4. \A u \in Tabs : FlushOK(u)'
  BY <1>1, MovedOn DEF Inv
<1> QED BY <1>3, <1>4

(* GoesOn keeps what was flushed. *)
LEMMA FlushGoesOn ==
  ASSUME Inv, NEW t \in Tabs, flush[t].on, flush[t].items # <<>>,
         flush' \in {Past(t), GoesOn(t, <<>>, {})},
         Queued \ {Item1(t).edit} \subseteq Queued'
  PROVE  flush' \in [Tabs -> Flush] /\ \A u \in Tabs : FlushOK(u)'
<1>1. flush[t].flushed \in SUBSET Edits
  BY FlushFacts DEF Inv, Flush
<1>2. CASE flush' = Past(t)
  BY <1>1, <1>2, FlushMoves DEF Past, GoesOn
<1>3. CASE flush' = GoesOn(t, <<>>, {})
  BY <1>1, <1>3, FlushMoves DEF GoesOn
<1> QED BY <1>2, <1>3

(* What a step of a flush leaves alone. *)
FlushOnly == UNCHANGED <<made, call, executed, landed, cut>>

LEMMA FlushOnlyKeeps ==
  ASSUME Inv, FlushOnly, \A e \in Guarded : orphans'[e] = orphans[e],
         orphans' \in [Edits -> Nat], faults' \in Nat, reported' \in SUBSET Edits,
         flush' \in [Tabs -> Flush], \A u \in Tabs : FlushOK(u)',
         queue' \in Seq(Item), Len(queue') <= MaxQueue, Distinct(queue'),
         Queued' \subseteq Queued
  PROVE  Inv' /\ Enqueues /\ Calling' = Calling
<1>1. TypeOK'
  BY DEF Inv, TypeOK, FlushOnly, Distinct
<1>2. (\A u \in Tabs : CallOK(u)') /\ Calling' = Calling
  BY CallFrame DEF Inv, FlushOnly
<1>3. Counted'
  BY CountFrame DEF Inv, FlushOnly
<1> QED BY <1>1, <1>2, <1>3 DEF Inv, Enqueues

LEMMA FlushSkipKeeps ==
  ASSUME Inv, NEW t \in Tabs, FlushSkip(t)
  PROVE  Kept
<1>1. /\ AtItem(t) /\ flush' = Past(t) /\ FlushOnly
      /\ UNCHANGED <<queue, orphans, reported, faults>> /\ Queued' = Queued
  BY DEF FlushSkip, FlushOnly, Queued
<1>2. flush' \in [Tabs -> Flush] /\ \A u \in Tabs : FlushOK(u)'
  BY <1>1, FirstItem, FlushGoesOn
<1>3. Inv' /\ Enqueues /\ Calling' = Calling
  BY <1>1, <1>2, FlushOnlyKeeps DEF Inv, TypeOK, Distinct
<1>4. UNCHANGED Delivery!vars
  BY <1>1, <1>3 DEF Delivery!vars, Carried, FlushOnly
<1> QED BY <1>3, <1>4 DEF Kept

(* An item that is dropped or refused is reported as it goes. *)
LEMMA FlushReports ==
  ASSUME Inv, NEW t \in Tabs, flush[t].sent \/ AtItem(t),
         reported' = reported \cup {Item1(t).edit}, queue' = Without(Item1(t).edit),
         flush' = Past(t), FlushOnly, UNCHANGED <<orphans, faults>>
  PROVE  Kept
<1> DEFINE e == Item1(t).edit
<1>1. flush[t].on /\ flush[t].items # <<>> /\ e \in Edits
  BY FirstItem
<1>2. /\ queue' \in Seq(Item) /\ Len(queue') <= MaxQueue
      /\ Distinct(queue') /\ Queued' = Queued \ {e}
  BY Removed DEF Inv
<1>3. flush' \in [Tabs -> Flush] /\ \A u \in Tabs : FlushOK(u)'
  BY <1>1, <1>2, FlushGoesOn
<1>4. Inv' /\ Enqueues /\ Calling' = Calling
  BY <1>1, <1>2, <1>3, FlushOnlyKeeps DEF Inv, TypeOK
<1>5. Delivery!Tell(e)
  BY <1>2, <1>4 DEF Delivery!Tell, Carried, FlushOnly
<1> QED BY <1>1, <1>4, <1>5 DEF Kept, Delivery!Next

LEMMA FlushDropKeeps ==
  ASSUME Inv, NEW t \in Tabs, FlushDrop(t)
  PROVE  Kept
BY FlushReports DEF FlushDrop, FlushOnly

LEMMA FlushRefusedKeeps ==
  ASSUME Inv, NEW t \in Tabs, FlushRefused(t)
  PROVE  Kept
BY FlushReports DEF FlushRefused, FlushOnly

LEMMA FlushSendKeeps ==
  ASSUME Inv, NEW t \in Tabs, FlushSend(t)
  PROVE  Kept
<1>1. /\ AtItem(t) /\ Replayable(Item1(t).edit) /\ flush' = [flush EXCEPT ![t].sent = TRUE]
      /\ FlushOnly /\ UNCHANGED <<queue, orphans, reported, faults>> /\ Queued' = Queued
  BY DEF FlushSend, FlushOnly, Queued
<1>2. flush[t].on /\ flush[t].items # <<>> /\ flush[t] \in Flush
  BY <1>1, FirstItem, FlushFacts DEF Inv
<1>3. /\ flush'[t] = [flush[t] EXCEPT !.sent = TRUE]
      /\ \A u \in Tabs \ {t} : flush'[u] = flush[u]
  BY <1>1 DEF Inv, TypeOK
<1>4. /\ flush'[t].on /\ flush'[t].items = flush[t].items /\ flush'[t].sent
      /\ flush'[t].answer = flush[t].answer /\ flush'[t] \in Flush
  BY <1>2, <1>3 DEF Flush
<1>5. flush' \in [Tabs -> Flush]
  BY <1>1, <1>3, <1>4 DEF Inv, TypeOK
<1>6. \A u \in Tabs : FlushOK(u)'
  <2>1. \A u \in Tabs \ {t} : FlushOK(u)' /\ ~flush'[u].on
    BY <1>2, <1>3, OthersIdle DEF Inv
  <2>2. FlushOK(t)'
    BY <1>1, <1>2, <1>4, <2>1 DEF Inv, FlushOK, Item1, Distinct, Replayable, FlushOnly
  <2> QED BY <2>1, <2>2
<1>7. Inv' /\ Enqueues /\ Calling' = Calling
  BY <1>1, <1>5, <1>6, FlushOnlyKeeps DEF Inv, TypeOK, Distinct
<1>8. UNCHANGED Delivery!vars
  BY <1>1, <1>7 DEF Delivery!vars, Carried, FlushOnly
<1> QED BY <1>7, <1>8 DEF Kept
(* What is on its way in a flush is not guarded. *)
LEMMA ServeFlushKeeps ==
  ASSUME Inv, NEW t \in Tabs, ServeFlush(t)
  PROVE  Kept
<1> DEFINE e == Item1(t).edit
<1>1. /\ flush[t].sent /\ flush[t].answer = "none"
      /\ UNCHANGED <<made, call, queue, orphans, reported, cut>>
      /\ Queued' = Queued /\ Calling' = Calling
  BY DEF ServeFlush, Queued, Calling
<1>2. PICK answer \in {"done", "refused", "busy"} :
        Serves(e, answer) /\ flush' = [flush EXCEPT ![t].answer = answer]
  BY DEF ServeFlush
<1>3. /\ flush[t].on /\ flush[t].items # <<>> /\ flush[t] \in Flush /\ e \in Edits \ Guarded
  BY <1>1, FirstItem, FlushFacts DEF Inv
<1>4. /\ flush'[t].on /\ flush'[t].items = flush[t].items /\ flush'[t].sent
      /\ flush'[t].answer = answer /\ flush'[t] \in Flush
      /\ \A u \in Tabs \ {t} : flush'[u] = flush[u]
      /\ flush' \in [Tabs -> Flush]
  <2>1. /\ flush'[t] = [flush[t] EXCEPT !.answer = answer]
        /\ \A u \in Tabs \ {t} : flush'[u] = flush[u]
    BY <1>2 DEF Inv, TypeOK
  <2>2. /\ flush'[t].on /\ flush'[t].items = flush[t].items /\ flush'[t].sent
        /\ flush'[t].answer = answer /\ flush'[t] \in Flush
    BY <1>1, <1>3, <2>1 DEF Flush, Answers
  <2> QED BY <1>2, <2>1, <2>2 DEF Inv, TypeOK
<1>5. /\ landed \subseteq landed' /\ (answer = "done" => e \in landed')
      /\ \A g \in Guarded : executed'[g] = executed[g]
      /\ executed' \in [Edits -> Nat] /\ landed' \subseteq Edits /\ faults' \in Nat
  <2> HIDE DEF e
  <2>1. executed \in [Edits -> Nat] /\ landed \subseteq Edits /\ faults \in Nat /\ Guarded \subseteq Edits
    BY Assumption DEF Inv, TypeOK, Assumption
  <2>2. CASE executed' = [executed EXCEPT ![e] = @ + 1] /\ landed' = landed \cup {e} /\ faults' = faults
    BY <1>3, <2>1, <2>2
  <2>3. CASE answer # "done" /\ executed' = executed /\ landed' = landed /\ faults' = faults + 1
    BY <2>1, <2>3
  <2> QED BY <1>2, <2>2, <2>3 DEF Serves, Executes, Fault
<1>6. TypeOK'
  BY <1>1, <1>4, <1>5 DEF Inv, TypeOK
<1>7. \A u \in Tabs : FlushOK(u)'
  <2>1. \A u \in Tabs \ {t} : FlushOK(u)' /\ ~flush'[u].on
    BY <1>3, <1>4, OthersIdle DEF Inv
  <2>2. FlushOK(t)'
    BY <1>1, <1>3, <1>4, <1>5, <2>1 DEF Inv, FlushOK, Item1, Distinct, Replayable
  <2> QED BY <2>1, <2>2
<1>8. (\A u \in Tabs : CallOK(u)') /\ Counted'
  BY <1>1, <1>5, CallFrame, CountFrame DEF Inv
<1>9. [Delivery!Next]_(Delivery!vars)
  <2>1. CASE answer = "done"
    <3>1. Delivery!TakeEffect(e)
      BY <1>1, <1>2, <1>3, <2>1 DEF Serves, Executes, Delivery!TakeEffect, Carried
    <3> QED BY <1>3, <3>1 DEF Delivery!Next
  <2>2. CASE answer # "done"
    BY <1>1, <1>2, <2>2 DEF Serves, Delivery!vars, Carried
  <2> QED BY <2>1, <2>2
<1> QED BY <1>1, <1>6, <1>7, <1>8, <1>9 DEF Kept, Inv, Enqueues

LEMMA FlushDoneKeeps ==
  ASSUME Inv, NEW t \in Tabs, FlushDone(t)
  PROVE  Kept
<1> DEFINE e == Item1(t).edit
           flushed == flush[t].flushed \cup {e}
<1>1. /\ flush[t].sent /\ flush[t].answer = "done" /\ queue' = Without(e) /\ FlushOnly
      /\ UNCHANGED <<orphans, reported, faults>>
      /\ flush' = GoesOn(t, Tail(flush[t].items), {e})
  BY DEF FlushDone, Accepted, FlushOnly
<1>2. flush[t].on /\ flush[t].items # <<>> /\ e \in Edits /\ e \in landed
  BY <1>1, FirstItem DEF Inv, FlushOK
<1>3. /\ queue' \in Seq(Item) /\ Len(queue') <= MaxQueue
      /\ Distinct(queue') /\ Queued' = Queued \ {e}
  BY <1>1, Removed DEF Inv
<1>4. flush' = [flush EXCEPT ![t] =
        [on |-> TRUE, items |-> Tail(flush[t].items), sent |-> FALSE, answer |-> "none",
         flushed |-> flushed]]
  BY <1>1 DEF Inv, TypeOK, GoesOn
<1>5. flushed \in SUBSET Edits
  BY <1>2, FlushFacts DEF Inv, Flush
<1> HIDE DEF flushed
<1>6. flush' \in [Tabs -> Flush] /\ \A u \in Tabs : FlushOK(u)'
  BY <1>2, <1>3, <1>4, <1>5, FlushMoves
<1>7. Inv' /\ Enqueues /\ Calling' = Calling
  BY <1>1, <1>3, <1>6, FlushOnlyKeeps DEF Inv, TypeOK
<1>8. Delivery!Settle(e) \/ UNCHANGED Delivery!vars
  BY <1>1, <1>2, <1>3, <1>7 DEF Delivery!Settle, Delivery!vars, Carried, FlushOnly
<1> QED BY <1>2, <1>7, <1>8 DEF Kept, Delivery!Next

(* An item that was put off, or whose answer was lost, is still queued. *)
LEMMA FlushSaves ==
  ASSUME Inv, NEW t \in Tabs, flush[t].sent, queue' = SaveItem(Item1(t)),
         flush' \in {Past(t), GoesOn(t, <<>>, {})}, FlushOnly, UNCHANGED reported,
         \A e \in Guarded : orphans'[e] = orphans[e],
         orphans' \in [Edits -> Nat], faults' \in Nat
  PROVE  Kept
<1>1. flush[t].on /\ flush[t].items # <<>> /\ Item1(t) \in Item /\ Item1(t).edit \in Queued
  BY FirstItem
<1>2. /\ queue' \in Seq(Item) /\ Len(queue') <= MaxQueue
      /\ Distinct(queue') /\ Queued' = Queued
  BY <1>1, SavedBack DEF Inv
<1>3. flush' \in [Tabs -> Flush] /\ \A u \in Tabs : FlushOK(u)'
  BY <1>1, <1>2, FlushGoesOn
<1>4. Inv' /\ Enqueues /\ Calling' = Calling
  BY <1>2, <1>3, FlushOnlyKeeps DEF Inv, TypeOK
<1>5. UNCHANGED Delivery!vars
  BY <1>2, <1>4 DEF Delivery!vars, Carried, FlushOnly
<1> QED BY <1>4, <1>5 DEF Kept

LEMMA FlushBusyKeeps ==
  ASSUME Inv, NEW t \in Tabs, FlushBusy(t)
  PROVE  Kept
BY FlushSaves DEF FlushBusy, FlushOnly, Inv, TypeOK

LEMMA FlushLostKeeps ==
  ASSUME Inv, NEW t \in Tabs, FlushLost(t)
  PROVE  Kept
<1>1. flush[t].sent /\ faults' \in Nat
  BY DEF FlushLost, Fault, Inv, TypeOK
<1>2. Item1(t).edit \in Edits \ Guarded
  BY <1>1, FirstItem
<1>3. orphans' \in [Edits -> Nat] /\ \A e \in Guarded : orphans'[e] = orphans[e]
  <2> DEFINE e == Item1(t).edit
  <2>1. \/ orphans' = orphans
        \/ orphans' = [orphans EXCEPT ![e] = @ + 1]
    BY DEF FlushLost, Loses
  <2>2. orphans \in [Edits -> Nat] /\ Guarded \subseteq Edits /\ e \in Edits \ Guarded
    BY <1>2, Assumption DEF Inv, TypeOK, Assumption
  <2> HIDE DEF e
  <2> QED BY <2>1, <2>2
<1> QED BY <1>1, <1>3, FlushSaves DEF FlushLost, FlushOnly

LEMMA FlushUnauthorizedKeeps ==
  ASSUME Inv, NEW t \in Tabs, FlushUnauthorized(t)
  PROVE  Kept
<1>1. /\ flush[t].sent /\ faults' \in Nat /\ FlushOnly /\ flush' = GoesOn(t, <<>>, {})
      /\ UNCHANGED <<queue, orphans, reported>> /\ Queued' = Queued
  BY DEF FlushUnauthorized, Fault, Inv, TypeOK, FlushOnly, Queued
<1>2. flush' \in [Tabs -> Flush] /\ \A u \in Tabs : FlushOK(u)'
  BY <1>1, FirstItem, FlushGoesOn
<1>3. Inv' /\ Enqueues /\ Calling' = Calling
  BY <1>1, <1>2, FlushOnlyKeeps DEF Inv, TypeOK, Distinct
<1>4. UNCHANGED Delivery!vars
  BY <1>1, <1>3 DEF Delivery!vars, Carried, FlushOnly
<1> QED BY <1>3, <1>4 DEF Kept

(* The lock is released. *)
LEMMA FlushCloses ==
  ASSUME Inv, NEW t \in Tabs, flush' = [flush EXCEPT ![t] = NoFlush],
         queue' = queue, landed' = landed
  PROVE  flush' \in [Tabs -> Flush] /\ \A u \in Tabs : FlushOK(u)'
<1>1. flush'[t] = NoFlush /\ \A u \in Tabs \ {t} : flush'[u] = flush[u]
  BY DEF Inv, TypeOK
<1>2. NoFlush \in Flush
  <2>1. <<>> \in Seq(Item)
    OBVIOUS
  <2> QED BY <2>1 DEF NoFlush, Flush, Answers
<1>3. flush' \in [Tabs -> Flush]
  BY <1>1, <1>2 DEF Inv, TypeOK
<1>4. FlushOK(t)'
  BY <1>1, NoFlushOK DEF NoFlush
<1>5. ASSUME NEW u \in Tabs \ {t} PROVE FlushOK(u)'
  BY <1>1 DEF Inv, FlushOK, Item1, Distinct, Queued, NoFlush
<1> QED BY <1>3, <1>4, <1>5

LEMMA FlushEndKeeps ==
  ASSUME Inv, NEW t \in Tabs, FlushEnd(t)
  PROVE  Kept
<1>1. /\ FlushOnly /\ UNCHANGED <<queue, orphans, reported, faults>> /\ Queued' = Queued
  BY DEF FlushEnd, FlushOnly, Queued
<1>2. flush' \in [Tabs -> Flush] /\ \A u \in Tabs : FlushOK(u)'
  BY <1>1, FlushCloses DEF FlushEnd
<1>3. Inv' /\ Enqueues /\ Calling' = Calling
  BY <1>1, <1>2, FlushOnlyKeeps DEF Inv, TypeOK, Distinct
<1>4. UNCHANGED Delivery!vars
  BY <1>1, <1>3 DEF Delivery!vars, Carried, FlushOnly
<1> QED BY <1>3, <1>4 DEF Kept
(* What a page that is closed leaves on its way counts as before. *)
LEMMA ReloadKeeps ==
  ASSUME Inv, NEW t \in Tabs, Reload(t)
  PROVE  Kept
<1> DEFINE e == call[t].edit
<1>1. /\ cut' = cut \cup ({e} \ {NoEdit}) /\ faults' \in Nat
      /\ call' = [call EXCEPT ![t] = NoCall] /\ flush' = [flush EXCEPT ![t] = NoFlush]
      /\ UNCHANGED <<made, queue, executed, landed, reported>> /\ Queued' = Queued
      /\ e \in Edits \cup {NoEdit}
  BY CallFacts DEF Reload, Fault, Inv, TypeOK, Queued
<1>2. PICK late \in SUBSET OnTheirWay(t) :
        orphans' = [x \in Edits |-> orphans[x] + IF x \in late THEN 1 ELSE 0]
  BY DEF Reload
<1>3. flush' \in [Tabs -> Flush] /\ \A u \in Tabs : FlushOK(u)'
  BY <1>1, FlushCloses
<1>4. /\ Calling' \subseteq Calling /\ Calling \ {e} \subseteq Calling'
      /\ call'[t] = NoCall /\ \A u \in Tabs \ {t} : call'[u] = call[u]
      /\ call' \in [Tabs -> Call \cup {NoCall}]
  BY <1>1, CallEnds DEF Inv
<1>5. TypeOK'
  <2>1. orphans' \in [Edits -> Nat]
    <3>1. \A x \in Edits : orphans[x] \in Nat /\ orphans[x] + (IF x \in late THEN 1 ELSE 0) \in Nat
      BY DEF Inv, TypeOK
    <3> QED BY <1>2, <3>1
  <2>2. cut' \subseteq Edits
    BY <1>1 DEF Inv, TypeOK
  <2> QED BY <1>1, <1>3, <1>4, <2>1, <2>2 DEF Inv, TypeOK
<1>6. \A u \in Tabs : CallOK(u)'
  BY <1>1, <1>4 DEF Inv, CallOK, NoCall
<1>7. Counted'
  <2> SUFFICES ASSUME NEW g \in Guarded
               PROVE  executed[g] + orphans'[g] + Cardinality(Waiting(g)') <= made[g]
    BY <1>1 DEF Counted
  <2>1. g \in late => t \in Waiting(g)
    <3>1. ASSUME flush[t].sent PROVE Item1(t).edit # g
      BY <3>1, FirstItem
    <3> QED BY <1>2, <3>1 DEF OnTheirWay, Waiting
  <2>2. t \notin Waiting(g)'
    BY <1>4, Assumption DEF Waiting, NoCall, Assumption
  <2>3. /\ executed[g] \in Nat /\ orphans[g] \in Nat /\ made[g] \in Nat
        /\ orphans'[g] = orphans[g] + (IF g \in late THEN 1 ELSE 0)
    BY <1>2, Assumption DEF Inv, TypeOK, Assumption
  <2>4. executed[g] + orphans[g] + Cardinality(Waiting(g)) <= made[g]
    BY DEF Inv, Counted
  <2> QED BY <1>4, <2>1, <2>2, <2>3, <2>4, WaitingChanges
<1>8. Carried' \in {Carried, Carried \ {e}}
  BY <1>1, <1>4 DEF Carried
<1>9. [Delivery!Next]_(Delivery!vars)
  <2>1. CASE e \in Edits
    <3>1. e # NoEdit
      BY <2>1, Assumption DEF Assumption
    <3>2. Delivery!Cut(e)
      BY <1>1, <1>8, <3>1 DEF Delivery!Cut
    <3> QED BY <2>1, <3>2 DEF Delivery!Next
  <2>2. CASE e = NoEdit
    <3>1. NoEdit \notin Carried
      <4>1. \A i \in DOMAIN queue : queue[i].edit \in Edits
        <5>1. queue \in Seq(Item)
          BY DEF Inv, TypeOK
        <5>2. \A i \in DOMAIN queue : queue[i] \in Item
          BY <5>1, LenProperties, ElementOfSeq
        <5> QED BY <5>2 DEF Item
      <4> QED BY <4>1, Assumption DEF Carried, Calling, Queued, Assumption
    <3> QED BY <1>1, <1>8, <2>2, <3>1 DEF Delivery!vars
  <2> QED BY <1>1, <2>1, <2>2
<1>10. Enqueues
  BY <1>1 DEF Enqueues
<1> QED BY <1>3, <1>5, <1>6, <1>7, <1>9, <1>10 DEF Kept, Inv

-----------------------------------------------------------------------------
(* The specification.                                                      *)

LEMMA InitInv ==
  ASSUME Init
  PROVE  Inv /\ Delivery!Init
<1>1. PICK n \in 0..MaxQueue : queue \in [1..n -> {LeftItem(e) : e \in Edits}]
  BY DEF Init
<1>2. n \in Nat /\ n <= MaxQueue
  BY Assumption DEF Assumption
<1>3. queue \in [1..n -> Item]
  <2>1. \A e \in Edits : LeftItem(e) \in Item
    BY DEF LeftItem, Item
  <2> QED BY <1>1, <2>1
<1>4. queue \in Seq(Item) /\ Len(queue) = n /\ DOMAIN queue = 1..n
  BY <1>2, <1>3
<1>5. Queued \subseteq Edits
  BY <1>3, <1>4 DEF Queued, Item
<1>6. Calling = {} /\ Carried = Queued
  BY DEF Init, Calling, Carried, NoCall
<1>7. TypeOK
  <2>1. NoFlush \in Flush
    <3>1. <<>> \in Seq(Item)
      OBVIOUS
    <3> QED BY <3>1 DEF NoFlush, Flush, Answers
  <2> QED BY <1>2, <1>4, <1>5, <2>1 DEF Init, TypeOK
<1>8. \A t \in Tabs : FlushOK(t) /\ CallOK(t)
  <2> TAKE t \in Tabs
  <2>1. flush[t] = NoFlush /\ call[t] = NoCall
    BY DEF Init
  <2>2. \A u \in Tabs : ~flush[u].on
    BY DEF Init, NoFlush
  <2>3. DOMAIN flush[t].items = {}
    BY <2>1 DEF NoFlush
  <2> QED BY <2>1, <2>2, <2>3 DEF FlushOK, CallOK, NoFlush, NoCall, Distinct
<1>9. Counted
  <2> SUFFICES ASSUME NEW e \in Guarded
               PROVE  executed[e] + orphans[e] + Cardinality(Waiting(e)) <= made[e]
    BY DEF Counted
  <2>1. e \in Edits /\ e # NoEdit
    BY Assumption DEF Assumption
  <2>2. Waiting(e) = {}
    BY <2>1 DEF Init, Waiting, NoCall
  <2>3. executed[e] = 0 /\ orphans[e] = 0 /\ made[e] = 0
    BY <2>1 DEF Init
  <2> QED BY <2>2, <2>3, FS_EmptySet
<1> QED BY <1>5, <1>6, <1>7, <1>8, <1>9 DEF Inv, Init, Delivery!Init

LEMMA NextKeeps ==
  ASSUME Inv, [Next]_vars
  PROVE  Kept
<1>1. ASSUME NEW t \in Tabs, Tab(t) PROVE Kept
  BY <1>1, MakeKeeps, ServeCallKeeps, CallLostKeeps, CallRetryKeeps, CallDoneKeeps,
     CallRefusedKeeps, CallGiveUpKeeps, FlushStartKeeps, FlushSkipKeeps, FlushDropKeeps,
     FlushSendKeeps, ServeFlushKeeps, FlushDoneKeeps, FlushRefusedKeeps, FlushBusyKeeps,
     FlushLostKeeps, FlushUnauthorizedKeeps, FlushEndKeeps, ReloadKeeps DEF Tab
<1>2. CASE UNCHANGED vars
  <2>1. Inv'
    <3>1. TypeOK'
      BY <1>2 DEF vars, Inv, TypeOK
    <3>2. Queued' = Queued
      BY <1>2 DEF vars, Queued
    <3>3. \A t \in Tabs : FlushOK(t)' /\ CallOK(t)'
      BY <1>2, <3>2, FlushFrame DEF vars, Inv, CallOK
    <3>4. Counted'
      BY <1>2, CountFrame DEF vars, Inv
    <3> QED BY <3>1, <3>3, <3>4 DEF Inv
  <2>2. Enqueues /\ UNCHANGED Delivery!vars
    BY <1>2 DEF vars, Enqueues, Queued, Delivery!vars, Carried, Calling
  <2> QED BY <2>1, <2>2 DEF Kept
<1> QED BY <1>1, <1>2, LateServeKeeps, CoolKeeps DEF Next

(* In every behaviour the invariant holds. *)
LEMMA Invariant == Spec => []Inv
<1>1. Init => Inv
  BY InitInv
<1>2. Inv /\ [Next]_vars => Inv'
  BY NextKeeps DEF Kept
<1> QED BY <1>1, <1>2, PTL DEF Spec

(* The calls, the queue and the flushes hold what their code takes them to: *)
(* no body is queued twice, and the queue stays within MAX_OUTBOX.          *)
THEOREM TypeCorrect == Spec => []TypeOK
<1>1. Inv => TypeOK
  BY DEF Inv
<1> QED BY <1>1, Invariant, PTL

(* The page and its queue keep the promise made to the user: no change is  *)
(* dropped unless it landed, was reported, or went with its page; and a    *)
(* guarded one is not made more often than it was asked for.               *)
THEOREM QueueImplementsDelivery == Spec => DeliveryKept
<1>1. Init => Delivery!Init
  BY InitInv
<1>2. Inv /\ [Next]_vars => [Delivery!Next]_(Delivery!vars)
  BY NextKeeps DEF Kept
<1> QED BY <1>1, <1>2, Invariant, PTL DEF Spec, DeliveryKept, Delivery!Spec

(* A flush that writes back what it read before it sent it brings no item  *)
(* back: only the call of a change adds it, as it ends.                    *)
THEOREM OnlyFailedCallsEnqueue == Spec => OnlyCallsEnqueue
<1>1. Inv /\ [Next]_vars => [Enqueues]_vars
  BY NextKeeps DEF Kept
<1>2. Spec => [][Enqueues]_vars
  BY <1>1, Invariant, PTL DEF Spec
<1> QED BY <1>2 DEF OnlyCallsEnqueue, Enqueues
=============================================================================
