--------------------------- MODULE ClientSyncProofs ---------------------------
(***************************************************************************)
(* Proofs about ClientSync, for any changes, scopes and markers: its       *)
(* types, that the version a tab compares with never goes back, and that   *)
(* what others changed does not disappear from the screen.                 *)
(***************************************************************************)
EXTENDS ClientSync, FiniteSetTheorems, TLAPS

(* What a tab only learns of through versions and reloads. *)
Elsewhere == Others \cup Siblings

(* A version on its way is the only one, and at least as new as the one taken. *)
PollInv ==
  /\ \A p, q \in polls : p = q
  /\ \A p \in polls : p.snap \subseteq committed /\ (base # NoVersion => base \subseteq p.snap)

(* The one reload that will be applied holds all the screen shows of elsewhere. *)
LoadInv ==
  /\ \A l, m \in loads : l.current /\ m.current => l = m
  /\ \A l \in loads : l.snap \subseteq committed
  /\ \A l \in loads : l.current => shown \cap Elsewhere \subseteq l.snap

SyncInv == TypeOK /\ PollInv /\ LoadInv

(* A set whose members are all the same has at most one. *)
LEMMA AtMostOne ==
  ASSUME NEW S, \A x, y \in S : x = y
  PROVE  Cardinality(S) <= 1
<1>1. CASE S = {}
  BY <1>1, FS_EmptySet
<1>2. CASE S # {}
  <2>1. PICK x \in S : S = {x}
    BY <1>2
  <2> QED BY <2>1, FS_Singleton
<1> QED BY <1>1, <1>2

-----------------------------------------------------------------------------
(* The versions *)

(* No step but a poll's touches them, and the server only adds changes. *)
LEMMA PollKept ==
  ASSUME PollInv, committed \subseteq committed', UNCHANGED <<base, polls>>
  PROVE  PollInv'
BY DEF PollInv

LEMMA PollBegins ==
  ASSUME TypeOK, PollInv, NEW rebase \in BOOLEAN, polls = {},
         polls' = polls \cup {[rebase |-> rebase, snap |-> committed]},
         UNCHANGED <<committed, base>>
  PROVE  PollInv'
<1> DEFINE New == [rebase |-> rebase, snap |-> committed]
<1>1. New.snap = committed /\ polls' = {New}
  OBVIOUS
<1> HIDE DEF New
<1>2. base # NoVersion => base \subseteq committed
  BY DEF TypeOK
<1> QED BY <1>1, <1>2 DEF PollInv

LEMMA PollNext ==
  ASSUME TypeOK, PollInv, [Next]_vars
  PROVE  PollInv'
<1>1. CASE UNCHANGED vars
  BY <1>1, PollKept DEF vars
<1>2. CASE Tick
  BY <1>2, PollBegins DEF Tick, PollFree, server
<1>3. CASE Rebase
  BY <1>3, PollBegins, PollKept DEF Rebase, PollFree, server
<1>4. ASSUME NEW p \in polls, PollApply(p) PROVE PollInv'
  BY <1>4 DEF PollApply, PollInv, server
<1>5. ASSUME NEW p \in polls, PollFail(p) PROVE PollInv'
  BY <1>5 DEF PollFail, PollInv, server
<1>6. ASSUME NEW c, OtherDevice(c) \/ Sibling(c) \/ Save(c) \/ FlushedBySibling(c) \/ Hear(c)
      PROVE  PollInv'
  BY <1>6, PollKept DEF OtherDevice, Sibling, Save, FlushedBySibling, Hear, version, server
<1>7. CASE Answers \/ FlushLands \/ FlushDone
  BY <1>7, PollKept DEF Answers, SaveLands, SaveAnswered, SaveRefused, SaveLost,
     FlushLands, FlushDone, version, server
<1>8. ASSUME NEW scopes, Expire(scopes) PROVE PollInv'
  BY <1>8, PollKept DEF Expire, server
<1>9. CASE LoadStart
  BY <1>9, PollKept DEF LoadStart, version, server
<1>10. ASSUME NEW l, LoadArrives(l) \/ LoadFails(l) PROVE PollInv'
  BY <1>10, PollKept DEF LoadArrives, LoadFails, version, server
<1> QED
  BY <1>1, <1>2, <1>3, <1>4, <1>5, <1>6, <1>7, <1>8, <1>9, <1>10 DEF Next, Arrives

-----------------------------------------------------------------------------
(* The reloads *)

(* Nothing of elsewhere is this tab's own. *)
LEMMA OwnIsNotElsewhere == Mine \cap Elsewhere = {}
BY Assumption DEF Elsewhere, Browser

(* The screen gains at most a change of this tab, and loses one at most. *)
LEMMA LoadKept ==
  ASSUME LoadInv, committed \subseteq committed', UNCHANGED loads,
         shown' \cap Elsewhere \subseteq shown
  PROVE  LoadInv'
BY DEF LoadInv

(* A reload that was not applied, or failed, leaves the others as they were. *)
LEMMA LoadDropped ==
  ASSUME LoadInv, NEW l, loads' = loads \ {l}, UNCHANGED <<committed, shown>>
  PROVE  LoadInv'
BY DEF LoadInv

LEMMA LoadBegins ==
  ASSUME TypeOK, LoadInv, LoadStart
  PROVE  LoadInv'
<1> DEFINE Old(l) == [l EXCEPT !.current = FALSE]
           Olds == {Old(l) : l \in loads}
           New == [current |-> TRUE, snap |-> committed]
<1>1. loads' = Olds \cup {New} /\ UNCHANGED <<committed, shown>>
  BY DEF LoadStart, server
<1>2. \A l \in Olds : ~l.current /\ l.snap \subseteq committed
  BY DEF TypeOK, Load, LoadInv
<1>3. shown \cap Elsewhere \subseteq committed
  BY OwnIsNotElsewhere DEF TypeOK
<1>4. New.current /\ New.snap = committed
  OBVIOUS
<1> HIDE DEF Olds, New
<1> QED BY <1>1, <1>2, <1>3, <1>4 DEF LoadInv

(* The reload applied is the newest: what the screen then shows is what it held. *)
LEMMA LoadEnds ==
  ASSUME TypeOK, LoadInv, NEW l \in loads, LoadArrives(l)
  PROVE  LoadInv'
<1>1. CASE ~l.current
  BY <1>1, LoadDropped DEF LoadArrives, Applies, server
<1>2. CASE l.current
  <2>1. UNCHANGED committed /\ loads' = loads \ {l}
    BY DEF LoadArrives, server
  <2>2. \A m \in loads' : ~m.current
    BY <1>2, <2>1 DEF LoadInv, TypeOK, Load
  <2> QED BY <2>1, <2>2 DEF LoadInv
<1> QED BY <1>1, <1>2

LEMMA LoadNext ==
  ASSUME TypeOK, LoadInv, [Next]_vars
  PROVE  LoadInv'
<1>1. CASE UNCHANGED vars
  BY <1>1, LoadKept DEF vars
<1>2. ASSUME NEW c, OtherDevice(c) \/ Sibling(c) \/ FlushedBySibling(c) \/ Hear(c)
      PROVE  LoadInv'
  BY <1>2, LoadKept DEF OtherDevice, Sibling, FlushedBySibling, Hear, screen, server
<1>3. ASSUME NEW c \in Mine, Save(c) PROVE LoadInv'
  BY <1>3, LoadKept, OwnIsNotElsewhere DEF Save
<1>4. CASE Answers \/ FlushLands \/ FlushDone
  BY <1>4, LoadKept DEF Answers, SaveLands, SaveAnswered, SaveRefused, SaveLost,
     FlushLands, FlushDone, screen, server
<1>5. ASSUME NEW scopes, Expire(scopes) PROVE LoadInv'
  BY <1>5, LoadKept DEF Expire, server, screen
<1>6. CASE Tick \/ Rebase
  BY <1>6, LoadKept DEF Tick, Rebase, server, screen
<1>7. ASSUME NEW p, PollApply(p) \/ PollFail(p) PROVE LoadInv'
  BY <1>7, LoadKept DEF PollApply, PollFail, server, screen
<1>8. ASSUME NEW l \in loads, LoadFails(l) PROVE LoadInv'
  BY <1>8, LoadDropped DEF LoadFails, server
<1> QED
  BY <1>1, <1>2, <1>3, <1>4, <1>5, <1>6, <1>7, <1>8, LoadBegins, LoadEnds DEF Next, Arrives
-----------------------------------------------------------------------------
(* The types *)

(* Whatever is announced names a scope. *)
LEMMA ToldIsScopes ==
  ASSUME NEW cs \in SUBSET Browser, cs # {}
  PROVE  ToldOf(cs) \in (SUBSET Scopes) \ {{}}
<1>1. PICK c \in cs : TRUE
  OBVIOUS
<1>2. \A d \in cs : Told[d] \in (SUBSET Scopes) \ {{}}
  BY Assumption
<1> QED BY <1>1, <1>2 DEF ToldOf

(* At most one poll, and at most one reload that counts. *)
LEMMA FewUnderWay ==
  ASSUME PollInv, LoadInv
  PROVE  Cardinality(polls) <= 1 /\ Cardinality({l \in loads : l.current}) <= 1
BY AtMostOne DEF PollInv, LoadInv

(* The parts of the types that the steps disturb. *)
ChangesTyped ==
  /\ committed \subseteq Changes /\ made \subseteq Mine /\ queued \subseteq made
  /\ saving \in made \cup {NoChange} /\ flushing \subseteq made \cap committed
  /\ heard \subseteq Browser \cap committed
VersionTyped ==
  /\ base \in (SUBSET committed) \cup {NoVersion}
  /\ pending \subseteq (SUBSET Scopes) \ {{}} /\ timer \in BOOLEAN
  /\ polls \subseteq Poll
ScreenTyped ==
  /\ refresh \in BOOLEAN /\ failed \in BOOLEAN
  /\ loads \subseteq Load /\ shown \subseteq committed \cup made

(* A step of the changes: what it makes, commits, queues and announces. *)
LEMMA ChangesNext ==
  ASSUME TypeOK, [Next]_vars
  PROVE  ChangesTyped' /\ committed \subseteq committed' /\ made \subseteq made'
<1> USE DEF TypeOK, ChangesTyped
<1>1. CASE UNCHANGED vars
  BY <1>1 DEF vars
<1>2. ASSUME NEW c, OtherDevice(c) \/ Sibling(c) PROVE ChangesTyped' /\ committed \subseteq committed' /\ made \subseteq made'
  BY <1>2 DEF OtherDevice, Sibling, Changes, Browser
<1>3. ASSUME NEW c, Save(c) \/ FlushedBySibling(c) \/ Hear(c) PROVE ChangesTyped' /\ committed \subseteq committed' /\ made \subseteq made'
  BY <1>3 DEF Save, FlushedBySibling, Hear, Changes, Browser, server
<1>4. CASE SaveLands \/ FlushLands \/ FlushDone
  BY <1>4 DEF SaveLands, FlushLands, FlushDone, Changes, Browser, server
<1>5. CASE SaveAnswered \/ SaveRefused \/ SaveLost
  BY <1>5, Assumption DEF SaveAnswered, SaveRefused, SaveLost, Changes, Browser, server
<1>6. ASSUME NEW x, Expire(x) \/ PollApply(x) \/ PollFail(x) \/ LoadArrives(x) \/ LoadFails(x)
      PROVE ChangesTyped' /\ committed \subseteq committed' /\ made \subseteq made'
  BY <1>6 DEF Expire, PollApply, PollFail, LoadArrives, LoadFails, server
<1>7. CASE Tick \/ Rebase \/ LoadStart
  BY <1>7 DEF Tick, Rebase, LoadStart, server
<1> QED BY <1>1, <1>2, <1>3, <1>4, <1>5, <1>6, <1>7 DEF Next, Answers, Arrives

LEMMA VersionNext ==
  ASSUME TypeOK, PollInv, [Next]_vars
  PROVE  VersionTyped'
<1>1. committed \subseteq committed' /\ committed' \subseteq Changes
  BY ChangesNext DEF ChangesTyped
<1>2. ASSUME UNCHANGED version PROVE VersionTyped'
  BY <1>1, <1>2 DEF version, VersionTyped, TypeOK
<1>3. ASSUME NEW cs \in SUBSET Browser, cs # {}, Announce(cs), UNCHANGED <<base, polls>>
      PROVE  VersionTyped'
  BY <1>1, <1>3, ToldIsScopes DEF Announce, VersionTyped, TypeOK
<1>4. CASE UNCHANGED vars
  BY <1>2, <1>4 DEF vars, version
<1>5. ASSUME NEW c, OtherDevice(c) \/ Sibling(c) \/ Save(c) \/ FlushedBySibling(c) PROVE VersionTyped'
  BY <1>2, <1>5 DEF OtherDevice, Sibling, Save, FlushedBySibling
<1>6. CASE SaveLands \/ SaveRefused \/ SaveLost \/ FlushLands
  BY <1>2, <1>6 DEF SaveLands, SaveRefused, SaveLost, FlushLands
<1>7. CASE SaveAnswered
  <2>1. saving \in Browser
    BY <1>7, Assumption DEF SaveAnswered, TypeOK, Browser
  <2> QED BY <1>3, <1>7, <2>1 DEF SaveAnswered
<1>8. CASE FlushDone
  <2>1. flushing \subseteq Browser
    BY DEF TypeOK, Browser
  <2> QED BY <1>3, <1>8, <2>1 DEF FlushDone
<1>9. ASSUME NEW c, Hear(c) PROVE VersionTyped'
  BY <1>1, <1>9 DEF Hear, VersionTyped, TypeOK, OnScreen
<1>10. ASSUME NEW scopes, Expire(scopes) PROVE VersionTyped'
  BY <1>1, <1>10 DEF Expire, VersionTyped, TypeOK
<1>11. CASE Tick \/ Rebase
  <2>1. \A rebase \in BOOLEAN : [rebase |-> rebase, snap |-> committed] \in Poll
    BY DEF Poll, TypeOK
  <2> QED BY <1>1, <1>11, <2>1 DEF Tick, Rebase, VersionTyped, TypeOK
<1>12. ASSUME NEW p \in polls, PollApply(p) PROVE VersionTyped'
  <2>1. p.snap \subseteq committed'
    BY <1>1 DEF PollInv
  <2>2. Acknowledged(Moved(p.snap)) \subseteq (SUBSET Scopes) \ {{}}
    BY DEF Acknowledged, TypeOK
  <2> QED BY <1>12, <2>1, <2>2 DEF PollApply, VersionTyped, TypeOK
<1>13. ASSUME NEW p \in polls, PollFail(p) PROVE VersionTyped'
  BY <1>1, <1>13 DEF PollFail, VersionTyped, TypeOK
<1>14. CASE LoadStart
  BY <1>2, <1>14 DEF LoadStart
<1>15. ASSUME NEW l, LoadArrives(l) \/ LoadFails(l) PROVE VersionTyped'
  BY <1>2, <1>15 DEF LoadArrives, LoadFails
<1> QED
  BY <1>4, <1>5, <1>6, <1>7, <1>8, <1>9, <1>10, <1>11, <1>12, <1>13, <1>14, <1>15
  DEF Next, Answers, Arrives

LEMMA ScreenNext ==
  ASSUME TypeOK, LoadInv, [Next]_vars
  PROVE  ScreenTyped'
<1>1. committed \subseteq committed' /\ made \subseteq made' /\ committed \subseteq Changes
  BY ChangesNext DEF TypeOK
<1>2. ASSUME refresh' \in BOOLEAN, UNCHANGED <<loads, failed>>, shown' \subseteq shown
      PROVE  ScreenTyped'
  BY <1>1, <1>2 DEF ScreenTyped, TypeOK
<1>3. CASE UNCHANGED vars
  BY <1>2, <1>3 DEF vars, TypeOK
<1>4. ASSUME NEW c, OtherDevice(c) \/ Sibling(c) \/ FlushedBySibling(c) \/ Hear(c) PROVE ScreenTyped'
  BY <1>2, <1>4 DEF OtherDevice, Sibling, FlushedBySibling, Hear, screen, TypeOK, OnScreen
<1>5. ASSUME NEW c, Save(c) PROVE ScreenTyped'
  BY <1>1, <1>5 DEF Save, ScreenTyped, TypeOK
<1>6. CASE Answers \/ FlushLands \/ FlushDone
  BY <1>2, <1>6 DEF Answers, SaveLands, SaveAnswered, SaveRefused, SaveLost, FlushLands,
     FlushDone, Reloads, OnScreen, screen, TypeOK
<1>7. CASE Tick \/ Rebase
  BY <1>2, <1>7 DEF Tick, Rebase, screen, TypeOK
<1>8. ASSUME NEW x, Expire(x) \/ PollApply(x) \/ PollFail(x) PROVE ScreenTyped'
  BY <1>2, <1>8 DEF Expire, PollApply, ReloadsFor, OnScreen, PollFail, screen, TypeOK
<1>9. CASE LoadStart
  <2>1. \A l \in loads : [l EXCEPT !.current = FALSE] \in Load
    BY DEF TypeOK, Load
  <2>2. [current |-> TRUE, snap |-> committed] \in Load
    BY <1>1 DEF Load
  <2>3. loads' \subseteq Load
    BY <1>9, <2>1, <2>2 DEF LoadStart
  <2> QED BY <1>1, <1>9, <2>3 DEF LoadStart, ScreenTyped, TypeOK
<1>10. ASSUME NEW l \in loads, LoadArrives(l) \/ LoadFails(l) PROVE ScreenTyped'
  BY <1>1, <1>10 DEF LoadArrives, LoadFails, LoadInv, ScreenTyped, TypeOK
<1> QED
  BY <1>3, <1>4, <1>5, <1>6, <1>7, <1>8, <1>9, <1>10 DEF Next, Arrives

(***************************************************************************)
(* The invariant of the tab, whatever is saved, polled, announced and      *)
(* reloaded, and in whatever order the answers come.                       *)
(***************************************************************************)
THEOREM SyncHolds == Spec => []SyncInv
<1>1. Init => SyncInv
  <2> SUFFICES ASSUME Init PROVE SyncInv
    OBVIOUS
  <2>1. PollInv /\ LoadInv
    BY DEF Init, PollInv, LoadInv
  <2>2. loads \subseteq Load
    BY DEF Init, Load
  <2> QED BY <2>1, <2>2, FewUnderWay DEF Init, TypeOK, SyncInv
<1>2. SyncInv /\ [Next]_vars => SyncInv'
  <2> SUFFICES ASSUME SyncInv, [Next]_vars PROVE SyncInv'
    OBVIOUS
  <2>1. PollInv' /\ LoadInv'
    BY PollNext, LoadNext DEF SyncInv
  <2>2. (Cardinality(polls) <= 1 /\ Cardinality({l \in loads : l.current}) <= 1)'
    BY <2>1, FewUnderWay, PTL
  <2>3. ChangesTyped' /\ VersionTyped' /\ ScreenTyped'
    BY ChangesNext, VersionNext, ScreenNext DEF SyncInv
  <2> QED BY <2>1, <2>2, <2>3 DEF SyncInv, TypeOK, ChangesTyped, VersionTyped, ScreenTyped
<1> QED BY <1>1, <1>2, PTL DEF Spec

(* The types of ClientSync hold for any sets of changes and scopes. *)
THEOREM SyncTyped == Spec => []TypeOK
<1>1. SyncInv => TypeOK
  BY DEF SyncInv
<1> QED BY <1>1, SyncHolds, PTL

(***************************************************************************)
(* checkServerVersion never takes an older version for a newer one: the    *)
(* baseline only grows, since no two polls overlap.                        *)
(***************************************************************************)
THEOREM BaselineOnlyAdvances == Spec => BaselineAdvances
<1>1. SyncInv /\ [Next]_vars => (base # NoVersion => base \subseteq base')
  <2> SUFFICES ASSUME SyncInv, Next, base # NoVersion PROVE base \subseteq base'
    BY DEF vars
  <2>1. ASSUME NEW p \in polls, PollApply(p) PROVE base \subseteq base'
    BY <2>1 DEF PollApply, SyncInv, PollInv
  <2>2. ASSUME UNCHANGED base PROVE base \subseteq base'
    BY <2>2
  <2>3. ASSUME NEW c, OtherDevice(c) \/ Sibling(c) \/ Save(c) \/ FlushedBySibling(c) \/ Hear(c)
        PROVE  UNCHANGED base
    BY <2>3 DEF OtherDevice, Sibling, Save, FlushedBySibling, Hear, version
  <2>4. ASSUME Answers \/ FlushLands \/ FlushDone PROVE UNCHANGED base
    BY <2>4 DEF Answers, SaveLands, SaveAnswered, SaveRefused, SaveLost, FlushLands,
       FlushDone, version
  <2>5. ASSUME NEW x, Expire(x) \/ PollFail(x) \/ LoadArrives(x) \/ LoadFails(x) PROVE UNCHANGED base
    BY <2>5 DEF Expire, PollFail, LoadArrives, LoadFails, version
  <2>6. ASSUME Tick \/ Rebase \/ LoadStart PROVE UNCHANGED base
    BY <2>6 DEF Tick, Rebase, LoadStart, version
  <2> QED BY <2>1, <2>2, <2>3, <2>4, <2>5, <2>6 DEF Next, Arrives
<1> QED BY <1>1, SyncHolds, PTL DEF Spec, BaselineAdvances

(***************************************************************************)
(* However many reloads overlap, and whatever the tab saves meanwhile, a   *)
(* change of another tab or device that the screen shows stays on it.      *)
(***************************************************************************)
THEOREM ShownRemains == Spec => ShownStays
<1> DEFINE Stays == \A c \in Others \cup Siblings : c \in shown => c \in shown'
<1>1. SyncInv /\ [Next]_vars => Stays
  <2> SUFFICES ASSUME SyncInv, Next PROVE Stays
    BY DEF vars
  <2>1. ASSUME shown \subseteq shown' PROVE Stays
    BY <2>1
  <2>2. ASSUME NEW l \in loads, LoadArrives(l) PROVE Stays
    BY <2>2 DEF LoadArrives, Applies, SyncInv, LoadInv, Elsewhere
  <2>3. CASE SaveRefused
    BY <2>3, OwnIsNotElsewhere DEF SaveRefused, Elsewhere
  <2>4. ASSUME NEW c, OtherDevice(c) \/ Sibling(c) \/ Save(c) \/ FlushedBySibling(c) \/ Hear(c)
        PROVE  shown \subseteq shown'
    BY <2>4 DEF OtherDevice, Sibling, Save, FlushedBySibling, Hear, screen
  <2>5. ASSUME SaveLands \/ SaveAnswered \/ SaveLost \/ FlushLands \/ FlushDone
        PROVE  shown \subseteq shown'
    BY <2>5 DEF SaveLands, SaveAnswered, SaveLost, FlushLands, FlushDone, screen
  <2>6. ASSUME NEW x, Expire(x) \/ PollApply(x) \/ PollFail(x) \/ LoadFails(x)
        PROVE  shown \subseteq shown'
    BY <2>6 DEF Expire, PollApply, PollFail, LoadFails, screen
  <2>7. ASSUME Tick \/ Rebase \/ LoadStart PROVE shown \subseteq shown'
    BY <2>7 DEF Tick, Rebase, LoadStart, screen
  <2> HIDE DEF Stays
  <2> QED BY <2>1, <2>2, <2>3, <2>4, <2>5, <2>6, <2>7 DEF Next, Answers, Arrives
<1> QED BY <1>1, SyncHolds, PTL DEF Spec, ShownStays
=============================================================================
