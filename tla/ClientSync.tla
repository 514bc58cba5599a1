------------------------------ MODULE ClientSync ------------------------------
(***************************************************************************)
(* How a tab learns of what others changed: the other tabs of its browser, *)
(* which announce what they saved, and other devices, whose changes it     *)
(* finds by polling the server's version, a marker per scope, against the  *)
(* last one it took.  What its own saves moved is taken for their echo,    *)
(* the rest reloads the section on screen.  After a save or an             *)
(* announcement the baseline is moved without reloading anything.          *)
(* A change whose call failed waits in the queue (MutationOutbox) until    *)
(* this tab's flush, or another's, sends it.                               *)
(***************************************************************************)
EXTENDS Naturals, FiniteSets

CONSTANTS
  Mine,        \* the changes made in this tab
  Siblings,    \* in the other tabs of the browser
  Others,      \* on other devices
  NoChange,
  NoVersion,   \* no version read yet
  Scopes,
  Section,     \* the scopes of the section on screen
  Marks,       \* Marks[c]: the scopes whose marker the change moves
  Told,        \* Told[c]: the scopes a page of this browser announces for it
  MaxLoads     \* bound: reloads under way at a time

Browser == Mine \cup Siblings
Changes == Browser \cup Others

ASSUME Assumption ==
  /\ NoChange \notin Changes /\ MaxLoads \in Nat /\ Section \subseteq Scopes
  /\ Mine \cap Siblings = {} /\ Others \cap Browser = {}
  /\ Marks \in [Changes -> SUBSET Scopes] /\ Told \in [Browser -> (SUBSET Scopes) \ {{}}]

VARIABLES
  committed,   \* the changes the server made
  made,        \* those of this tab so far, each made once
  saving,      \* the change of the tab's direct call
  queued,      \* its changes waiting in the queue
  flushing,    \* what the tab's flush sent and has not announced yet
  base,        \* the changes in the last version the tab took
  pending,     \* the scopes whose echo is still expected, a set per save
  timer,       \* the baseline is to be moved without a reload
  polls,       \* versions on their way, with their purpose
  heard,       \* changes announced by other tabs, not delivered yet
  refresh,     \* the section is to be reloaded
  loads,       \* section data on its way
  shown,       \* the changes on screen
  failed       \* a reload failed

server == <<committed, made, queued>>
version == <<base, pending, timer, polls>>
screen == <<refresh, loads, shown, failed>>
vars == <<committed, made, saving, queued, flushing, base, pending, timer, polls, heard,
          refresh, loads, shown, failed>>

Poll == [rebase: BOOLEAN, snap: SUBSET Changes]
Load == [current: BOOLEAN, snap: SUBSET Changes]

TypeOK ==
  /\ committed \subseteq Changes /\ made \subseteq Mine /\ queued \subseteq made
  /\ saving \in made \cup {NoChange} /\ flushing \subseteq made \cap committed
  /\ base \in (SUBSET committed) \cup {NoVersion}
  /\ pending \subseteq (SUBSET Scopes) \ {{}} /\ timer \in BOOLEAN
  /\ polls \subseteq Poll /\ Cardinality(polls) <= 1
  /\ heard \subseteq Browser \cap committed
  /\ refresh \in BOOLEAN /\ failed \in BOOLEAN
  /\ loads \subseteq Load /\ Cardinality({l \in loads : l.current}) <= 1
  /\ shown \subseteq committed \cup made

(* The page has just been opened: its first load is on its way. *)
Init ==
  /\ committed = {} /\ made = {} /\ saving = NoChange /\ queued = {} /\ flushing = {}
  /\ base = NoVersion /\ pending = {} /\ timer = FALSE /\ polls = {} /\ heard = {}
  /\ refresh = FALSE /\ loads = {[current |-> TRUE, snap |-> {}]} /\ shown = {} /\ failed = FALSE

OnScreen(scopes) == scopes \cap Section # {}
ToldOf(cs) == UNION {Told[c] : c \in cs}

-----------------------------------------------------------------------------
(* Changes *)

OtherDevice(c) ==
  /\ c \in Others \ committed /\ committed' = committed \cup {c}
  /\ UNCHANGED <<made, saving, queued, flushing, version, heard, screen>>

(* Another tab saved a change and announces it. *)
Sibling(c) ==
  /\ c \in Siblings \ committed /\ committed' = committed \cup {c}
  /\ heard' = heard \cup {c}
  /\ UNCHANGED <<made, saving, queued, flushing, version, screen>>

(* A direct call shows its change at once and holds off reloads (the interaction blocker). *)
Save(c) ==
  /\ saving = NoChange /\ c \in Mine \ made /\ made' = made \cup {c}
  /\ saving' = c /\ shown' = shown \cup {c}
  /\ UNCHANGED <<committed, queued, flushing, version, heard, refresh, loads, failed>>

SaveLands ==
  /\ saving \in Mine \ committed /\ committed' = committed \cup {saving}
  /\ UNCHANGED <<made, saving, queued, flushing, version, heard, screen>>

(* emitTeacherProDataChanged with source local-mutation *)
Announce(cs) ==
  /\ pending' = pending \cup {ToldOf(cs)} /\ timer' = TRUE

SaveAnswered ==
  /\ saving \in committed /\ saving' = NoChange /\ Announce({saving})
  /\ UNCHANGED <<server, flushing, base, polls, heard, screen>>

(* The server said no: the change is taken off the screen. *)
SaveRefused ==
  /\ saving \in Mine \ committed /\ saving' = NoChange /\ shown' = shown \ {saving}
  /\ UNCHANGED <<server, flushing, version, heard, refresh, loads, failed>>

(* No answer: it is queued, whether or not it has landed, and stays on the screen. *)
SaveLost ==
  /\ saving # NoChange /\ queued' = queued \cup {saving} /\ saving' = NoChange
  /\ UNCHANGED <<committed, made, flushing, version, heard, screen>>

FlushLands ==
  /\ queued # {} /\ flushing = {}
  /\ committed' = committed \cup queued /\ flushing' = queued /\ queued' = {}
  /\ UNCHANGED <<made, saving, version, heard, screen>>

(* The flush reloads its own section beside announcing what it sent. *)
NoReload(cs) == FALSE   \* faulty: its announcement is not for this tab
Reloads(cs) == OnScreen(ToldOf(cs))

FlushDone ==
  /\ flushing # {} /\ flushing' = {} /\ Announce(flushing)
  /\ refresh' = (refresh \/ Reloads(flushing))
  /\ UNCHANGED <<server, saving, base, polls, heard, loads, shown, failed>>

(* Another tab held the lock and sent what this one queued. *)
FlushedBySibling(c) ==
  /\ c \in queued /\ queued' = queued \ {c} /\ committed' = committed \cup {c}
  /\ heard' = heard \cup {c}
  /\ UNCHANGED <<made, saving, flushing, version, screen>>

(* An announcement reloads the section and has the baseline moved. *)
Hear(c) ==
  /\ c \in heard /\ heard' = heard \ {c}
  /\ timer' = (timer \/ OnScreen(Told[c])) /\ refresh' = (refresh \/ OnScreen(Told[c]))
  /\ UNCHANGED <<server, saving, flushing, base, pending, polls, loads, shown, failed>>

(* LOCAL_MUTATION_ACK_WINDOW_MS have passed since a save. *)
Expire(scopes) ==
  /\ scopes \in pending /\ pending' = pending \ {scopes}
  /\ UNCHANGED <<server, saving, flushing, base, timer, polls, heard, screen>>

-----------------------------------------------------------------------------
(* Version polling: checkServerVersion *)

PollAnyway == TRUE   \* faulty: inFlight is not looked at
PollFree == polls = {}

(* Every twelve seconds, and on waking up. *)
Tick ==
  /\ PollFree /\ polls' = polls \cup {[rebase |-> FALSE, snap |-> committed]}
  /\ UNCHANGED <<server, saving, flushing, base, pending, timer, heard, screen>>

(* scheduleSnapshotRebaseline: its poll is dropped when one is under way. *)
Rebase ==
  /\ timer /\ timer' = FALSE
  /\ polls' = IF PollFree THEN polls \cup {[rebase |-> TRUE, snap |-> committed]} ELSE polls
  /\ UNCHANGED <<server, saving, flushing, base, pending, heard, screen>>

Moved(snap) == UNION {Marks[c] : c \in snap \ base}

(* consumeTeacherProLocalMutationEcho *)
External(scopes) == {s \in scopes : \A own \in pending : s \notin own}
SpentKept(scopes) == {own \ scopes : own \in pending}   \* faulty: used up entries stay
Acknowledged(scopes) == {own \ scopes : own \in pending} \ {{}}

(* A server-version event, if it is for the section on screen *)
ReloadsUnlessLoading(p) ==   \* faulty: a reload under way is taken to bring the change
  loads = {} /\ ~p.rebase /\ OnScreen(External(Moved(p.snap)))
ReloadsFor(p) == ~p.rebase /\ OnScreen(External(Moved(p.snap)))

PollApply(p) ==
  /\ p \in polls /\ polls' = polls \ {p} /\ base' = p.snap
  /\ IF base \in {NoVersion, p.snap}
     THEN UNCHANGED <<pending, refresh>>
     ELSE /\ pending' = Acknowledged(Moved(p.snap))
          /\ refresh' = (refresh \/ ReloadsFor(p))
  /\ UNCHANGED <<server, saving, flushing, timer, heard, loads, shown, failed>>

PollFail(p) ==
  /\ p \in polls /\ polls' = polls \ {p}
  /\ UNCHANGED <<server, saving, flushing, base, pending, timer, heard, screen>>

-----------------------------------------------------------------------------
(* Reloading the section: refreshCurrentSection, loadSectionDataFromServer *)

(* A reload waits for the tab's call; a newer one makes the answers still to come void. *)
LoadStart ==
  /\ refresh /\ saving = NoChange /\ Cardinality(loads) < MaxLoads
  /\ refresh' = FALSE
  /\ loads' = {[l EXCEPT !.current = FALSE] : l \in loads}
                \cup {[current |-> TRUE, snap |-> committed]}
  /\ UNCHANGED <<server, saving, flushing, version, heard, shown, failed>>

AnyApplies(l) == TRUE   \* faulty: the request's sequence number is not compared
Applies(l) == l.current

LoadArrives(l) ==
  /\ l \in loads /\ loads' = loads \ {l}
  /\ shown' = IF Applies(l) THEN l.snap ELSE shown
  /\ UNCHANGED <<server, saving, flushing, version, heard, refresh, failed>>

LoadFails(l) ==
  /\ l \in loads /\ ~failed /\ loads' = loads \ {l} /\ failed' = TRUE
  /\ UNCHANGED <<server, saving, flushing, version, heard, refresh, shown>>

-----------------------------------------------------------------------------
Answers == SaveLands \/ SaveAnswered \/ SaveRefused \/ SaveLost
Arrives == \E l \in loads : LoadArrives(l)

Next ==
  \/ \E c \in Others : OtherDevice(c)
  \/ \E c \in Siblings : Sibling(c)
  \/ \E c \in Mine : Save(c) \/ FlushedBySibling(c)
  \/ Answers \/ FlushLands \/ FlushDone
  \/ \E c \in Browser : Hear(c)
  \/ \E scopes \in pending : Expire(scopes)
  \/ Tick \/ Rebase
  \/ \E p \in polls : PollApply(p) \/ PollFail(p)
  \/ LoadStart \/ Arrives \/ \E l \in loads : LoadFails(l)

Spec == Init /\ [][Next]_vars

(***************************************************************************)
(* Timers fire, announcements are delivered, calls end and loads are       *)
(* answered; polls go on, and of those under way some are answered.        *)
(***************************************************************************)
Fairness ==
  /\ WF_vars(Answers) /\ WF_vars(FlushDone) /\ \A c \in Browser : WF_vars(Hear(c))
  /\ WF_vars(Tick) /\ WF_vars(Rebase) /\ WF_vars(LoadStart) /\ WF_vars(Arrives)
  /\ SF_vars(\E p \in polls : PollApply(p) /\ ~p.rebase)

FairSpec == Spec /\ Fairness

-----------------------------------------------------------------------------
(* The version a tab compares with never goes back: two polls never overlap, *)
(* so an older answer is not applied over a newer one.                       *)
BaselineAdvances == [][base # NoVersion => base \subseteq base']_vars

(* A change made elsewhere does not disappear from a screen that showed it:  *)
(* of several reloads under way only the newest is applied.                  *)
ShownStays ==
  [][\A c \in Others \cup Siblings : c \in shown => c \in shown']_vars

(* No save of this browser has its echo outstanding or is being announced. *)
Calm == pending = {} /\ ~timer /\ heard = {} /\ \A p \in polls : ~p.rebase

(* Another device's change to the section is shown, unless this browser's    *)
(* own saves come in between or a reload fails.                              *)
OthersShown ==
  \A c \in Others :
    (OnScreen(Marks[c]) /\ c \in committed /\ base # NoVersion /\ c \notin base /\ Calm)
      ~> (c \in shown \/ ~Calm \/ failed)

(* What the tab hears from another, and what it flushed itself, is shown: a  *)
(* reload put off by a call, or overtaken by another, is not lost.           *)
AnnouncedShown ==
  \A c \in Browser :
    (c \in heard \cup flushing /\ OnScreen(Told[c])) ~> (c \in shown \/ failed)
=============================================================================
