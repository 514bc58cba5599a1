------------------------------- MODULE CallDuty -------------------------------
(***************************************************************************)
(* What the calls page promises, without its tables, locks and requests:   *)
(* a student is on the duty of one window at a time.  Duty passes from a   *)
(* window to another only through nobody, never to anyone while an action  *)
(* on the student is being saved, and an action is begun and finished by   *)
(* the window on duty or when nobody is, the overseers' apart.             *)
(***************************************************************************)
CONSTANTS
  Windows,     \* the open calls pages
  Overseers,   \* those of the admin and the supervisors
  NoWindow,    \* nobody's
  Cases        \* (student, exam) pairs

VARIABLES
  holder,      \* holder[c]: the window on duty
  acting       \* acting[c]: the windows saving an action on it

vars == <<holder, acting>>

Init ==
  /\ holder = [c \in Cases |-> NoWindow]
  /\ acting = [c \in Cases |-> {}]

Allowed(c, w) == w \in Overseers \/ holder[c] \in {NoWindow, w}

Grant(c) ==
  /\ holder[c] = NoWindow /\ acting[c] = {}
  /\ holder'[c] \in Windows /\ acting'[c] = {}

Yield(c) ==
  /\ holder'[c] = NoWindow /\ acting'[c] = acting[c]

Begin(c) ==
  /\ acting[c] = {} /\ \E w \in Windows : Allowed(c, w) /\ acting'[c] = {w}
  /\ holder'[c] = holder[c]

(* An action ends the duty; one taken back may give it to who took it back. *)
Finish(c) ==
  \E w \in acting[c] :
    /\ Allowed(c, w) /\ acting'[c] = {}
    /\ holder'[c] \in {NoWindow, holder[c], w}
    /\ holder'[c] = w => holder[c] \in {NoWindow, w}

Stay(c) == holder'[c] = holder[c] /\ acting'[c] = acting[c]

(* A beat, a list or a closing page moves many cases in one step. *)
Next ==
  /\ DOMAIN holder' = Cases /\ DOMAIN acting' = Cases
  /\ \A c \in Cases : Stay(c) \/ Grant(c) \/ Yield(c) \/ Begin(c) \/ Finish(c)

Spec == Init /\ [][Next]_vars
=============================================================================
