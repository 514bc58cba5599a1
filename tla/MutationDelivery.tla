---------------------------- MODULE MutationDelivery ----------------------------
(***************************************************************************)
(* What the client promises of a change the user makes, without requests,  *)
(* retries, queue or tabs: it is carried until it has taken effect since   *)
(* it was taken up, or its user is told that it did not or may not have;   *)
(* a change that says what it expects to find, or that cannot be repeated  *)
(* safely, takes effect no more often than it was asked for.               *)
(***************************************************************************)
EXTENDS Naturals

CONSTANTS
  Edits,       \* the changes
  Guarded      \* those that must not be repeated

VARIABLES
  asked,       \* asked[e]: how often the user made the change
  effects,     \* effects[e]: how often it took effect
  landed,      \* those that took effect since they were taken up
  carried,     \* those the client still answers for
  reported,    \* those whose user was told
  cut          \* those whose page was closed while they were being sent

vars == <<asked, effects, landed, carried, reported, cut>>

(* The queue of an earlier page: its changes may have taken effect. *)
Init ==
  /\ carried \subseteq Edits /\ landed \subseteq carried
  /\ asked = [e \in Edits |-> 0] /\ effects = [e \in Edits |-> 0]
  /\ reported = {} /\ cut = {}

(* A change made again while it is carried is the same one. *)
Ask(e) ==
  /\ asked' = [asked EXCEPT ![e] = @ + 1]
  /\ carried' = carried \cup {e}
  /\ landed' = IF e \in carried THEN landed ELSE landed \ {e}
  /\ UNCHANGED <<effects, reported, cut>>

TakeEffect(e) ==
  /\ e \in Guarded => effects[e] < asked[e]
  /\ effects' = [effects EXCEPT ![e] = @ + 1] /\ landed' = landed \cup {e}
  /\ UNCHANGED <<asked, carried, reported, cut>>

Settle(e) ==
  /\ e \in landed /\ carried' = carried \ {e}
  /\ UNCHANGED <<asked, effects, landed, reported, cut>>

Tell(e) ==
  /\ reported' = reported \cup {e} /\ carried' \in {carried, carried \ {e}}
  /\ UNCHANGED <<asked, effects, landed, cut>>

Cut(e) ==
  /\ cut' = cut \cup {e} /\ carried' \in {carried, carried \ {e}}
  /\ UNCHANGED <<asked, effects, landed, reported>>

Next == \E e \in Edits : Ask(e) \/ TakeEffect(e) \/ Settle(e) \/ Tell(e) \/ Cut(e)

Spec == Init /\ [][Next]_vars
=============================================================================
