----------------------------- MODULE MCClientSync -----------------------------
(***************************************************************************)
(* Small instances of ClientSync.  A change of this browser announces more *)
(* scopes than it moves, as the endpoints' lists do; the first scope is    *)
(* also moved by other devices, and the last is not on screen.             *)
(***************************************************************************)
EXTENDS ClientSync

CONSTANTS first, second, hidden

OfTwo == {first, second}
MarksOf == [c \in Changes |-> IF c \in Siblings THEN {second, hidden} ELSE {first}]
ToldBy == [c \in Browser |-> {first, second, hidden}]
=============================================================================
