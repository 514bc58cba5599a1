------------------------- MODULE MCStudentLifecycle -------------------------
(* A small instance of StudentLifecycle: a chapter that grants two         *)
(* opportunities and one that grants a single one.                         *)
EXTENDS StudentLifecycle, TLC

CONSTANTS two, one

TwoAndOne == (two :> 2) @@ (one :> 1)
Alike == Permutations(Admins)
=============================================================================
