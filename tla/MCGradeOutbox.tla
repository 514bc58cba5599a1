---------------------------- MODULE MCGradeOutbox ----------------------------
(***************************************************************************)
(* Small instances of GradeOutbox.  Tabs, accounts and numeric results are *)
(* interchangeable; only invariants and action properties are checked      *)
(* under the symmetry.                                                     *)
(***************************************************************************)
EXTENDS GradeOutbox, TLC

Symmetry == Permutations(Tabs) \cup Permutations(Users) \cup Permutations(Scores)
=============================================================================
