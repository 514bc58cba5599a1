--------------------------- MODULE MCStudentLeaves ---------------------------
(* Small instances of StudentLeaves. *)
EXTENDS StudentLeaves, TLC

Alike == Permutations(Leaves) \cup Permutations(Exams)
=============================================================================
