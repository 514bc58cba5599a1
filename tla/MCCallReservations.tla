-------------------------- MODULE MCCallReservations --------------------------
(* Small instances of CallReservations: every case belongs to one exam; a
   second exam, where there is one, has no cases of its own. *)
EXTENDS CallReservations, TLC

OneExam == [c \in Cases |-> CHOOSE e \in Exams : TRUE]

Alike == Permutations(Windows \ Overseers) \cup Permutations(Cases)
=============================================================================
