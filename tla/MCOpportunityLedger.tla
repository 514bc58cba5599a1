------------------------- MODULE MCOpportunityLedger -------------------------
(* Small instances of OpportunityLedger: one exam on the first day, three on
   the second; the third is final in LedgerReplay. *)
EXTENDS OpportunityLedger

FourExams == 1..4
TwoDays == <<1, 2, 2, 2>>
Doubles == [e \in FourExams |-> 2]
Results == {<<1, "absent">>, <<2, "pass">>, <<3, "pass">>, <<3, "absent">>,
            <<4, "absent">>, <<4, "cheat">>}
OneThenUndo == <<{"add", "deduct", "reset", "grant"}, {"undo"}>>

OneExam == 1..1
OneDay == <<1>>
Single == [e \in OneExam |-> 1]
NoResults == {}
UndoTheUndo == <<{"deduct"}, {"deduct"}, {"grant"}, {"undo"}, {"undo"}>>
=============================================================================
