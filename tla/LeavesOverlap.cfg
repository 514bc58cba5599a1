\* Two exams on two days, and leaves that cover the same exam.
SPECIFICATION Spec
CONSTANTS
  Exams = {e1, e2}
  Scores = {v1}
  Absent = Absent
  Excused = Excused
  NoRow = NoRow
  Leaves = {l1, l2, l3}
  NoLeave = NoLeave
  LastDay = 2
  Crossing = FALSE
SYMMETRY Alike
INVARIANT TypeOK
INVARIANT ExcusedWhileCovered
INVARIANT OriginalRestored
