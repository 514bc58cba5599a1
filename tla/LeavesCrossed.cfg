\* A score is entered over a leave that another leave crosses at another exam.
SPECIFICATION Spec
CONSTANTS
  Exams = {e1, e2}
  Scores = {v1}
  Absent = Absent
  Excused = Excused
  NoRow = NoRow
  Leaves = {l1, l2, l3}
  NoLeave = NoLeave
  LastDay = 3
  Crossing = TRUE
SYMMETRY Alike
INVARIANT ExcusedWhileCovered
