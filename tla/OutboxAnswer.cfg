\* A success that reports another grade.
SPECIFICATION Spec
CONSTANTS
  Scores = {s1, s2}
  Marks = {}
  NoValue = NoValue
  Users = {u1}
  Nobody = Nobody
  Tabs = {t1}
  NoTab = NoTab
  MaxEdits = 2
  MaxFaults = 0
  MaxOthers = 3
  MaxLogins = 0
CHECK_DEADLOCK FALSE
INVARIANTS
  AnswerIsThisDraft
