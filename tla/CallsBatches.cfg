SPECIFICATION Spec
CONSTANTS
  Windows = {w1, w2}
  Overseers = {}
  NoWindow = NoWindow
  Cases = {c1, c2}
  Exams = {e1}
  ExamOf <- OneExam
  Actions = {answered}
  NoAction = NoAction
  BatchSize = 2
  MaxTries = 2
  MaxSaves = 1
  MaxLists = 2
  MaxTakes = 1
  MaxLapses = 1
  MaxChanges = 0
  MaxResends = 0
CHECK_DEADLOCK FALSE
SYMMETRY Alike
INVARIANT TypeOK
INVARIANT BatchIsUncalled
PROPERTY ActsOnlyOnFreeOrOwn
PROPERTY DutyKept
PROPERTY SilentNeverWakesHolding
