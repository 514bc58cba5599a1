\* Windows that move between exams, fall silent and come back; an action
\* repeated late; what a silent window held is released.
SPECIFICATION FairSpec
CONSTANTS
  Windows = {w1, w2}
  Overseers = {w2}
  NoWindow = NoWindow
  Cases = {c1}
  Exams = {e1, e2}
  ExamOf <- OneExam
  Actions = {answered}
  NoAction = NoAction
  BatchSize = 1
  MaxTries = 2
  MaxSaves = 1
  MaxLists = 1
  MaxTakes = 0
  MaxLapses = 1
  MaxChanges = 1
  MaxResends = 1
CHECK_DEADLOCK FALSE
INVARIANT BatchIsUncalled
PROPERTY SilentHoldsReleased
