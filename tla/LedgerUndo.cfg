\* An undo of an undo, one opportunity, no results.
SPECIFICATION Spec
CONSTANTS
  Cap = 1
  Exams <- OneExam
  DayOf <- OneDay
  Finals = {}
  PenaltyOf <- Single
  BonusLimit = 1
  DayLength = 10
  Entries <- NoResults
  Amounts = {1}
  Commands <- UndoTheUndo
  MaxDay = 1
CHECK_DEADLOCK FALSE
PROPERTY DismissalNeedsEmptyBalance
