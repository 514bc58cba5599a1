\* Results entered late, corrected and deleted, with a command and its undo.
SPECIFICATION Spec
CONSTANTS
  Cap = 2
  Exams <- FourExams
  DayOf <- TwoDays
  Finals = {3}
  PenaltyOf <- Doubles
  BonusLimit = 1
  DayLength = 10
  Entries <- Results
  Amounts = {1}
  Commands <- OneThenUndo
  MaxDay = 2
CHECK_DEADLOCK FALSE
INVARIANT TypeOK
INVARIANT SavedIsReplay
INVARIANT PlaceIndependentOfEntry
INVARIANT HeldOnlyWhileDismissed
INVARIANT ManualLossStays
PROPERTY ReturnsAreEarned
PROPERTY SettledEditsChangeNothing
PROPERTY OldLossSpendsOldBalance
PROPERTY RecordedBalanceIsSaved
