SPECIFICATION Spec
CONSTANTS
  two = two
  one = one
  Students = {s1}
  Chapters = {two, one}
  NoChapter = NoChapter
  Second = two
  NoBalance = NoBalance
  Limits <- TwoAndOne
  PledgeMax = 2
  Grant = 2
  Admins = {a1, a2}
  Offered = {"dismiss", "restore", "pledge", "manual", "reenrol", "withdraw", "unwithdraw", "grade", "activate", "deactivate", "transition", "archive"}
  MaxAttempts = 2
  MaxCommits = 3
CHECK_DEADLOCK FALSE
SYMMETRY Alike
INVARIANT TypeOK
INVARIANT PledgeLimit
PROPERTY SeenStateOnly
PROPERTY ArchivedUntouched
PROPERTY WithdrawalReversed
PROPERTY TransitionOnce
