\* A tab, another tab and another device: saves, a flush, polls and reloads that overlap.
SPECIFICATION FairSpec
CONSTANTS
  Mine = {m1}
  Siblings = {b1}
  Others = {f1}
  NoChange = NoChange
  NoVersion = NoVersion
  first = first
  second = second
  hidden = hidden
  Scopes = {first, second, hidden}
  Section <- OfTwo
  Marks <- MarksOf
  Told <- ToldBy
  MaxLoads = 2
CHECK_DEADLOCK FALSE
INVARIANT TypeOK
PROPERTY BaselineAdvances
PROPERTY ShownStays
PROPERTY OthersShown
PROPERTY AnnouncedShown
