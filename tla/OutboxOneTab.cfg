\* One tab: its saves against its own flush and another device; a waiting
\* draft is sent or handed to the teacher.
SPECIFICATION FairSpec
CONSTANTS
  Scores = {s1}
  Marks = {absent}
  NoValue = NoValue
  Users = {u1}
  Nobody = Nobody
  Tabs = {t1}
  NoTab = NoTab
  MaxEdits = 2
  MaxFaults = 1
  MaxOthers = 1
  MaxLogins = 0
CHECK_DEADLOCK FALSE
INVARIANT TypeOK
INVARIANT DraftKeptUntilAcknowledged
INVARIANT NothingHeldWhileActive
PROPERTY DraftSettles
