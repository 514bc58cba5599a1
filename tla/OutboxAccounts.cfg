\* Two accounts take turns in two tabs of one browser.
SPECIFICATION Spec
CONSTANTS
  Scores = {s1, s2}
  Marks = {}
  NoValue = NoValue
  Users = {u1, u2}
  Nobody = Nobody
  Tabs = {t1, t2}
  NoTab = NoTab
  MaxEdits = 2
  MaxFaults = 0
  MaxOthers = 0
  MaxLogins = 2
CHECK_DEADLOCK FALSE
SYMMETRY Symmetry
INVARIANTS
  RecordedUnderTypist
PROPERTIES
  OverwritesOnlyKnown
